--------------------------- MODULE SessionDurability ---------------------------
(***************************************************************************)
(* One persistent session on disk, and the requests that extend it.        *)
(*                                                                         *)
(* A session has a manifest (the tokens it has committed) and, for each    *)
(* generation of the session, a KV tier file (a header with a committed-   *)
(* token watermark, and pages) and at most one undo journal.  A request    *)
(* activates the session (load, recover, open, begin), generates, and then *)
(* persists: pages, watermark, manifest, garbage collection, journal.      *)
(* Everything between activation and the end of persistence runs under     *)
(* session_mutex or the pending counter, so there is one program counter.  *)
(*                                                                         *)
(* Every disk operation is a step of its own.  An object of the disk is    *)
(* the pair of what a read returns now and of what a crash may leave: a    *)
(* write that is not synced may survive, be lost, or be torn.  The names   *)
(* in the session's directory are one object, so that renames, creations   *)
(* and unlinks survive in the order in which they were made; a file is     *)
(* renamed only after its contents are synced, so a name carries them.     *)
(*                                                                         *)
(* The data of a token is the number of the turn that computed it.         *)
(***************************************************************************)
EXTENDS Integers, Sequences, FiniteSets

CONSTANTS
    PageTokens,         \* AXIOM_QWEN38_KV_TIER_PAGE_TOKENS
    MaxContext,         \* max_context of the tier
    MaxGeneration,      \* bound of the model: generations of the session
    MaxTurns            \* bound of the model: turns that generate

ASSUME SessionAssumption ==
    /\ PageTokens \in Nat \ {0}
    /\ MaxContext \in Nat \ {0}
    /\ MaxGeneration \in Nat \ {0}
    /\ MaxTurns \in Nat

VARIABLES
    directory,          \* the session's .manifest, its .g<generation>.kv.txn journals,
                        \* and which .g<generation>.kv tier files there are
    header,             \* header of .g<generation>.kv
    page,               \* pages of .g<generation>.kv
    pc,                 \* next step of the request or of its persistence job
    activation,         \* session_activation
    tier,               \* state->kv_tier: generation and committed_tokens in memory
    history,            \* the tokens the request has computed
    unwritten,          \* pages the persistence job has still to write
    healthy,            \* state->healthy
    turn,               \* turns started
    acknowledged        \* the last turn whose publication returned without error

disk == <<directory, header, page>>
memory == <<activation, tier, history, unwritten, healthy, turn>>
durabilityVars == <<directory, header, page, pc, memory, acknowledged>>

Generations == 1..MaxGeneration
Pages == 0..((MaxContext - 1) \div PageTokens)

Absent == [kind |-> "absent"]               \* no such manifest, no such journal
Empty == [kind |-> "empty"]                 \* a tier file of size 0
Blank == [kind |-> "blank"]                 \* a tier file that has no valid header
HeaderOf(g, committed) ==
    [kind |-> "header", generation |-> g, committed |-> committed]

Torn == [i \in 1..PageTokens |-> -1]
EmptyPage == [i \in 1..PageTokens |-> 0]

\* The page of a token, and what a page holds when the tokens are h.
PageOf(position) == position \div PageTokens
PageContent(h, p) ==
    [i \in 1..PageTokens |->
        IF p * PageTokens + i <= Len(h) THEN h[p * PageTokens + i] ELSE 0]

--------------------------------------------------------------------------------
(* The disk *)

Synced(v) == [now |-> v, crash |-> {v}]

\* A write or a rename that is not synced yet; torn is what a crash may leave
\* of the write itself, unless it writes what is there already.
Unsynced(o, v, torn) ==
    [now |-> v, crash |-> o.crash \union {v} \union (IF o.crash = {v} THEN {} ELSE torn)]

Manifest == directory.now.manifest
Journal(g) == directory.now.journal[g]
HasTier(g) == g \in directory.now.tiers

\* rename, unlink, or open with O_CREAT: the directory becomes d.
ChangeNames(d) ==
    /\ directory' = Unsynced(directory, d, {})
    /\ UNCHANGED <<header, page>>

parent_directory_sync ==
    /\ directory' = Synced(directory.now)
    /\ UNCHANGED <<header, page>>

fdatasync(g) ==
    /\ header' = [header EXCEPT ![g] = Synced(@.now)]
    /\ page' = [gp \in Generations \X Pages |->
                    IF gp[1] = g THEN Synced(page[gp].now) ELSE page[gp]]
    /\ UNCHANGED directory

WriteHeader(g, v) ==
    /\ header' = [header EXCEPT ![g] = Unsynced(@, v, {Blank})]
    /\ UNCHANGED <<directory, page>>

WritePage(g, p, content) ==
    /\ page' = [page EXCEPT ![g, p] = Unsynced(@, content, {Torn})]
    /\ UNCHANGED <<directory, header>>

--------------------------------------------------------------------------------
(* Control *)

NoActivation ==
    [reuse |-> FALSE, generation |-> 0, base |-> <<>>,
     transaction_active |-> FALSE, caller |-> "none"]

NoTier == [generation |-> 0, committed |-> 0]

SessionInit ==
    /\ directory = Synced([manifest |-> Absent, tiers |-> {},
                           journal |-> [g \in Generations |-> Absent]])
    /\ header = [g \in Generations |-> Synced(Empty)]
    /\ page = [gp \in Generations \X Pages |-> Synced(EmptyPage)]
    /\ pc = "idle"
    /\ activation = NoActivation
    /\ tier = NoTier
    /\ history = <<>>
    /\ unwritten = {}
    /\ healthy = TRUE
    /\ turn = 0
    /\ acknowledged = 0

\* The request, or its job, is over; well is FALSE when the job failed.
Finish(well) ==
    /\ pc' = "idle"
    /\ activation' = NoActivation
    /\ tier' = NoTier
    /\ history' = <<>>
    /\ unwritten' = {}
    /\ healthy' = (healthy /\ well)
    /\ UNCHANGED turn

GoTo(step) == pc' = step /\ UNCHANGED memory

--------------------------------------------------------------------------------
(* Activation *)

\* qwen38_persistent_session_store::load, then activate_session up to recovery.
Load ==
    /\ pc = "idle"
    /\ healthy
    /\ LET m == Manifest IN
       activation' = IF m = Absent
                     THEN [NoActivation EXCEPT !.generation = 1]
                     ELSE [NoActivation EXCEPT !.generation = m.generation,
                                               !.base = m.tokens, !.caller = "activate"]
    /\ pc' = IF Manifest = Absent THEN "create" ELSE "recover"
    /\ UNCHANGED <<disk, tier, history, unwritten, healthy, turn>>

\* axiom_qwen38_kv_tier_transaction_recover_file.
RestoresBase(j) == Len(activation.base) = j.header.committed
TierIsPublished(j, h) ==
    h.kind = "header" /\ h.generation = j.header.generation
                      /\ h.committed = Len(activation.base)

Recover ==
    /\ pc = "recover"
    /\ LET g == activation.generation
           j == Journal(g)
           h == header[g].now
       IN \/ j = Absent /\ GoTo("decide")
          \/ j # Absent /\ ~HasTier(g) /\ Finish(TRUE)
          \/ j # Absent /\ HasTier(g) /\ RestoresBase(j) /\ GoTo("restore_page")
          \/ /\ j # Absent /\ HasTier(g) /\ ~RestoresBase(j)
             /\ IF TierIsPublished(j, h) THEN GoTo("discard") ELSE Finish(TRUE)
    /\ UNCHANGED disk

\* restore_transaction_fd: the tail page, then the old header, each synced.
RestorePage ==
    /\ pc = "restore_page"
    /\ LET g == activation.generation
           j == Journal(g)
       IN IF j.header.committed % PageTokens # 0
          THEN WritePage(g, PageOf(j.header.committed), j.tail) /\ GoTo("restore_page_sync")
          ELSE UNCHANGED disk /\ GoTo("restore_header")

RestorePageSync ==
    /\ pc = "restore_page_sync"
    /\ fdatasync(activation.generation)
    /\ GoTo("restore_header")

\* Mutant: only the tail page is restored.
RestoreHeader_PageOnly ==
    /\ pc = "restore_header"
    /\ UNCHANGED disk
    /\ GoTo("restore_header_sync")

RestoreHeader ==
    /\ pc = "restore_header"
    /\ WriteHeader(activation.generation, Journal(activation.generation).header)
    /\ GoTo("restore_header_sync")

RestoreHeaderSync ==
    /\ pc = "restore_header_sync"
    /\ fdatasync(activation.generation)
    /\ GoTo("discard")

\* discard_transaction_path, for the three callers that reach it.
Discard ==
    /\ pc = "discard"
    /\ ChangeNames([directory.now EXCEPT !.journal[activation.generation] = Absent])
    /\ GoTo("discard_sync")

DiscardSync ==
    /\ pc = "discard_sync"
    /\ parent_directory_sync
    /\ IF activation.caller = "activate" THEN GoTo("decide") ELSE Finish(TRUE)

\* The prompt extends the committed tokens and may reuse them, or it starts the
\* next generation of the session.
Decide ==
    /\ pc = "decide"
    /\ \E reuse \in BOOLEAN :
          /\ reuse => activation.base # <<>>
          /\ ~reuse => activation.generation < MaxGeneration
          /\ activation' =
                IF reuse
                THEN [activation EXCEPT !.reuse = TRUE, !.caller = "none"]
                ELSE [NoActivation EXCEPT !.generation = activation.generation + 1]
    /\ pc' = "create"
    /\ UNCHANGED <<disk, tier, history, unwritten, healthy, turn>>

\* axiom_qwen38_kv_tier_create: a new file gets its size and then its header; an
\* existing one must have a valid header.
Create ==
    /\ pc = "create"
    /\ LET g == activation.generation
           h == header[g].now
       IN CASE ~HasTier(g) \/ h = Empty ->
                 /\ directory' = Unsynced(directory, [directory.now EXCEPT !.tiers = @ \union {g}], {})
                 /\ header' = [header EXCEPT ![g] = Unsynced(@, Blank, {Empty})]
                 /\ page' = [gp \in Generations \X Pages |->
                       IF gp[1] = g THEN Unsynced(page[gp], EmptyPage, {}) ELSE page[gp]]
                 /\ GoTo("create_header")
            [] h = Blank -> Finish(TRUE) /\ UNCHANGED disk
            [] OTHER ->
                 /\ tier' = [generation |-> h.generation, committed |-> h.committed]
                 /\ pc' = "check"
                 /\ UNCHANGED <<disk, activation, history, unwritten, healthy, turn>>

CreateHeader ==
    /\ pc = "create_header"
    /\ WriteHeader(activation.generation, HeaderOf(1, 0))
    /\ GoTo("create_header_sync")

CreateHeaderSync ==
    /\ pc = "create_header_sync"
    /\ fdatasync(activation.generation)
    /\ tier' = [generation |-> 1, committed |-> 0]
    /\ pc' = "check"
    /\ UNCHANGED <<activation, history, unwritten, healthy, turn>>

\* The rest of activate_session: the watermarks must agree; a tier that is not
\* reused and has tokens is reset.
Check ==
    /\ pc = "check"
    /\ LET g == activation.generation
           next == HeaderOf(tier.generation + 1, 0)
       IN CASE activation.reuse /\ tier.committed # Len(activation.base) ->
                 Finish(TRUE) /\ UNCHANGED disk
            [] activation.reuse /\ tier.committed = Len(activation.base) ->
                 GoTo("begin") /\ UNCHANGED disk
            [] ~activation.reuse /\ tier.committed # 0 ->
                 WriteHeader(g, next) /\ GoTo("reset_sync")
            [] OTHER -> GoTo("start") /\ UNCHANGED disk

ResetSync ==
    /\ pc = "reset_sync"
    /\ fdatasync(activation.generation)
    /\ tier' = [generation |-> tier.generation + 1, committed |-> 0]
    /\ pc' = "start"
    /\ UNCHANGED <<activation, history, unwritten, healthy, turn>>

\* axiom_qwen38_kv_tier_transaction_begin: the journal is written and synced
\* under a temporary name and renamed.
JournalOf(g) ==
    [kind |-> "journal", header |-> header[g].now,
     tail |-> IF tier.committed % PageTokens # 0
              THEN page[g, PageOf(tier.committed)].now ELSE EmptyPage]

Begin ==
    /\ pc = "begin"
    /\ LET g == activation.generation IN
       IF Journal(g) = Absent /\ header[g].now = HeaderOf(tier.generation, tier.committed)
       THEN /\ ChangeNames([directory.now EXCEPT !.journal[g] = JournalOf(g)])
            /\ GoTo("begin_sync")
       ELSE UNCHANGED disk /\ Finish(TRUE)

\* Mutant: the renamed journal is not synced.
BeginSync_NoSync ==
    /\ pc = "begin_sync"
    /\ activation' = [activation EXCEPT !.transaction_active = TRUE]
    /\ pc' = "start"
    /\ UNCHANGED <<disk, tier, history, unwritten, healthy, turn>>

BeginSync ==
    /\ pc = "begin_sync"
    /\ parent_directory_sync
    /\ activation' = [activation EXCEPT !.transaction_active = TRUE]
    /\ pc' = "start"
    /\ UNCHANGED <<tier, history, unwritten, healthy, turn>>

--------------------------------------------------------------------------------
(* Generation and persistence *)

\* Mutant: the turn may run one token past the context.
Start_OneTooMany ==
    /\ pc = "start"
    /\ turn < MaxTurns
    /\ \E n \in 1..MaxContext + 1 :
          /\ n >= Len(activation.base)
          /\ history' = [i \in 1..n |->
                           IF i <= Len(activation.base) THEN activation.base[i] ELSE turn + 1]
    /\ turn' = turn + 1
    /\ pc' = "generate"
    /\ UNCHANGED <<disk, activation, tier, unwritten, healthy>>

\* The turn: the tokens of the prompt and of the answer that follow the base.
Start ==
    /\ pc = "start"
    /\ turn < MaxTurns
    /\ \E n \in (IF activation.base = <<>> THEN 1 ELSE Len(activation.base))..MaxContext :
          history' = [i \in 1..n |->
                        IF i <= Len(activation.base) THEN activation.base[i] ELSE turn + 1]
    /\ turn' = turn + 1
    /\ pc' = "generate"
    /\ UNCHANGED <<disk, activation, tier, unwritten, healthy>>

\* stream_flush_current_page: the paged path writes the page it is working on
\* long before anything is committed.
FlushCurrentPage ==
    /\ pc = "generate"
    /\ \E m \in Len(activation.base) + 1 .. Len(history) :
          WritePage(activation.generation, PageOf(m - 1),
                    PageContent(SubSeq(history, 1, m), PageOf(m - 1)))
    /\ GoTo("generate")

\* rollback_session_transaction, for a failed request or a failed job.
BeginRollback(well) ==
    IF activation.transaction_active
    THEN /\ pc' = "rollback"
         /\ activation' = [activation EXCEPT !.caller = "rollback"]
         /\ healthy' = (healthy /\ well)
         /\ UNCHANGED <<tier, history, unwritten, turn>>
    ELSE Finish(well)

\* The request fails after activation, before or after it has computed tokens.
GenerationFails ==
    /\ pc \in {"start", "generate"}
    /\ BeginRollback(TRUE)
    /\ UNCHANGED disk

Rollback ==
    /\ pc = "rollback"
    /\ LET j == Journal(activation.generation) IN
       IF j # Absent /\ j.header.generation = tier.generation
       THEN GoTo("restore_page") ELSE Finish(TRUE)
    /\ UNCHANGED disk

\* The deferred persistence job: persist_kv_pages writes every page from the one
\* that holds the base's end, in any order, and then the watermark.
Enqueue ==
    /\ pc = "generate"
    /\ pc' = "persist"
    /\ unwritten' = PageOf(Len(activation.base)) .. PageOf(Len(history) - 1)
    /\ UNCHANGED <<disk, activation, tier, history, healthy, turn>>

PersistPage ==
    /\ pc = "persist"
    /\ \E p \in unwritten :
          /\ WritePage(activation.generation, p, PageContent(history, p))
          /\ unwritten' = unwritten \ {p}
    /\ UNCHANGED <<pc, activation, tier, history, healthy, turn>>

Commit ==
    /\ pc = "persist"
    /\ unwritten = {}
    /\ Len(history) >= tier.committed
    /\ WriteHeader(activation.generation, HeaderOf(tier.generation, Len(history)))
    /\ GoTo("commit_sync")

CommitSync ==
    /\ pc = "commit_sync"
    /\ fdatasync(activation.generation)
    /\ tier' = [tier EXCEPT !.committed = Len(history)]
    /\ pc' = "publish"
    /\ UNCHANGED <<activation, history, unwritten, healthy, turn>>

\* qwen38_persistent_session_store::save: a synced temporary file, renamed.
Publish ==
    /\ pc = "publish"
    /\ ChangeNames([directory.now EXCEPT !.manifest =
                      [kind |-> "manifest", generation |-> activation.generation,
                       tokens |-> history, turn |-> turn]])
    /\ GoTo("publish_sync")

\* Mutant: the renamed manifest is not synced.
PublishSync_NoSync ==
    /\ pc = "publish_sync"
    /\ acknowledged' = turn
    /\ UNCHANGED disk
    /\ GoTo("collect")

PublishSync ==
    /\ pc = "publish_sync"
    /\ parent_directory_sync
    /\ acknowledged' = turn
    /\ GoTo("collect")

\* The directory without the files of the generations that are removed.
Without(d, removed) ==
    [d EXCEPT !.tiers = @ \ removed,
              !.journal = [g \in Generations |-> IF g \in removed THEN Absent ELSE @[g]]]

\* The journal of a turn that is published is discarded.
DiscardPublished ==
    IF activation.transaction_active
    THEN /\ pc' = "discard"
         /\ activation' = [activation EXCEPT !.caller = "publish"]
         /\ UNCHANGED <<tier, history, unwritten, healthy, turn>>
    ELSE Finish(TRUE)

\* Mutant: the generation just published counts as obsolete.
Collect_OwnGeneration ==
    /\ pc = "collect"
    /\ ChangeNames(Without(directory.now, 1..activation.generation))
    /\ DiscardPublished

\* prune_obsolete_generations removes the files of older generations and syncs the
\* directory; a failure stops it half-way and is only counted.
Collect ==
    /\ pc = "collect"
    /\ LET obsolete == 1..activation.generation - 1 IN
       \/ /\ directory' = Synced(Without(directory.now, obsolete))
          /\ UNCHANGED <<header, page>>
       \/ \E removed \in SUBSET obsolete : ChangeNames(Without(directory.now, removed))
    /\ DiscardPublished

--------------------------------------------------------------------------------
(* Failures *)

\* A disk operation returns an error.  The write before a failing sync has been
\* issued all the same.
IoError ==
    /\ UNCHANGED disk
    /\ \/ /\ pc \in {"recover", "restore_page", "restore_page_sync", "restore_header",
                     "restore_header_sync", "decide", "create", "create_header",
                     "create_header_sync", "check", "reset_sync", "begin", "begin_sync",
                     "rollback"}
          /\ Finish(TRUE)
       \/ pc \in {"discard", "discard_sync"} /\ Finish(activation.caller # "publish")
       \/ pc \in {"persist", "commit_sync"} /\ BeginRollback(FALSE)
       \/ pc \in {"publish", "publish_sync"} /\ Finish(FALSE)

\* run_deferred_persistence_job: an exception ends the job without a rollback.
JobException ==
    /\ pc \in {"persist", "publish"}
    /\ Finish(FALSE)
    /\ UNCHANGED disk

\* What a crash may leave of the objects f.
Survivors(f) ==
    LET open == {x \in DOMAIN f : f[x].crash # {f[x].now}}
        kept == {c \in [open -> UNION {f[x].crash : x \in open}] :
                    \A x \in open : c[x] \in f[x].crash}
    IN {[x \in DOMAIN f |-> IF x \in open THEN c[x] ELSE f[x].now] : c \in kept}

\* What a new process starts with.
Restart ==
    /\ pc' = "idle"
    /\ activation' = NoActivation
    /\ tier' = NoTier
    /\ history' = <<>>
    /\ unwritten' = {}
    /\ healthy' = TRUE
    /\ UNCHANGED turn

\* The process dies and the machine does not: what was written can be read, and
\* what was not synced still is not.
Kill ==
    /\ Restart
    /\ UNCHANGED disk

\* The machine stops.  A file whose name is lost is lost with its pages.
Crash ==
    /\ \E d \in directory.crash, hs \in Survivors(header), ps \in Survivors(page) :
          /\ directory' = Synced(d)
          /\ header' = [g \in Generations |-> Synced(IF g \in d.tiers THEN hs[g] ELSE Empty)]
          /\ page' = [gp \in Generations \X Pages |->
                        Synced(IF gp[1] \in d.tiers THEN ps[gp] ELSE EmptyPage)]
    /\ Restart

SessionNext ==
    \/ PublishSync
    \/ /\ (  \/ Load \/ Recover \/ RestorePage \/ RestorePageSync
              \/ RestoreHeader \/ RestoreHeaderSync \/ Discard \/ DiscardSync
              \/ Decide \/ Create \/ CreateHeader \/ CreateHeaderSync \/ Check
              \/ ResetSync \/ Begin \/ BeginSync \/ Start \/ FlushCurrentPage
              \/ GenerationFails \/ Rollback \/ Enqueue \/ PersistPage \/ Commit
              \/ CommitSync \/ Publish \/ Collect \/ IoError \/ JobException
              \/ Kill \/ Crash )
       /\ UNCHANGED acknowledged

SessionSpec == SessionInit /\ [][SessionNext]_durabilityVars

--------------------------------------------------------------------------------
(* Properties *)

Headers ==
    {Empty, Blank} \union
    [kind : {"header"}, generation : 1..MaxTurns + 1, committed : 0..MaxContext]
Tokens == UNION {[1..n -> 1..MaxTurns] : n \in 0..MaxContext}
PageContents == [1..PageTokens -> -1..MaxTurns]

\* Type invariant: every object of the disk holds, now and after a crash, a value of
\* its kind.
SessionTypeOK ==
    /\ directory.now \in directory.crash
    /\ \A d \in directory.crash :
          /\ d.manifest \in {Absent} \union [kind : {"manifest"}, generation : Generations,
                                            tokens : Tokens, turn : 1..MaxTurns]
          /\ d.tiers \subseteq Generations
          /\ \A g \in Generations :
                d.journal[g] = Absent \/ (d.journal[g].header \in Headers /\ d.journal[g].tail \in PageContents)
    /\ \A g \in Generations : header[g].now \in header[g].crash /\ header[g].crash \subseteq Headers
    /\ \A gp \in Generations \X Pages :
          page[gp].now \in page[gp].crash /\ page[gp].crash \subseteq PageContents
    /\ turn \in 0..MaxTurns
    /\ healthy \in BOOLEAN
    /\ unwritten \subseteq Pages

\* What the tier file holds for a token.
Stored(g, i) == page[g, PageOf(i - 1)].now[((i - 1) % PageTokens) + 1]

\* A session that activate_session reuses reads back, for every committed token, the
\* data that was computed for the manifest's tokens, whatever crashes and I/O errors
\* came between the request that published the manifest and this one.
RestoredPrefix ==
    pc = "begin" =>
        \A i \in 1..Len(activation.base) : Stored(activation.generation, i) = activation.base[i]

\* Recovery always finds the manifest on one of the two sides of the transaction, and
\* the watermark check of activate_session that follows never fails: the branches that
\* fail closed are for foreign files, not for crashes.
RecoveryDecides ==
    /\ pc = "recover" =>
          LET g == activation.generation
          IN Journal(g) # Absent =>
                HasTier(g) /\ (RestoresBase(Journal(g)) \/ TierIsPublished(Journal(g), header[g].now))
    /\ pc = "check" /\ activation.reuse => tier.committed = Len(activation.base)
    /\ pc = "create" /\ activation.reuse =>
          HasTier(activation.generation) /\ header[activation.generation].now.kind = "header"

\* What a crash can leave of the directory never has a manifest without the tier file
\* it names: prune_obsolete_generations runs only once the newer manifest is durable.
ManifestHasTier ==
    \A d \in directory.crash : d.manifest # Absent => d.manifest.generation \in d.tiers

\* Whatever manifest a crash may leave, the tokens before its last partial page are
\* durable in the tier, and those of the partial page are durable there or in the
\* journal that the crash leaves with it and recovery replays.
UndoIsDurable ==
    \A d \in directory.crash : d.manifest # Absent =>
        LET m == d.manifest
            n == Len(m.tokens)
            holds(c, p) == \A i \in p * PageTokens + 1 .. n :
                              i <= (p + 1) * PageTokens => c[i - p * PageTokens] = m.tokens[i]
            j == d.journal[m.generation]
        IN \A p \in Pages : p * PageTokens < n =>
              \/ \A c \in page[m.generation, p].crash : holds(c, p)
              \/ p = PageOf(n) /\ j # Absent /\ j.header.committed = n /\ holds(j.tail, p)

\* The two together: what a manifest promises can be read back by the next process,
\* and stays so across any further crash.
CommittedTokensSurvive == UndoIsDurable /\ RestoredPrefix

\* Once save has returned without error the turn stays published: no crash, at any
\* later time, takes the session back to an earlier manifest.
PublishedStays ==
    \A d \in directory.crash :
        acknowledged > 0 => d.manifest # Absent /\ d.manifest.turn >= acknowledged
================================================================================
