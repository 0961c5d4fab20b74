-------------------------------- MODULE Vault --------------------------------
(***************************************************************************)
(* The vault of a project: a directory of documents, the index of them in  *)
(* vault_docs, and the watchers that keep it (internal/vault/watcher.go,   *)
(* internal/db/vault.go, register_vault and the dashboard's editor).       *)
(*                                                                         *)
(* Documents never meet, so one is enough.  register_vault cancels the     *)
(* project's watcher, reads every file and only then starts the next one;  *)
(* a watcher reads a file and writes its row in two steps.                 *)
(***************************************************************************)
EXTENDS Naturals, Sequences

CONSTANTS
    Dir,        \* directories that hold a vault
    Keeper,     \* bound: calls of AddVault and watchers at once
    Editor,     \* bound: requests of the dashboard's editor at once
    MaxText,    \* bound: the texts a document may have
    MaxEvents   \* the events that wait for a watcher, at most

ASSUME VaultAssumption == {MaxText, MaxEvents} \subseteq Nat /\ 0 < MaxText

VARIABLES
    file,       \* file[p]: the text of the document in p, 0 if there is none
    config,     \* the path in the project's row of vaults
    doc,        \* the text in its row of vault_docs, 0 if there is none
    keeper,     \* keeper[k]: AddVault, and the goroutine it starts
    watched,    \* the keeper that can be cancelled
    edit,       \* edit[e]: a request of the editor
    unseen,     \* history only: the document changed, or the index did, and no
                \* watcher heard of it that would live to write it down, or a write
                \* of the index failed; until one that is alone has written the file
    overlapped  \* history only: two AddVault ran at once

vaultVars == <<file, config, doc, keeper, watched, edit, unseen, overlapped>>

NoDir == "none"

Text == 0 .. MaxText

Off == [pc |-> "off"]

\* hand is what a keeper has read and not written; deaf, that the directory could not
\* be added to its watch.
Keeping == [pc : {"cancel", "index", "enter", "start", "watch"}, path : Dir,
            hand : Text, queue : Seq({"write", "remove"}), pending : BOOLEAN,
            cancelled : BOOLEAN, deaf : BOOLEAN]

NoHand == 0

NoEdit == [pc |-> "idle"]

Editing == [pc : {"write", "get", "put"}, path : Dir, text : 1 .. MaxText]

VaultInit ==
    /\ file \in [Dir -> {0, 1}]
    /\ config = NoDir
    /\ doc = 0
    /\ keeper = [k \in Keeper |-> Off]
    /\ watched = {}
    /\ edit = [e \in Editor |-> NoEdit]
    /\ unseen = FALSE
    /\ overlapped = FALSE

Keep(k, r) == keeper' = [keeper EXCEPT ![k] = r]

Alive == {k \in Keeper : keeper[k] # Off}

Watching == {k \in Alive : keeper[k].pc = "watch"}

\* AddVault runs.
Adding == {k \in Alive : keeper[k].pc \in {"cancel", "index", "enter"}}

Entered == Alive \ Adding

Unfinished(k) == keeper[k].hand # NoHand \/ keeper[k].pending \/ keeper[k].queue # <<>>

\* Nobody else will write or delete the row, and k has heard of nothing more.
Alone(k) ==
    /\ Alive = {k}
    /\ ~keeper[k].cancelled
    /\ keeper[k].queue = <<>>
    /\ \A e \in Editor : edit[e] = NoEdit

Hears(p) == {k \in Watching : keeper[k].path = p /\ ~keeper[k].deaf}

Full(k) == Len(keeper[k].queue) >= MaxEvents

\* Whoever hears of a change in p lives to write it down, and if p is the vault
\* everybody hears of it.
Seen(p) ==
    IF p = config
    THEN /\ Hears(p) = Alive /\ Alive # {}
         /\ \A k \in Alive : ~keeper[k].cancelled /\ ~Full(k)
         /\ \A e \in Editor : edit[e] = NoEdit
    ELSE Hears(p) = {}

\* --- the files ---

\* Events go to whoever watches the directory, cancelled or not; where too many wait,
\* the watcher is told of an overflow instead, which it logs.
Tell(p, event) ==
    keeper' = [k \in Keeper |->
        IF k \in Hears(p) /\ ~Full(k) THEN [keeper[k] EXCEPT !.queue = Append(@, event)]
        ELSE keeper[k]]

ChangeFile(p, t) ==
    /\ file[p] # t
    /\ file' = [file EXCEPT ![p] = t]
    /\ Tell(p, IF t = 0 THEN "remove" ELSE "write")
    /\ unseen' = (unseen \/ ~Seen(p))
    /\ UNCHANGED <<config, doc, watched, edit, overlapped>>

\* --- AddVault ---

Adds(k, p) ==
    /\ keeper[k] = Off
    /\ Keep(k, [pc |-> "cancel", path |-> p, hand |-> NoHand, queue |-> <<>>,
                pending |-> FALSE, cancelled |-> FALSE, deaf |-> FALSE])
    /\ overlapped' = (overlapped \/ Adding # {})

\* The path is another: rows of the old one stay.
HandleRegisterVault(k, p) ==
    /\ Adds(k, p)
    /\ config' = p
    /\ unseen' = (unseen \/ config # p)
    /\ UNCHANGED <<file, doc, watched, edit>>

\* Start, when the relay does.
StartVault(k) ==
    /\ config # NoDir
    /\ Alive = {}
    /\ Adds(k, config)
    /\ UNCHANGED <<file, config, doc, watched, edit, unseen>>

\* A bug that forgets to cancel the old watcher.
MutCancelOld(k) ==
    /\ keeper[k].pc = "cancel"
    /\ Keep(k, [keeper[k] EXCEPT !.pc = "index"])
    /\ UNCHANGED <<file, config, doc, watched, edit, unseen, overlapped>>

\* Whatever a cancelled watcher has heard or read may be lost or come late.
CancelOld(k) ==
    LET old == watched \cap Entered IN
    /\ keeper[k].pc = "cancel"
    /\ keeper' = [i \in Keeper |->
         IF i = k THEN [keeper[k] EXCEPT !.pc = "index"]
         ELSE IF i \in old THEN [keeper[i] EXCEPT !.cancelled = TRUE]
         ELSE keeper[i]]
    /\ unseen' = (unseen \/ \E i \in old : Unfinished(i))
    /\ UNCHANGED <<file, config, doc, watched, edit, overlapped>>

\* indexAll finds the file, or does not; what has no file keeps its row.
IndexAll(k) ==
    LET p == keeper[k].path IN
    /\ keeper[k].pc = "index"
    /\ Keep(k, [keeper[k] EXCEPT !.pc = "enter", !.hand = file[p]])
    /\ unseen' = (unseen \/ (file[p] = 0 /\ doc # 0))
    /\ UNCHANGED <<file, config, doc, watched, edit, overlapped>>

\* UpsertVaultDoc
WriteDoc(k) ==
    LET t == keeper[k].hand IN
    /\ keeper[k] # Off
    /\ keeper[k].hand # NoHand
    /\ doc' = t
    /\ Keep(k, [keeper[k] EXCEPT !.hand = NoHand])
    /\ unseen' = IF /\ Alone(k)
                  /\ keeper[k].path = config
                  /\ t = file[config]
               THEN FALSE ELSE unseen
    /\ UNCHANGED <<file, config, watched, edit, overlapped>>

\* The file cannot be read or the row not written: that is logged, if at all, and not
\* tried again.
WriteDocFails(k) ==
    /\ keeper[k] # Off
    /\ keeper[k].hand # NoHand
    /\ Keep(k, [keeper[k] EXCEPT !.hand = NoHand])
    /\ unseen' = TRUE
    /\ UNCHANGED <<file, config, doc, watched, edit, overlapped>>

\* The map's entry is overwritten: a keeper that was in it is cancelled by nobody.
EnterWatched(k) ==
    /\ keeper[k].pc = "enter"
    /\ keeper[k].hand = NoHand
    /\ watched' = {k}
    /\ Keep(k, [keeper[k] EXCEPT !.pc = "start"])
    /\ UNCHANGED <<file, config, doc, edit, unseen, overlapped>>

\* The goroutine adds the directory, from now on there are events; or it cannot, and
\* goes on without.
StartWatch(k) ==
    /\ keeper[k].pc = "start"
    /\ \E deaf \in BOOLEAN : Keep(k, [keeper[k] EXCEPT !.pc = "watch", !.deaf = deaf])
    /\ UNCHANGED <<file, config, doc, watched, edit, unseen, overlapped>>

\* No watcher to be had: the goroutine ends, the entry of the map stays.
StartWatchFails(k) ==
    /\ keeper[k].pc = "start"
    /\ Keep(k, Off)
    /\ UNCHANGED <<file, config, doc, watched, edit, unseen, overlapped>>

\* --- the watcher's loop ---

Free(k) == k \in Watching /\ keeper[k].hand = NoHand

\* A write is put off, a remove is done at once.
TakeEvent(k) ==
    LET q == keeper[k].queue IN
    /\ Free(k)
    /\ q # <<>>
    /\ Keep(k, [keeper[k] EXCEPT !.queue = Tail(q), !.pending = @ \/ Head(q) = "write"])
    /\ doc' = IF Head(q) = "remove" THEN 0 ELSE doc
    /\ UNCHANGED <<file, config, watched, edit, unseen, overlapped>>

\* The error of that DELETE is dropped.
RemoveFails(k) ==
    LET q == keeper[k].queue IN
    /\ Free(k)
    /\ q # <<>>
    /\ Head(q) = "remove"
    /\ Keep(k, [keeper[k] EXCEPT !.queue = Tail(q)])
    /\ unseen' = TRUE
    /\ UNCHANGED <<file, config, doc, watched, edit, overlapped>>

\* The ticker: indexFile of a file that is still there.
Reindex(k) ==
    /\ Free(k)
    /\ keeper[k].pending
    /\ Keep(k, [keeper[k] EXCEPT !.pending = FALSE, !.hand = file[keeper[k].path]])
    /\ UNCHANGED <<file, config, doc, watched, edit, unseen, overlapped>>

\* When it is cancelled and has events, select takes either.
WatchEnds(k) ==
    /\ Free(k)
    /\ keeper[k].cancelled
    /\ Keep(k, Off)
    /\ UNCHANGED <<file, config, doc, watched, edit, unseen, overlapped>>

\* --- the dashboard's editor ---

ApiUpdateVaultDoc(e, t) ==
    /\ edit[e] = NoEdit
    /\ config # NoDir
    /\ edit' = [edit EXCEPT ![e] = [pc |-> "write", path |-> config, text |-> t]]
    /\ UNCHANGED <<file, config, doc, keeper, watched, unseen, overlapped>>

WriteFile(e) ==
    LET p == edit[e].path IN
    /\ edit[e].pc = "write"
    /\ file' = [file EXCEPT ![p] = edit[e].text]
    /\ Tell(p, "write")
    /\ edit' = [edit EXCEPT ![e].pc = "get"]
    /\ unseen' = TRUE
    /\ UNCHANGED <<config, doc, watched, overlapped>>

\* The row is written at once if there is one that can be read, else left to the watcher.
GetDoc(e) ==
    /\ edit[e].pc = "get"
    /\ edit' = [edit EXCEPT ![e] = IF doc = 0 THEN NoEdit ELSE [edit[e] EXCEPT !.pc = "put"]]
    /\ UNCHANGED <<file, config, doc, keeper, watched, unseen, overlapped>>

PutDoc(e) ==
    /\ edit[e].pc = "put"
    /\ doc' = edit[e].text
    /\ edit' = [edit EXCEPT ![e] = NoEdit]
    /\ UNCHANGED <<file, config, keeper, watched, unseen, overlapped>>

\* The file cannot be written, which is answered, or the row not read or written, which
\* is not.
EditFails(e) ==
    /\ edit[e] # NoEdit
    /\ edit' = [edit EXCEPT ![e] = NoEdit]
    /\ UNCHANGED <<file, config, doc, keeper, watched, unseen, overlapped>>

\* --- failures ---

\* DeleteProject, which tells no watcher.
DeleteProject ==
    /\ config # NoDir
    /\ config' = NoDir
    /\ doc' = 0
    /\ unseen' = TRUE
    /\ UNCHANGED <<file, keeper, watched, edit, overlapped>>

VaultStops ==
    /\ Alive # {}
    /\ keeper' = [k \in Keeper |-> Off]
    /\ watched' = {}
    /\ edit' = [e \in Editor |-> NoEdit]
    /\ unseen' = \/ unseen
                 \/ Adding # {}
                 \/ \E e \in Editor : edit[e] # NoEdit
                 \/ \E k \in Alive : Unfinished(k)
    /\ overlapped' = FALSE
    /\ UNCHANGED <<file, config, doc>>

KeeperStep(k) ==
    \/ CancelOld(k) \/ IndexAll(k) \/ WriteDoc(k) \/ WriteDocFails(k) \/ EnterWatched(k)
    \/ StartWatch(k) \/ StartWatchFails(k) \/ TakeEvent(k) \/ RemoveFails(k) \/ Reindex(k)
    \/ WatchEnds(k)

VaultNext ==
    \/ \E p \in Dir, t \in Text : ChangeFile(p, t)
    \/ \E k \in Keeper : \/ \E p \in Dir : HandleRegisterVault(k, p)
                         \/ StartVault(k)
                         \/ KeeperStep(k)
    \/ \E e \in Editor : \/ \E t \in 1 .. MaxText : ApiUpdateVaultDoc(e, t)
                         \/ WriteFile(e) \/ GetDoc(e) \/ PutDoc(e) \/ EditFails(e)
    \/ DeleteProject
    \/ VaultStops

\* --- properties ---

VaultTypeOK ==
    /\ file \in [Dir -> Text]
    /\ config \in Dir \cup {NoDir}
    /\ doc \in Text
    /\ keeper \in [Keeper -> {Off} \cup Keeping]
    /\ watched \subseteq Keeper
    /\ edit \in [Editor -> {NoEdit} \cup Editing]
    /\ {unseen, overlapped} \subseteq BOOLEAN

\* Nothing is under way.
Settled ==
    /\ config # NoDir
    /\ Alive # {}
    /\ \A k \in Alive : keeper[k].pc = "watch" /\ keeper[k].path = config /\ ~Unfinished(k)
    /\ \A e \in Editor : edit[e] = NoEdit

\* Once nothing is under way the index says what the file does, unless something
\* changed that no watcher heard of and lived to write down (there was none, its watch
\* had failed, too many events waited for it, it was cancelled or the dashboard wrote
\* too), or a file could not be read or a row not written or deleted; a watcher that is
\* alone and writes what the file says ends that.  And unless two AddVault overlapped,
\* one watcher at most is not cancelled.
VaultIndexed ==
    /\ Settled /\ ~unseen => doc = file[config]
    /\ ~overlapped => \A j, k \in Watching : ~keeper[j].cancelled /\ ~keeper[k].cancelled => j = k

VaultSpec == VaultInit /\ [][VaultNext]_vaultVars
==============================================================================
