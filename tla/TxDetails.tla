----------------------------- MODULE TxDetails -----------------------------
(***************************************************************************)
(* retrieve_tx_info (transaction.rs): the step of a batch between its two  *)
(* database transactions that fetches the memo, the address and the        *)
(* contacts of our transactions.  All requests run concurrently in ONE     *)
(* task, which hands the answers to a writer, a task of its own, through a *)
(* bounded channel of the standard library.  Both ends of that channel     *)
(* BLOCK the worker thread they run on: send when it is full, recv when it *)
(* is empty.                                                               *)
(*                                                                         *)
(* The tokio runtime is external: a task needs a worker thread to run, and *)
(* a task that another one spawns waits for that one to yield.             *)
(***************************************************************************)
EXTENDS Integers, Sequences, SequencesExt, FiniteSets

CONSTANTS
  N,           \* the transactions 1..N, sorted by height and index
  ContactsOf,  \* ContactsOf[i]: the contacts in the memos of transaction i
  Contact,     \* the rows of contacts
  Capacity,    \* of the channel (4)
  Workers      \* the worker threads of the runtime

TxIndex == 1..N

ASSUME TxDetailsConstants ==
  /\ N \in Nat
  /\ ContactsOf \in [TxIndex -> SUBSET Contact]
  /\ Capacity \in Nat \ {0}
  /\ Workers \in Nat \ {0}

VARIABLES
  req,       \* transaction -> where its request is
  caller,    \* the task of the requests
  held,      \* the answer it is blocked on, if any
  yielded,   \* it has given up its worker at least once
  chan,      \* sync_channel
  writer,    \* the task of the writer
  received,  \* the transactions it has received, in order
  toStore,   \* those whose contacts are still to be stored, in chain order
  meta,      \* the transactions whose address and memo are stored
  contacts   \* contact -> the transaction its row comes from, 0 for none

vars == <<req, caller, held, yielded, chan, writer, received, toStore, meta, contacts>>
dbVars == <<meta, contacts>>

Init ==
  /\ req = [i \in TxIndex |-> "asked"]
  /\ caller = "run" /\ held = {} /\ yielded = FALSE
  /\ chan = << >>
  /\ writer = "spawned" /\ received = << >> /\ toStore = << >>
  /\ meta = {} /\ contacts = [c \in Contact |-> 0]

OnWorker ==
  {t \in {"caller"} : caller \in {"run", "blocked"}} \cup {t \in {"writer"} : writer \in {"run", "store"}}
FreeWorker == Cardinality(OnWorker) < Workers

-----------------------------------------------------------------------------
(* The server answers, in any order, or a request fails; the tasks of the  *)
(* connection need a worker, too.                                          *)
Answer(i) ==
  /\ req[i] = "asked" /\ FreeWorker
  /\ \E r \in {"ready", "failed"} : req' = [req EXCEPT ![i] = r]
  /\ UNCHANGED <<caller, held, yielded, chan, writer, received, toStore, dbVars>>

(* The requests: for_each_concurrent.  Those that are ready are resumed    *)
(* one after the other, then the task yields until another one is.         *)
ReceiverDropped == writer \in {"ended", "failed"}

Send(i) ==
  /\ caller = "run" /\ req[i] = "ready" /\ ~ReceiverDropped
  /\ IF Len(chan) < Capacity
       THEN chan' = Append(chan, i) /\ req' = [req EXCEPT ![i] = "sent"] /\ UNCHANGED <<caller, held>>
       ELSE caller' = "blocked" /\ held' = {i} /\ UNCHANGED <<chan, req>>
  /\ UNCHANGED <<yielded, writer, received, toStore, dbVars>>

SendResumes(i) ==
  /\ caller = "blocked" /\ i \in held /\ ~ReceiverDropped
  /\ Len(chan) < Capacity
  /\ chan' = Append(chan, i) /\ req' = [req EXCEPT ![i] = "sent"]
  /\ caller' = "run" /\ held' = {}
  /\ UNCHANGED <<yielded, writer, received, toStore, dbVars>>

(* send(..).unwrap() *)
SendPanic ==
  /\ ReceiverDropped
  /\ \/ caller = "run" /\ \E i \in TxIndex : req[i] = "ready"
     \/ caller = "blocked"
  /\ caller' = "panic" /\ held' = {}
  /\ UNCHANGED <<req, yielded, chan, writer, received, toStore, dbVars>>

(* The error of a request is dropped, and its transaction skipped. *)
SkipFailed(i) ==
  /\ caller = "run" /\ req[i] = "failed"
  /\ req' = [req EXCEPT ![i] = "skipped"]
  /\ UNCHANGED <<caller, held, yielded, chan, writer, received, toStore, dbVars>>

Woken == \E i \in TxIndex : req[i] \in {"ready", "failed"}
AllOver == \A i \in TxIndex : req[i] \in {"sent", "skipped"}

Yield ==
  /\ caller = "run" /\ ~Woken
  /\ caller' = IF AllOver THEN "join" ELSE "wait"
  /\ yielded' = TRUE
  /\ UNCHANGED <<req, held, chan, writer, received, toStore, dbVars>>

Resume ==
  /\ caller = "wait" /\ Woken /\ FreeWorker
  /\ caller' = "run"
  /\ UNCHANGED <<req, held, yielded, chan, writer, received, toStore, dbVars>>

-----------------------------------------------------------------------------
(* The writer *)

StartWriter ==
  /\ writer = "spawned" /\ yielded /\ FreeWorker
  /\ writer' = "run"
  /\ UNCHANGED <<req, caller, held, yielded, chan, received, toStore, dbVars>>

(* store_tx_metadata and store_message *)
Receive ==
  /\ writer = "run" /\ chan # << >>
  /\ chan' = Tail(chan)
  /\ received' = Append(received, Head(chan))
  /\ meta' = meta \cup {Head(chan)}
  /\ UNCHANGED <<req, caller, held, yielded, writer, toStore, contacts>>

(* One of them fails, and the writer returns, the receiver with it. *)
ReceiveFail ==
  /\ writer = "run" /\ chan # << >>
  /\ writer' = "failed" /\ chan' = << >>
  /\ \E m \in {meta, meta \cup {Head(chan)}} : meta' = m
  /\ UNCHANGED <<req, caller, held, yielded, received, toStore, contacts>>

(* recv() fails when the channel is empty and every sender is dropped: the *)
(* clone of each request, and the original after all requests are over.    *)
OriginalKept == FALSE
OriginalDropped == caller = "join"
SendersDropped == AllOver /\ OriginalDropped
DisconnectedNow == SendersDropped
Disconnected == SendersDropped /\ chan = << >>

(* The contacts in the order of their transactions, each of which has been *)
(* received once.                                                          *)
AsReceived == {received}
Sorted ==
  {s \in [DOMAIN received -> ToSet(received)] :
     /\ ToSet(s) = ToSet(received)
     /\ \A j, k \in DOMAIN s : j < k => s[j] < s[k]}

SortContacts ==
  /\ writer = "run" /\ Disconnected
  /\ writer' = "store" /\ toStore' \in Sorted
  /\ UNCHANGED <<req, caller, held, yielded, chan, received, dbVars>>

(* store_contact: a row is replaced by the one that is stored later.       *)
Replace(rows, i) == contacts' = [c \in Contact |-> IF c \in rows THEN i ELSE contacts[c]]

StoreContacts ==
  /\ writer = "store" /\ toStore # << >>
  /\ Replace(ContactsOf[Head(toStore)], Head(toStore))
  /\ toStore' = Tail(toStore)
  /\ UNCHANGED <<req, caller, held, yielded, chan, writer, received, meta>>

(* The rows are stored one by one: those before the one that fails stay.   *)
StoreContactsFail ==
  /\ writer = "store" /\ toStore # << >>
  /\ LET all == ContactsOf[Head(toStore)]
     IN  \E rows \in SUBSET all \ {all} : Replace(rows, Head(toStore))
  /\ writer' = "failed" /\ toStore' = << >>
  /\ UNCHANGED <<req, caller, held, yielded, chan, received, meta>>

EndWriter ==
  /\ writer = "store" /\ toStore = << >>
  /\ writer' = "ended"
  /\ UNCHANGED <<req, caller, held, yielded, chan, received, toStore, dbVars>>

(* f.await?? *)
Join ==
  /\ caller = "join" /\ writer \in {"ended", "failed"}
  /\ caller' = IF writer = "ended" THEN "ok" ELSE "err"
  /\ UNCHANGED <<req, held, yielded, chan, writer, received, toStore, dbVars>>

-----------------------------------------------------------------------------
Caller ==
  \/ \E i \in TxIndex : Send(i) \/ SendResumes(i) \/ SkipFailed(i)
  \/ SendPanic \/ Yield \/ Resume \/ Join
Writer ==
  \/ StartWriter \/ Receive \/ ReceiveFail
  \/ SortContacts \/ StoreContacts \/ StoreContactsFail \/ EndWriter

Next == Caller \/ Writer \/ \E i \in TxIndex : Answer(i)

(* A task that can run gets a worker, and every request is answered or     *)
(* fails in the end.                                                       *)
Fairness ==
  /\ WF_vars(Caller) /\ WF_vars(Writer)
  /\ \A i \in TxIndex : WF_vars(Answer(i))

Spec == Init /\ [][Next]_vars /\ Fairness

-----------------------------------------------------------------------------
(* When the call returns Ok, the details of every transaction whose        *)
(* request was answered are stored: none is left behind in the channel.    *)
Answered == {i \in TxIndex : req[i] = "sent"}
DetailsStored == caller = "ok" => meta = Answered

(* When the call returns Ok, each contact is the one of the latest         *)
(* transaction, in chain order, that carries it among those answered, in   *)
(* whatever order the answers have come.                                   *)
ContactsLatest ==
  caller = "ok" =>
    \A c \in Contact :
      /\ \A i \in Answered : c \in ContactsOf[i] => i <= contacts[c]
      /\ contacts[c] # 0 => contacts[c] \in Answered /\ c \in ContactsOf[contacts[c]]

(* With two workers or more the call returns, unless more answers than the *)
(* channel holds come before its task yields for the first time: the       *)
(* writer, which that task has spawned, is then never started.             *)
Returned == caller \in {"ok", "err", "panic"}
BlockedBeforeWriter == caller = "blocked" /\ writer = "spawned"
DetailsReturn == <>(Returned \/ BlockedBeforeWriter)
=============================================================================
