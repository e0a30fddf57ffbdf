--------------------------- MODULE PaymentProofs ---------------------------
(***************************************************************************)
(* A note that a payment has spent is never offered to another one, and    *)
(* payments leave the checkpoints and the witnesses of the sync alone, for *)
(* every ledger, every number of payments and every fault.                 *)
(*                                                                         *)
(* The danger for a mark is the transaction of the scan, which works on a  *)
(* copy of the notes and replaces the table when it commits (ScanKeeps).   *)
(***************************************************************************)
EXTENDS Payment, WarpSyncNotes

Stages == {"idle", "built", "failed", "sent", "lost", "paid"}
PayTypes == pay \in [Payments -> [at : Stages, notes : SUBSET NoteId, root : Seq(Out)]]

(* No note of table f is missing in table g, none has lost its mark.       *)
Keeps(f, g) ==
  \A n \in DOMAIN f : n \in DOMAIN g /\ (f[n].spent # Null => g[n].spent # Null)

ScanKeeps == ppc = "scan" => Keeps(notes, scan.notes)

(* The notes of a payment are there from its first step on, and marked     *)
(* after its last.                                                         *)
NotesHeld ==
  \A p \in Payments : \A n \in pay[p].notes :
    n \in DOMAIN notes /\ (pay[p].at = "paid" => notes[n].spent # Null)

PayInv == IInv /\ PayTypes /\ ScanKeeps /\ NotesHeld

-----------------------------------------------------------------------------
(* The steps of the sync *)

(* A step of the scan adds notes and marks, and takes none away. *)
LEMMA ScanStepKeeps ==
  ASSUME TInv, ScanSpend \/ ScanNote \/ SkipOutput \/ ScanDebit \/ SkipSpend \/ EndBlock
  PROVE  Keeps(scan.notes, scan'.notes) /\ UNCHANGED <<ppc, notes>>
<1>1. IsTable(scan.notes, NoteId, NoteRow)
  BY DEF TInv, TypeOK, ScanTypes
<1>2. scan = [blk |-> scan.blk, cur |-> scan.cur, pos |-> scan.pos, mine |-> scan.mine,
              found |-> scan.found, new |-> scan.new, notes |-> scan.notes, txs |-> scan.txs]
  BY DEF TInv, TypeOK, ScanTypes
<1>3. UNCHANGED <<ppc, notes>>
  BY DEF ScanSpend, ScanNote, SkipOutput, ScanDebit, SkipSpend, EndBlock, dbVars
<1>4. CASE ScanSpend
  <2>1. PICK b \in Block :
          LET nf == Spends[b][scan.cur].nf IN
          IF nf \in DOMAIN nfs
            THEN /\ scan' = [scan EXCEPT !.cur = @ + 1, !.mine = @ \cup {nf},
                       !.notes = [n \in DOMAIN @ |->
                          IF n = nfs[nf] THEN [@[n] EXCEPT !.spent = Height[b]] ELSE @[n]]]
                 /\ nfs' = Restrict(nfs, DOMAIN nfs \ {nf})
            ELSE scan' = [scan EXCEPT !.cur = @ + 1] /\ UNCHANGED nfs
    BY <1>4 DEF ScanSpend
  <2> DEFINE nf == Spends[b][scan.cur].nf
             marked == [n \in DOMAIN scan.notes |->
                          IF n = nfs[nf] THEN [scan.notes[n] EXCEPT !.spent = Height[b]]
                                         ELSE scan.notes[n]]
  <2>2. Height[b] # Null
    BY LedgerTypes, WarpSyncConstants
  <2>3. Keeps(scan.notes, marked)
    <3>1. \A n \in DOMAIN scan.notes : scan.notes[n] \in NoteRow
      BY <1>1 DEF IsTable
    <3> QED BY <2>2, <3>1 DEF Keeps, NoteRow
  <2>4. scan'.notes = marked \/ scan'.notes = scan.notes
    BY <1>2, <2>1
  <2> QED BY <1>3, <2>3, <2>4 DEF Keeps
<1>5. CASE ScanNote
  <2>1. PICK b \in Block :
          \E row \in TxRows(StoreTransaction(b, TxOf[NewNf(b)[1]], Owner[NewNf(b)[1]]),
                            TxOf[NewNf(b)[1]], Owner[NewNf(b)[1]]) :
            LET nf == NewNf(b)
                o == nf[1]
                table == StoreTransaction(b, TxOf[o], Owner[o])
                id == <<row, o>> IN
            scan' = [scan EXCEPT !.cur = @ + 1, !.found = TRUE,
                  !.notes = Insert(@, id, [nf |-> nf, height |-> Height[b], spent |-> Null]),
                  !.txs = [table EXCEPT ![row].value = @ + Value[o]],
                  !.new = Put(@, id, nf[2])]
    BY <1>5 DEF ScanNote
  <2>2. PICK id, r : scan'.notes = Insert(scan.notes, id, r)
    BY <1>2, <2>1
  <2>3. Keeps(scan.notes, Insert(scan.notes, id, r))
    BY DEF Keeps, Insert, InsertAll
  <2> QED BY <1>3, <2>2, <2>3
<1>6. CASE SkipOutput \/ ScanDebit \/ SkipSpend \/ EndBlock
  <2>1. scan'.notes = scan.notes
    BY <1>2, <1>6 DEF SkipOutput, ScanDebit, SkipSpend, EndBlock
  <2> QED BY <1>3, <2>1 DEF Keeps
<1> QED BY <1>4, <1>5, <1>6

(* The steps that touch neither the notes nor a scan. *)
LEMMA OthersLeaveNotes ==
  ASSUME Next, ~Commit, ~LoadTree,
         ~(ScanSpend \/ ScanNote \/ SkipOutput \/ ScanDebit \/ SkipSpend \/ EndBlock)
  PROVE  notes' = notes /\ (ppc' = "scan" => ppc = "scan" /\ scan' = scan)
<1>1. ASSUME Server PROVE UNCHANGED <<notes, ppc, scan>>
  BY <1>1 DEF Server, MineBlock, Reorg, dbVars, prVars
<1>2. ASSUME Call PROVE notes' = notes /\ (ppc' = "scan" => ppc = "scan" /\ scan' = scan)
  BY <1>2 DEF Call, WarpStart, BeginPass, ConnectFail, Join, JoinPanic, Crash, Die, CancelWarp,
     ResetTasks, dbVars, prVars
<1>3. ASSUME Downloader PROVE UNCHANGED <<notes, ppc, scan>>
  BY <1>3 DEF Downloader, TakeBlock, DetectReorg, StreamEnd, StreamShort, StreamError,
     Send, SendPanic, SendLast, dbVars, prVars
<1>4. ASSUME Processor PROVE notes' = notes /\ (ppc' = "scan" => ppc = "scan" /\ scan' = scan)
  BY <1>4 DEF Processor, OpenDb, Recv, RecvClosed, ScanFail, DetailsOk, DetailsFail, Store, Finish,
     ProcessorEnds, dbVars
<1> QED BY <1>1, <1>2, <1>3, <1>4 DEF Next

LEMMA KeepsTransitive ==
  ASSUME NEW f, NEW g, NEW h, Keeps(f, g), Keeps(g, h)
  PROVE  Keeps(f, h)
  BY DEF Keeps

(* Whatever sync does, it keeps the notes and their marks. *)
LEMMA SyncKeepsNotes ==
  ASSUME TInv, ScanKeeps, Next
  PROVE  Keeps(notes, notes') /\ ScanKeeps'
<1>1. Keeps(notes, notes)
  BY DEF Keeps
<1>2. CASE Commit
  BY <1>2 DEF Commit, ScanKeeps
<1>3. CASE LoadTree
  <2>1. notes' = notes /\ scan'.notes = notes
    BY <1>3 DEF LoadTree, EmptyScan, dbVars
  <2> QED BY <1>1, <2>1 DEF ScanKeeps
<1>4. CASE ScanSpend \/ ScanNote \/ SkipOutput \/ ScanDebit \/ SkipSpend \/ EndBlock
  <2>1. Keeps(scan.notes, scan'.notes) /\ UNCHANGED <<ppc, notes>>
    BY <1>4, ScanStepKeeps
  <2> QED BY <1>1, <2>1, KeepsTransitive DEF ScanKeeps
<1>5. CASE /\ ~Commit /\ ~LoadTree
           /\ ~(ScanSpend \/ ScanNote \/ SkipOutput \/ ScanDebit \/ SkipSpend \/ EndBlock)
  <2>1. notes' = notes /\ (ppc' = "scan" => ppc = "scan" /\ scan' = scan)
    BY <1>5, OthersLeaveNotes
  <2> QED BY <1>1, <2>1 DEF ScanKeeps
<1> QED BY <1>2, <1>3, <1>4, <1>5

(* A step that keeps the notes and the payments keeps what payments hold. *)
LEMMA KeepsHeld ==
  ASSUME NotesHeld, Keeps(notes, notes'), UNCHANGED pay
  PROVE  NotesHeld'
  BY DEF NotesHeld, Keeps

-----------------------------------------------------------------------------
(* The steps of the payments *)

(* What sync relies on survives a change of marks. *)
LEMMA MarksKeepInv ==
  ASSUME IInv, IsTable(notes', NoteId, NoteRow),
         UNCHANGED <<tip, blocks, txs, wits, callVars, dlVars, chan, prVars>>
  PROVE  IInv'
<1> USE DEF IInv
<1>1. TypeOK'
  <2>1. DbTypes'
    BY DEF TInv, TypeOK, DbTypes
  <2>2. UNCHANGED callVars /\ UNCHANGED dlVars /\ UNCHANGED prVars
    OBVIOUS
  <2> QED BY <2>1, <2>2, Kept DEF TInv, TypeOK
<1>2. WitHeights' = WitHeights
  BY DEF WitHeights
<1>3. TInv'
  BY <1>1, <1>2 DEF TInv, Bounded, HasLast, BatchShape, InBatch, prVars, dlVars
<1>4. UNCHANGED <<blocks, wits, batch, chan, outbox, cbs, dpc, dnext, dprev, dres, ppc, tree,
                  bwits>>
  BY DEF prVars, dlVars
<1>5. CheckpointsExact' /\ AnchorsAgree' /\ Flight' /\ LoadedTogether'
  BY <1>4 DEF CheckpointsExact, AnchorsAgree, Flight, LoadedTogether
<1>6. PipelineLinked'
  BY <1>4, ChunksKept DEF PipelineLinked, Linkage
<1> QED BY <1>3, <1>5, <1>6

LEMMA UnchangedKeepInv ==
  ASSUME IInv, UNCHANGED vars
  PROVE  IInv'
  BY StepInv

(* tx_mark_spend marks what is there. *)
LEMMA MarkSpentKeeps ==
  ASSUME PayInv, NEW p \in Payments, MarkSpent(p)
  PROVE  PayInv'
<1> DEFINE marked == [n \in DOMAIN notes |->
             IF n \in pay[p].notes THEN [notes[n] EXCEPT !.spent = 0] ELSE notes[n]]
<1>1. notes' = marked
      /\ pay' = [pay EXCEPT ![p].at = "paid"]
      /\ UNCHANGED <<tip, blocks, txs, wits, callVars, dlVars, chan, prVars>>
      /\ ppc # "scan" /\ ppc' = ppc
  BY DEF MarkSpent, prVars
<1>2. IsTable(notes, NoteId, NoteRow)
  BY DEF PayInv, IInv, TInv, TypeOK, DbTypes
<1>3. \A n \in DOMAIN notes : n \in NoteId /\ notes[n] \in NoteRow
  BY <1>2 DEF IsTable
<1>4. IsTable(marked, NoteId, NoteRow)
  <2>1. \A n \in DOMAIN notes : marked[n] \in NoteRow
    BY <1>3 DEF NoteRow
  <2> QED BY <1>3, <2>1 DEF IsTable
<1>5. IInv'
  BY <1>1, <1>4, MarksKeepInv DEF PayInv
<1>6. PayTypes'
  BY <1>1 DEF PayInv, PayTypes, Stages
<1>7. /\ DOMAIN marked = DOMAIN notes
      /\ \A n \in DOMAIN notes : marked[n].spent = IF n \in pay[p].notes THEN 0 ELSE notes[n].spent
  BY <1>3 DEF NoteRow
<1>8. NotesHeld'
  <2>1. \A q \in Payments : /\ pay'[q].notes = pay[q].notes
                            /\ q # p => pay'[q].at = pay[q].at
    BY <1>1 DEF PayInv, PayTypes
  <2>2. 0 # Null
    BY WarpSyncConstants
  <2> HIDE DEF marked
  <2> QED BY <1>1, <1>7, <2>1, <2>2 DEF PayInv, NotesHeld
<1> QED BY <1>1, <1>5, <1>6, <1>8 DEF PayInv, ScanKeeps

(* What is spendable is in the table, not marked, and has a witness. *)
LEMMA SpendableNotes ==
  ASSUME NEW a, NEW anchor, NEW s \in Spendable(a, anchor)
  PROVE  /\ s.note \in DOMAIN notes /\ notes[s.note].spent = Null
         /\ \E k \in DOMAIN wits : s.leaves = wits[k].leaves
<1> DEFINE h == Max(WitnessHeights(anchor))
<1>1. PICK n \in NeverSpent :
        /\ <<n, h>> \in DOMAIN wits
        /\ s = [note |-> n, pos |-> wits[<<n, h>>].pos, leaves |-> wits[<<n, h>>].leaves]
  BY DEF Spendable
<1>2. s.note = n /\ s.leaves = wits[<<n, h>>].leaves
  BY <1>1
<1> QED BY <1>1, <1>2 DEF NeverSpent

(* The other steps of a payment leave the database alone. *)
LEMMA StagesKeep ==
  ASSUME PayInv, NEW p \in Payments,
         Prepare(p) \/ Broadcast(p) \/ BroadcastFail(p) \/ LoseReply(p)
  PROVE  PayInv'
<1>1. UNCHANGED vars /\ UNCHANGED <<notes, ppc, scan>>
  BY DEF Prepare, Broadcast, BroadcastFail, LoseReply, vars
<1>2. IInv' /\ ScanKeeps'
  BY <1>1, UnchangedKeepInv DEF PayInv, ScanKeeps
<1>3. PayTypes' /\ NotesHeld'
  <2>1. CASE Prepare(p)
    <3>1. PICK a \in Account, need \in Needs, last \in 0..Height[tip] :
            \E S \in Selections(Spendable(a, Max({0, last - Confirmations})), need) :
              pay' = [pay EXCEPT ![p] =
                [at |-> "built", notes |-> {s.note : s \in S},
                 root |-> (CHOOSE s \in S : TRUE).leaves]]
      BY <2>1 DEF Prepare
    <3> DEFINE anchor == Max({0, last - Confirmations})
    <3>2. PICK S \in Selections(Spendable(a, anchor), need) :
            pay' = [pay EXCEPT ![p] =
              [at |-> "built", notes |-> {s.note : s \in S},
               root |-> (CHOOSE s \in S : TRUE).leaves]]
      BY <3>1
    <3> HIDE DEF anchor
    <3>3. S \subseteq Spendable(a, anchor) /\ (CHOOSE s \in S : TRUE) \in S
      BY <3>2 DEF Selections
    <3>4. IsTable(notes, NoteId, NoteRow) /\ IsTable(wits, NoteId \X Nat, Witness)
      BY DEF PayInv, IInv, TInv, TypeOK, DbTypes
    <3>5. \A s \in S : s.note \in DOMAIN notes
      BY <3>3, SpendableNotes
    <3>6. \A s \in Spendable(a, anchor) : s.leaves \in Seq(Out)
      <4>1. \A k \in DOMAIN wits : wits[k].leaves \in Seq(Out)
        BY <3>4 DEF IsTable, Witness
      <4> QED BY <4>1, SpendableNotes
    <3>7. {s.note : s \in S} \subseteq NoteId
      BY <3>4, <3>5 DEF IsTable
    <3>8. (CHOOSE s \in S : TRUE).leaves \in Seq(Out)
      BY <3>3, <3>6
    <3>9. PayTypes'
      BY <3>2, <3>7, <3>8 DEF PayInv, PayTypes, Stages
    <3>10. NotesHeld'
      BY <1>1, <3>2, <3>5 DEF PayInv, PayTypes, NotesHeld
    <3> QED BY <3>9, <3>10
  <2>2. CASE Broadcast(p) \/ BroadcastFail(p) \/ LoseReply(p)
    <3>1. PICK at \in {"sent", "failed", "lost"} : pay' = [pay EXCEPT ![p].at = at]
      BY <2>2 DEF Broadcast, BroadcastFail, LoseReply
    <3> QED BY <1>1, <3>1 DEF PayInv, PayTypes, Stages, NotesHeld
  <2> QED BY <2>1, <2>2
<1> QED BY <1>2, <1>3 DEF PayInv

-----------------------------------------------------------------------------
LEMMA PayInit == PInit => PayInv
<1> SUFFICES ASSUME PInit PROVE PayInv
  OBVIOUS
<1>1. IInv /\ ppc = "none"
  BY InitInv DEF PInit, Init, Idle
<1>2. PayTypes /\ NotesHeld
  BY DEF PInit, PayTypes, NotesHeld, NotStarted, Stages
<1> QED BY <1>1, <1>2 DEF PayInv, ScanKeeps

LEMMA PayStep == PayInv /\ [PNext]_<<vars, pay, raced>> => PayInv'
<1> SUFFICES ASSUME PayInv, [PNext]_<<vars, pay, raced>> PROVE PayInv'
  OBVIOUS
<1>1. CASE PaymentNext
  BY <1>1, MarkSpentKeeps, StagesKeep DEF PaymentNext
<1>2. CASE Next /\ UNCHANGED <<pay, raced>>
  <2>1. IInv'
    BY <1>2, StepInv DEF PayInv
  <2>2. Keeps(notes, notes') /\ ScanKeeps'
    BY <1>2, SyncKeepsNotes DEF PayInv, IInv
  <2>3. NotesHeld'
    BY <1>2, <2>2, KeepsHeld DEF PayInv
  <2> QED BY <1>2, <2>1, <2>2, <2>3 DEF PayInv, PayTypes
<1>3. CASE UNCHANGED <<vars, pay, raced>>
  <2>1. IInv'
    BY <1>3, UnchangedKeepInv DEF PayInv
  <2> QED BY <1>3, <2>1 DEF PayInv, PayTypes, ScanKeeps, NotesHeld, vars
<1> QED BY <1>1, <1>2, <1>3 DEF PNext

(* The inductive invariant holds beside any number of payments. *)
THEOREM PaymentInvariance == PSpec => []PayInv
  BY PayInit, PayStep, PTL DEF PSpec

(* A note of a payment that has returned Ok is offered to no other one,    *)
(* whatever sync, panics and crashes write over the mark of tx_mark_spend  *)
(* (db.rs:518-525; scan.rs:120-225).                                       *)
THEOREM PaidNotesAreNotOffered == PSpec => []PaidNotOffered
<1>1. PayInv => PaidNotOffered
  <2> SUFFICES ASSUME PayInv, NEW p \in Payments, pay[p].at = "paid",
                      NEW a \in Account, NEW anchor, NEW s \in Spendable(a, anchor)
               PROVE  s.note \notin pay[p].notes
    BY DEF PaidNotOffered
  <2> QED BY SpendableNotes DEF PayInv, NotesHeld
<1> QED BY <1>1, PaymentInvariance, PTL

(* Payments beside a sync change neither the checkpoints it resumes from   *)
(* nor the agreement of the witnesses, from which the next payment takes   *)
(* its anchor (api/payment.rs:99-115).                                     *)
THEOREM PaymentsKeepCheckpoints == PSpec => [](CheckpointsExact /\ AnchorsAgree)
<1>1. PayInv => CheckpointsExact /\ AnchorsAgree
  BY DEF PayInv, IInv
<1> QED BY <1>1, PaymentInvariance, PTL

-----------------------------------------------------------------------------
(* What payments are offered.  The marks of payments leave what sync knows *)
(* of the notes, but for the notes whose height they overwrite.            *)

RacedMarked == \A n \in raced : n \in DOMAIN notes /\ notes[n].spent # Null
OfferInv == PayInv /\ NInv(raced) /\ Inside /\ RacedMarked

LEMMA OfferInit ==
  ASSUME PInit, Mendable
  PROVE  OfferInv
<1>1. Init /\ raced = {}
  BY DEF PInit
<1> QED BY <1>1, PayInit, NInvInit, InsideInit DEF OfferInv, RacedMarked

(* tx_mark_spend changes nothing but spent, and to 0. *)
MarksOnly(f, g) ==
  /\ DOMAIN g = DOMAIN f
  /\ \A n \in DOMAIN f :
       /\ g[n].nf = f[n].nf /\ g[n].height = f[n].height
       /\ g[n].spent = f[n].spent \/ g[n].spent = 0

LEMMA GenuineMarked ==
  ASSUME NEW f, NEW g, MarksOnly(f, g), NEW n \in DOMAIN f, NEW b, Genuine(n, f[n], b)
  PROVE  Genuine(n, g[n], b)
  BY DEF MarksOnly, Genuine, Unspoken

LEMMA SoundMarked ==
  ASSUME NEW f, NEW g, MarksOnly(f, g), NEW x, NEW b, Sound(f, x, b)
  PROVE  Sound(g, x, b)
<1>1. \A n \in DOMAIN g : Genuine(n, g[n], b)
  BY GenuineMarked DEF Sound, MarksOnly
<1>2. OnePerNf(g) /\ HasTxs(g, x)
  BY DEF MarksOnly, Sound, OnePerNf, HasTxs
<1> QED BY <1>1, <1>2 DEF Sound

(* What is not spent in g, for a reader who leaves out S, was not in f.    *)
NoNews(f, g, R, S) ==
  \A n \in DOMAIN g \ S : g[n].spent \in Unspoken => n \notin R /\ f[n].spent \in Unspoken

LEMMA CompleteMarked ==
  ASSUME NEW f, NEW g, MarksOnly(f, g), NEW R, NEW S, NoNews(f, g, R, S),
         NEW b, CompleteTo(f, b, R)
  PROVE  CompleteTo(g, b, S)
<1>1. \A p \in 0..(Len(Leaves[b]) - 1) :
        Owner[Leaves[b][p + 1]] \in Account =>
          \E n \in DOMAIN g : g[n].nf = <<Leaves[b][p + 1], p>>
  BY DEF CompleteTo, Complete, MarksOnly
<1>2. \A n \in DOMAIN g \ S : g[n].spent \in Unspoken => g[n].nf \notin Revealed(b)
  BY DEF CompleteTo, Complete, MarksOnly, NoNews
<1> QED BY <1>1, <1>2 DEF CompleteTo, Complete

LEMMA CarriesMarked ==
  ASSUME NEW f, NEW g, MarksOnly(f, g), NEW R, NEW S, NoNews(f, g, R, S),
         NEW c, NEW p, Carries(c, f, p, R)
  PROVE  Carries(c, g, p, S)
  BY DEF Carries, MarksOnly, NoNews

LEMMA WatchesMarked ==
  ASSUME NEW f, NEW g, MarksOnly(f, g), NEW R, NEW S, NoNews(f, g, R, S),
         NEW known, Watches(known, f, R)
  PROVE  Watches(known, g, S) /\ (Live(known, f) => Live(known, g))
<1>1. Watches(known, g, S)
  BY DEF Watches, MarksOnly, NoNews
<1>2. ASSUME Live(known, f) PROVE Live(known, g)
  BY <1>2 DEF Watches, Live, MarksOnly, Unspoken
<1> QED BY <1>1, <1>2

LEMMA OfferMarkSpent ==
  ASSUME OfferInv, NEW p \in Payments, MarkSpent(p),
         NEW R, R = raced, NEW S, S = raced'
  PROVE  NInv(S)' /\ RacedMarked' /\ Inside'
<1>1. /\ notes' = [n \in DOMAIN notes |->
           IF n \in pay[p].notes THEN [notes[n] EXCEPT !.spent = 0] ELSE notes[n]]
      /\ raced' = raced \cup {n \in pay[p].notes : n \notin Unspent(notes)}
      /\ ppc # "scan"
      /\ UNCHANGED <<tip, blocks, txs, wits, callVars, dlVars, chan, prVars>>
  BY DEF MarkSpent
<1>2. /\ UNCHANGED <<tip, blocks, txs, wits, dpc, cbs, outbox, dres, chan>>
      /\ UNCHANGED <<ppc, nfs, batch, bwits, scan>>
  BY <1>1 DEF dlVars, prVars
<1>3. IInv /\ Mendable /\ OnTip /\ Panicked /\ DbNotes(R) /\ Watching(R) /\ DbWitnesses(R)
      /\ PayInv /\ Inside /\ RacedMarked
  BY DEF OfferInv, NInv
<1>4. IInv'
  BY MarkSpentKeeps, <1>3 DEF PayInv
<1>5. \A n \in DOMAIN notes : notes[n] \in NoteRow
  BY <1>3, DbContext DEF IsTable
<1>6. /\ DOMAIN notes' = DOMAIN notes
      /\ \A n \in DOMAIN notes :
           /\ notes'[n].nf = notes[n].nf /\ notes'[n].height = notes[n].height
           /\ notes'[n].spent = IF n \in pay[p].notes THEN 0 ELSE notes[n].spent
  BY <1>1, <1>5 DEF NoteRow
<1>7. MarksOnly(notes, notes')
  BY <1>6 DEF MarksOnly
<1>8. NoNews(notes, notes', R, S)
  <2>1. ASSUME NEW n \in DOMAIN notes' \ S, notes'[n].spent \in Unspoken
        PROVE n \notin R /\ notes[n].spent \in Unspoken
    <3>1. n \notin raced /\ (n \in pay[p].notes => n \in Unspent(notes))
      BY <1>1, <2>1
    <3>2. CASE n \in pay[p].notes
      BY <3>1, <3>2 DEF Unspent, Unspoken
    <3>3. CASE n \notin pay[p].notes
      BY <1>6, <2>1, <3>1, <3>3
    <3> QED BY <3>2, <3>3
  <2> QED BY <2>1 DEF NoNews
<1>9. Synced' = Synced /\ BatchEnd' = BatchEnd /\ Queued' = Queued
  BY <1>2, ChunksKept
<1>10. OnTip' /\ Panicked' /\ Mendable'
  BY <1>2, <1>3, <1>9 DEF OnTip, Panicked, Mendable, Untorn
<1>11. DbNotes(S)'
  <2>1. DbTop' = DbTop /\ Written' = Written
    BY <1>2, <1>9 DEF DbTop, Written
  <2>2. Sound(notes', txs, DbTop) /\ CompleteTo(notes', Synced, S)
    BY <1>3, <1>7, <1>8, SoundMarked, CompleteMarked DEF DbNotes
  <2>3. Written => CompleteTo(notes', BatchEnd, S)
    BY <1>3, <1>7, <1>8, CompleteMarked DEF DbNotes
  <2> QED BY <1>2, <1>9, <2>1, <2>2, <2>3 DEF DbNotes
<1>12. Watching(S)'
  BY <1>2, <1>3, <1>7, <1>8, WatchesMarked DEF Watching
<1>13. Scan(S)'
  BY <1>1, <1>2 DEF Scan
<1>14. DbWitnesses(S)'
  <2>1. \A k \in DOMAIN wits : k[1] \in DOMAIN notes' /\ wits[k].pos = notes'[k[1]].nf[2]
    BY <1>3, <1>6 DEF DbWitnesses
  <2>2. \A h \in DOMAIN blocks :
          Carries({k[1] : k \in {w \in DOMAIN wits : w[2] = h}}, notes', Len(blocks[h].tree), S)
    <3> TAKE h \in DOMAIN blocks
    <3> DEFINE carried == {k[1] : k \in {w \in DOMAIN wits : w[2] = h}}
    <3>1. Carries(carried, notes, Len(blocks[h].tree), R)
      BY <1>3 DEF DbWitnesses
    <3> HIDE DEF carried
    <3>2. Carries(carried, notes', Len(blocks[h].tree), S)
      BY <1>7, <1>8, <3>1, CarriesMarked
    <3> QED BY <3>2 DEF carried
  <2>3. Written => /\ Placed(bwits, scan.new, notes')
                   /\ Carries(DOMAIN bwits \cup DOMAIN scan.new, notes', Len(Leaves[BatchEnd]), S)
    <3>1. ASSUME Written PROVE Placed(bwits, scan.new, notes')
      BY <1>3, <1>6, <3>1 DEF DbWitnesses, Placed
    <3>2. ASSUME Written
          PROVE Carries(DOMAIN bwits \cup DOMAIN scan.new, notes', Len(Leaves[BatchEnd]), S)
      BY <1>3, <1>7, <1>8, <3>2, CarriesMarked DEF DbWitnesses
    <3> QED BY <3>1, <3>2
  <2> QED BY <1>2, <1>9, <2>1, <2>2, <2>3 DEF DbWitnesses, Written
<1>15. RacedMarked'
  <2>1. \A n \in pay[p].notes : n \in DOMAIN notes
    BY <1>3 DEF PayInv, NotesHeld
  <2>2. 0 # Null
    BY WarpSyncConstants
  <2> QED BY <1>1, <1>3, <1>6, <2>1, <2>2 DEF RacedMarked
<1>16. Inside'
  BY <1>2, <1>3, InsideKept DEF Written
<1> QED BY <1>4, <1>10, <1>11, <1>12, <1>13, <1>14, <1>15, <1>16 DEF NInv

LEMMA OfferStep ==
  ASSUME OfferInv, [PNext]_<<vars, pay, raced>>
  PROVE  OfferInv'
<1>1. PayInv'
  BY PayStep DEF OfferInv
<1>2. NInv(raced)' /\ RacedMarked' /\ Inside'
  <2>1. CASE \E p \in Payments : MarkSpent(p)
    <3>1. PICK S : S = raced'
      OBVIOUS
    <3>2. PICK R : R = raced
      OBVIOUS
    <3>3. NInv(S)' /\ RacedMarked' /\ Inside'
      BY <2>1, <3>1, <3>2, OfferMarkSpent
    <3> QED BY <3>1, <3>3
  <2>2. CASE [Next]_vars /\ raced' = raced
    <3>1. PICK R : R = raced
      OBVIOUS
    <3>2. NInv(R)
      BY <3>1 DEF OfferInv
    <3>3. NInv(R)' /\ Inside'
      BY <2>2, <3>2, NInvStep, InsideStep DEF OfferInv, Placing, NInv, Scan
    <3>4. Keeps(notes, notes')
      <4>1. CASE Next
        BY <4>1, SyncKeepsNotes DEF OfferInv, PayInv, IInv
      <4>2. CASE UNCHANGED vars
        BY <4>2 DEF vars, Keeps
      <4> QED BY <2>2, <4>1, <4>2
    <3>5. RacedMarked'
      BY <2>2, <3>4 DEF OfferInv, RacedMarked, Keeps
    <3> QED BY <2>2, <3>1, <3>3, <3>5
  <2> QED BY <2>1, <2>2 DEF PNext, PaymentNext, Prepare, Broadcast, BroadcastFail, LoseReply
<1> QED BY <1>1, <1>2 DEF OfferInv

(* On the synced chain, the rows up to the height of a block are those of  *)
(* the leaves of its tree.                                                 *)
LEMMA RowInTree ==
  ASSUME NEW R, NInv(R), NEW n \in DOMAIN notes, NEW b \in Anc[Synced]
  PROVE  /\ notes[n].height <= Height[b] <=> notes[n].nf[2] < Len(Leaves[b])
         /\ notes[n].height <= Height[b] => Position(OutOf(n), b) = notes[n].nf[2]
<1> DEFINE p == notes[n].nf[2]
<1>1. /\ DbTop \in Block /\ Synced \in Block /\ Synced \in Anc[DbTop]
  BY SyncedBelowTop
<1>2. b \in Block /\ b \in Anc[DbTop] /\ Height[b] \in Nat
  BY <1>1, Ancestor
<1>3. p \in Nat /\ AccountOf(n) \in Account
  <2>1. n \in NoteId /\ notes[n] \in NoteRow
    BY DbContext DEF NInv, IsTable
  <2> QED BY <2>1 DEF NoteId, TxId, AccountOf, NoteRow, Nf
<1>4. Genuine(n, notes[n], DbTop)
  BY DEF NInv, DbNotes, Sound
<1>5. PICK a \in Anc[DbTop] \ {Genesis} :
        /\ notes[n].height = Height[a]
        /\ Len(Leaves[Parent[a]]) <= p /\ p < Len(Leaves[a])
  BY <1>4 DEF Genuine
<1>6. a \in Block /\ Height[a] \in Nat
  BY <1>1, <1>5, Ancestor
<1>7. ASSUME Height[a] <= Height[b]
      PROVE p < Len(Leaves[b]) /\ Position(OutOf(n), b) = p
  <2>1. a \in Anc[b]
    BY <1>1, <1>2, <1>5, <1>7, BelowIsAncestor
  <2>2. p < Len(Leaves[b]) /\ Leaves[b][p + 1] = Leaves[a][p + 1]
        /\ Leaves[DbTop][p + 1] = Leaves[a][p + 1]
    BY <1>1, <1>2, <1>3, <1>5, <2>1, LeafKept
  <2>3. Leaves[b][p + 1] = OutOf(n)
    BY <1>4, <2>2 DEF Genuine
  <2> QED BY <1>2, <1>3, <2>2, <2>3, PositionIs
<1>8. ASSUME p < Len(Leaves[b]), ~(Height[a] <= Height[b])
      PROVE FALSE
  <2>1. Parent[a] \in Block /\ Parent[a] \in Anc[DbTop] /\ Height[a] = Height[Parent[a]] + 1
    BY <1>1, <1>5, <1>6, ParentIsAncestor, Ancestor, Child
  <2>2. Height[b] <= Height[Parent[a]]
    <3>1. Height[Parent[a]] \in Nat
      BY <2>1, LedgerTypes
    <3> QED BY <1>2, <1>6, <1>8, <2>1, <3>1
  <2>3. b \in Anc[Parent[a]]
    BY <1>1, <1>2, <2>1, <2>2, BelowIsAncestor
  <2>4. p < Len(Leaves[Parent[a]])
    BY <1>3, <1>8, <2>1, <2>3, LeafKept
  <2>5. Len(Leaves[Parent[a]]) \in Nat
    BY <2>1, CountsTyped
  <2> QED BY <1>3, <1>5, <2>4, <2>5
<1> QED BY <1>5, <1>7, <1>8

(* A witness is at a checkpoint of the synced chain, and is the path of    *)
(* its note in the tree of that checkpoint.                                *)
LEMMA WitnessAt ==
  ASSUME NEW R, NInv(R), Inside, NEW n, NEW h, <<n, h>> \in DOMAIN wits
  PROVE  /\ h \in DOMAIN blocks /\ n \in DOMAIN notes
         /\ blocks[h].hash \in Anc[Synced] /\ Height[blocks[h].hash] = h
         /\ notes[n].height <= h
         /\ wits[<<n, h>>].pos = Position(OutOf(n), blocks[h].hash)
         /\ wits[<<n, h>>].leaves = Leaves[blocks[h].hash]
<1> DEFINE k == <<n, h>>
           b == blocks[h].hash
<1>1. IInv /\ DbWitnesses(R)
  BY DEF NInv
<1>2. k[1] = n /\ k[2] = h
  OBVIOUS
<1>3. h \in DOMAIN blocks /\ wits[k].leaves = blocks[h].tree
  BY <1>1, <1>2 DEF IInv, AnchorsAgree
<1>4. n \in DOMAIN notes /\ wits[k].pos = notes[n].nf[2]
  BY <1>1, <1>2 DEF DbWitnesses
<1>5. b \in Block /\ b \in Anc[Synced] /\ blocks[h].tree = Leaves[b]
  BY <1>1, <1>3, DbContext
<1>6. Height[b] = h
  BY <1>1, <1>3 DEF IInv, CheckpointsExact
<1>7. notes[n].nf[2] < Len(Leaves[b])
  BY <1>3, <1>4, <1>5 DEF Inside, LeafAt
<1>8. notes[n].height <= h /\ Position(OutOf(n), b) = notes[n].nf[2]
  BY <1>4, <1>5, <1>6, <1>7, RowInTree
<1> QED BY <1>3, <1>4, <1>5, <1>6, <1>8

(* What a payment can choose from is all there is to spend against the     *)
(* newest checkpoint that has witnesses.                                   *)
LEMMA OfferedAt ==
  ASSUME OfferInv, NEW a \in Account, NEW anchor \in Nat, WitnessHeights(anchor) # {}
  PROVE  LET h == Max(WitnessHeights(anchor)) IN
         /\ h \in WitnessHeights(anchor) /\ h \in DOMAIN blocks
         /\ \A g \in WitnessHeights(anchor) : g <= h
         /\ blocks[h].hash \in Anc[Synced] /\ Height[blocks[h].hash] = h
         /\ h <= anchor
         /\ Spendable(a, anchor) = Offer(a, blocks[h].hash)
<1> DEFINE hs == WitnessHeights(anchor)
           h == Max(hs)
           b == blocks[h].hash
<1>1. PICK R : R = raced
  OBVIOUS
<1>2. NInv(R) /\ Inside /\ RacedMarked /\ IInv
  BY <1>1 DEF OfferInv, NInv
<1>3. hs = UpTo(WitHeights, anchor) /\ WitHeights \subseteq Int
  <2>1. \A k \in DOMAIN wits : k[2] \in Nat
    BY <1>2 DEF IInv, TInv, TypeOK, DbTypes, IsTable
  <2> QED BY <2>1 DEF WitnessHeights, UpTo, WitHeights
<1>4. HasMax(hs) /\ hs \subseteq Int
  <2>1. Bounded(WitHeights)
    BY <1>2 DEF IInv, TInv
  <2>2. UpTo(WitHeights, anchor) # {} => HasMax(UpTo(WitHeights, anchor))
    BY <2>1 DEF Bounded
  <2>3. UpTo(WitHeights, anchor) \subseteq Int
    BY <1>3 DEF UpTo
  <2> QED BY <1>3, <2>2, <2>3
<1>5. h \in hs /\ \A g \in hs : g <= h
  BY <1>4, MaxProperties
<1> HIDE DEF h
<1>6. h <= anchor /\ \E k \in DOMAIN wits : k[2] = h
  BY <1>5 DEF WitnessHeights
<1>7. \A k \in DOMAIN wits : k = <<k[1], k[2]>>
  BY <1>2 DEF IInv, TInv, TypeOK, DbTypes, IsTable
<1>8. h \in DOMAIN blocks /\ b \in Anc[Synced] /\ Height[b] = h
  <2>1. PICK k \in DOMAIN wits : k[2] = h
    BY <1>6
  <2>2. <<k[1], h>> \in DOMAIN wits
    BY <1>7, <2>1
  <2> QED BY <1>2, <2>2, WitnessAt
<1>9. ASSUME NEW m \in NeverSpent, AccountOf(m) = a, <<m, h>> \in DOMAIN wits
      PROVE [note |-> m, pos |-> wits[<<m, h>>].pos, leaves |-> wits[<<m, h>>].leaves]
              \in Offer(a, b)
  <2>1. /\ m \in DOMAIN notes /\ notes[m].spent = Null /\ notes[m].height <= Height[b]
        /\ wits[<<m, h>>].pos = Position(OutOf(m), b) /\ wits[<<m, h>>].leaves = Leaves[b]
    BY <1>2, <1>8, <1>9, WitnessAt DEF NeverSpent
  <2> QED BY <1>9, <2>1 DEF Offer
<1>10. ASSUME NEW m \in DOMAIN notes, AccountOf(m) = a, notes[m].spent = Null,
              notes[m].height <= Height[b]
       PROVE [note |-> m, pos |-> Position(OutOf(m), b), leaves |-> Leaves[b]]
               \in Spendable(a, anchor)
  <2>1. m \notin R /\ notes[m].spent \in Unspoken
    BY <1>1, <1>2, <1>10 DEF RacedMarked, Unspoken
  <2>2. notes[m].nf[2] < Len(Leaves[b])
    BY <1>2, <1>8, <1>10, RowInTree
  <2>3. Carries({k[1] : k \in {w \in DOMAIN wits : w[2] = h}}, notes, Len(Leaves[b]), R)
    <3>1. blocks[h].tree = Leaves[b]
      BY <1>2, <1>8 DEF IInv, CheckpointsExact
    <3> QED BY <1>2, <1>8, <3>1 DEF NInv, DbWitnesses
  <2>4. m \in {k[1] : k \in {w \in DOMAIN wits : w[2] = h}}
    BY <2>1, <2>2, <2>3 DEF Carries
  <2>5. <<m, h>> \in DOMAIN wits
    BY <1>7, <2>4
  <2>6. wits[<<m, h>>].pos = Position(OutOf(m), b) /\ wits[<<m, h>>].leaves = Leaves[b]
    BY <1>2, <2>5, WitnessAt
  <2>7. m \in NeverSpent
    BY <1>10 DEF NeverSpent
  <2> HIDE DEF b
  <2> QED BY <1>10, <2>5, <2>6, <2>7 DEF Spendable, h
<1>11. ASSUME NEW s \in Spendable(a, anchor) PROVE s \in Offer(a, b)
  <2>1. PICK m \in NeverSpent :
          /\ AccountOf(m) = a /\ <<m, h>> \in DOMAIN wits
          /\ s = [note |-> m, pos |-> wits[<<m, h>>].pos, leaves |-> wits[<<m, h>>].leaves]
    BY DEF Spendable, h
  <2> QED BY <1>9, <2>1
<1>12. ASSUME NEW s \in Offer(a, b) PROVE s \in Spendable(a, anchor)
  <2>1. PICK m \in DOMAIN notes :
          /\ AccountOf(m) = a /\ notes[m].spent = Null /\ notes[m].height <= Height[b]
          /\ s = [note |-> m, pos |-> Position(OutOf(m), b), leaves |-> Leaves[b]]
    BY DEF Offer
  <2> QED BY <1>10, <2>1
<1>13. Spendable(a, anchor) = Offer(a, b)
  BY <1>11, <1>12
<1> QED BY <1>5, <1>6, <1>8, <1>13 DEF h

(* What can be spent against the synced block is spent by no block of its  *)
(* chain, and has a witness there.                                         *)
LEMMA OfferAtSynced ==
  ASSUME OfferInv, NEW n \in DOMAIN notes, notes[n].spent = Null, notes[n].height <= SyncedHeight
  PROVE  /\ SpentAt(notes[n].nf, Synced) = {}
         /\ <<n, SyncedHeight>> \in DOMAIN wits
<1>1. PICK R : R = raced
  OBVIOUS
<1>2. NInv(R) /\ n \in SyncedNotes /\ n \notin R /\ ~SpentBySync(n) /\ n \in Unspent(notes)
  BY <1>1 DEF OfferInv, RacedMarked, SyncedNotes, SpentBySync, Unspent
<1>3. <<n, SyncedHeight>> \in DOMAIN wits
  BY <1>2, WitnessesExactFromInv
<1> QED BY <1>2, <1>3, SpendsOfRow

LEMMA SpendableExactFromInv ==
  ASSUME OfferInv
  PROVE  SpendableExact
<1>1. PICK R : R = raced
  OBVIOUS
<1>2. NInv(R) /\ Inside /\ IInv
  BY <1>1 DEF OfferInv, NInv
<1>3. Synced \in Block /\ Height[Synced] = SyncedHeight /\ SyncedHeight \in Nat
  BY <1>2, SyncedBelowTop
<1> SUFFICES ASSUME NEW a \in Account, NEW anchor \in 0..Max({Height[b] : b \in Block})
             PROVE LET S == Spendable(a, anchor) IN
                   /\ S = {} \/ \E b \in Anc[Synced] : Height[b] <= anchor /\ S = Offer(a, b)
                   /\ anchor >= SyncedHeight => S = Offer(a, Synced)
                   /\ \A s \in S : SpentAt(notes[s.note].nf, Synced) = {}
  BY DEF SpendableExact
<1>4. anchor \in Nat
  OBVIOUS
<1> DEFINE S == Spendable(a, anchor)
           h == Max(WitnessHeights(anchor))
<1>5. ASSUME WitnessHeights(anchor) = {} PROVE S = {}
  BY <1>5 DEF Spendable
<1>6. ASSUME WitnessHeights(anchor) # {}
      PROVE /\ h \in WitnessHeights(anchor) /\ h \in DOMAIN blocks
            /\ \A g \in WitnessHeights(anchor) : g <= h
            /\ blocks[h].hash \in Anc[Synced] /\ Height[blocks[h].hash] = h
            /\ h <= anchor
            /\ S = Offer(a, blocks[h].hash)
  BY <1>4, <1>6, OfferedAt
<1> HIDE DEF h, S
<1>7. S = {} \/ \E b \in Anc[Synced] : Height[b] <= anchor /\ S = Offer(a, b)
  BY <1>5, <1>6
<1>8. \A s \in S : s.note \in DOMAIN notes /\ notes[s.note].spent = Null
                   /\ notes[s.note].height <= SyncedHeight
  <2> SUFFICES ASSUME NEW s \in S
               PROVE s.note \in DOMAIN notes /\ notes[s.note].spent = Null
                     /\ notes[s.note].height <= SyncedHeight
    OBVIOUS
  <2>1. WitnessHeights(anchor) # {}
    BY <1>5
  <2>2. s \in Offer(a, blocks[h].hash) /\ h <= SyncedHeight /\ Height[blocks[h].hash] = h
        /\ h \in Nat
    <3>1. blocks[h].hash \in Anc[Synced] /\ Height[blocks[h].hash] = h
      BY <1>6, <2>1
    <3>2. Height[blocks[h].hash] \in Nat /\ Height[blocks[h].hash] <= Height[Synced]
      BY <1>3, <3>1, Ancestor
    <3> QED BY <1>3, <1>6, <2>1, <3>1, <3>2
  <2>3. s.note \in DOMAIN notes /\ notes[s.note].spent = Null /\ notes[s.note].height <= h
    BY <2>2 DEF Offer
  <2>4. notes[s.note].height \in Nat
    <3>1. notes[s.note] \in NoteRow
      BY <1>2, <2>3, DbContext DEF IsTable
    <3> QED BY <3>1 DEF NoteRow
  <2> QED BY <1>3, <2>2, <2>3, <2>4
<1>9. \A s \in S : SpentAt(notes[s.note].nf, Synced) = {}
  BY <1>8, OfferAtSynced
<1>10. ASSUME anchor >= SyncedHeight PROVE S = Offer(a, Synced)
  <2>1. ASSUME NEW n, <<n, SyncedHeight>> \in DOMAIN wits
        PROVE WitnessHeights(anchor) # {} /\ S = Offer(a, Synced)
    <3>1. <<n, SyncedHeight>>[2] = SyncedHeight
      OBVIOUS
    <3>2. SyncedHeight \in WitnessHeights(anchor)
      BY <1>3, <1>4, <1>10, <2>1, <3>1 DEF WitnessHeights
    <3>3. h \in DOMAIN blocks /\ SyncedHeight <= h /\ S = Offer(a, blocks[h].hash)
          /\ blocks[h].hash \in Anc[Synced] /\ Height[blocks[h].hash] = h
      BY <1>6, <3>2
    <3>4. h \in Nat /\ h <= SyncedHeight
      BY <1>3, <3>3, Ancestor
    <3>5. blocks[h].hash = Synced
      BY <1>3, <3>3, <3>4, Ancestor
    <3> QED BY <3>2, <3>3, <3>5
  <2>2. CASE \E n : <<n, SyncedHeight>> \in DOMAIN wits
    BY <2>1, <2>2
  <2>3. CASE ~\E n : <<n, SyncedHeight>> \in DOMAIN wits
    <3>1. S = {}
      BY <1>8, <2>3, OfferAtSynced
    <3>2. Offer(a, Synced) = {}
      BY <1>3, <2>3, OfferAtSynced DEF Offer
    <3> QED BY <3>1, <3>2
  <2> QED BY <2>2, <2>3
<1> QED BY <1>7, <1>9, <1>10 DEF S

LEMMA PaidNotesSettleFromInv ==
  ASSUME OfferInv
  PROVE  PaidNotesSettle
<1>1. PICK R : R = raced
  OBVIOUS
<1>2. NInv(R)
  BY <1>1 DEF OfferInv
<1>3. ASSUME NEW n \in SyncedNotes \ raced
      PROVE LET at == SpentAt(notes[n].nf, Synced)
            IN IF SpentBySync(n) THEN notes[n].spent \in at ELSE at = {}
  BY <1>1, <1>2, SpendsOfRow
<1> QED BY <1>3 DEF PaidNotesSettle

(* The marks of payments and a sync beside them keep what payments rely on. *)
THEOREM OfferInvariance == Mendable => (PSpec => []OfferInv)
<1> SUFFICES ASSUME Mendable PROVE PSpec => []OfferInv
  OBVIOUS
<1>1. PInit => OfferInv
  BY OfferInit
<1>2. OfferInv /\ [PNext]_<<vars, pay, raced>> => OfferInv'
  BY OfferStep
<1> QED BY <1>1, <1>2, PTL DEF PSpec

(* At every moment what get_spendable_notes returns is all that an account *)
(* can spend against one block of the synced chain, the synced one if the  *)
(* anchor allows it, and none of it is spent on that chain.                *)
THEOREM SpendableIsExact == Mendable => (PSpec => []SpendableExact)
<1> SUFFICES ASSUME Mendable PROVE PSpec => []SpendableExact
  OBVIOUS
<1>1. OfferInv => SpendableExact
  BY SpendableExactFromInv
<1> QED BY <1>1, OfferInvariance, PTL

(* Sync replaces the mark of tx_mark_spend by the height of the spend when *)
(* the chain spends the note and not before, unless the mark was written   *)
(* over a height.                                                          *)
THEOREM PaidNotesDoSettle == Mendable => (PSpec => []PaidNotesSettle)
<1> SUFFICES ASSUME Mendable PROVE PSpec => []PaidNotesSettle
  OBVIOUS
<1>1. OfferInv => PaidNotesSettle
  BY PaidNotesSettleFromInv
<1> QED BY <1>1, OfferInvariance, PTL
=============================================================================
