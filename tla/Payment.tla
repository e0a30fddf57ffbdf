------------------------------ MODULE Payment ------------------------------
(***************************************************************************)
(* Payments beside a running sync, on the same database:                   *)
(* build_sign_send_multi_payment (api/payment.rs) reads the spendable      *)
(* notes, selects some at random, signs, which takes seconds for each      *)
(* note, waits for the server to take the transaction, and only then marks *)
(* the notes with spent = 0.  The sync runs freely between these steps.    *)
(*                                                                         *)
(* The blocks of the ledger already contain the spends that will be mined; *)
(* a payment whose notes no block spends is one that expires.              *)
(***************************************************************************)
EXTENDS WarpSync

CONSTANTS
  Payments,      \* the calls to build_sign_send_multi_payment
  Needs,         \* target_amount + DEFAULT_FEE - t_amount, when positive
  Confirmations  \* anchor_offset

ASSUME PaymentConstants ==
  /\ Needs \subseteq Nat \ {0}
  /\ Confirmations \in Nat

VARIABLES
  pay,   \* payment -> where its call is, the notes it spends, their anchor
  raced  \* history: notes whose mark has overwritten the height of a spend

NotStarted == [at |-> "idle", notes |-> {}, root |-> << >>]

PInit ==
  /\ Init
  /\ pay = [p \in Payments |-> NotStarted]
  /\ raced = {}

-----------------------------------------------------------------------------
(* DbAdapter::get_spendable_notes: the notes never marked as spent that    *)
(* have a witness at the newest height, at or below the anchor, that has   *)
(* any witness.                                                            *)
WitnessHeightsAll(anchor) == {k[2] : k \in DOMAIN wits}
WitnessHeights(anchor) == {h \in {k[2] : k \in DOMAIN wits} : h <= anchor}

NotSeenSpent == Unspent(notes)
NeverSpent == {n \in DOMAIN notes : notes[n].spent = Null}

Spendable(a, anchor) ==
  LET hs == WitnessHeights(anchor)
  IN {[note |-> n, pos |-> wits[<<n, Max(hs)>>].pos, leaves |-> wits[<<n, Max(hs)>>].leaves] :
        n \in {m \in NeverSpent :
                 AccountOf(m) = a /\ hs # {} /\ <<m, Max(hs)>> \in DOMAIN wits}}

(* TxBuilder::select_inputs: takes the notes in a random order until they  *)
(* reach the amount, so some note of the selection is the last one needed. *)
SumOf(offer) == MapThenSumSet(LAMBDA s : Value[OutOf(s.note)], offer)
Selections(offer, need) ==
  {S \in SUBSET offer : SumOf(S) >= need /\ \E s \in S : SumOf(S \ {s}) < need}

(* prepare_multi_payment; last is the height the application has last seen *)
(* and the subtraction saturates.                                          *)
Prepare(p) ==
  /\ pay[p].at = "idle"
  /\ \E a \in Account, need \in Needs, last \in 0..Height[tip] :
       LET anchor == Max({0, last - Confirmations}) IN
       \E S \in Selections(Spendable(a, anchor), need) :
         pay' = [pay EXCEPT ![p] =
           [at |-> "built", notes |-> {s.note : s \in S},
            root |-> (CHOOSE s \in S : TRUE).leaves]]
  /\ UNCHANGED <<vars, raced>>

(* The network takes a transaction whose anchor is on its chain and whose  *)
(* notes neither its chain nor its pool of transactions spends.            *)
InPool == {p \in Payments : pay[p].at \in {"sent", "paid", "lost"}}
Accepted(p) ==
  /\ \E b \in Anc[tip] : Leaves[b] = pay[p].root
  /\ \A n \in pay[p].notes : SpentAt(notes[n].nf, tip) = {}
  /\ \A q \in InPool : pay[q].notes \cap pay[p].notes = {}

Broadcast(p) ==
  /\ pay[p].at = "built" /\ Accepted(p)
  /\ pay' = [pay EXCEPT ![p].at = "sent"]
  /\ UNCHANGED <<vars, raced>>

(* The server refuses it, or the transaction never reaches the server. *)
BroadcastFail(p) ==
  /\ pay[p].at = "built"
  /\ pay' = [pay EXCEPT ![p].at = "failed"]
  /\ UNCHANGED <<vars, raced>>

(* The server has taken it, but the reply is lost, the wallet is killed,   *)
(* or the database stays locked longer than its busy timeout.              *)
LoseReply(p) ==
  /\ pay[p].at = "sent"
  /\ pay' = [pay EXCEPT ![p].at = "lost"]
  /\ UNCHANGED <<vars, raced>>

(* DbAdapter::tx_mark_spend.  While the processor scans, its transaction   *)
(* holds the write lock of the database and this one waits.                *)
MarkSpent(p) ==
  /\ pay[p].at = "sent"
  /\ ppc # "scan"
  /\ notes' = [n \in DOMAIN notes |->
       IF n \in pay[p].notes THEN [notes[n] EXCEPT !.spent = 0] ELSE notes[n]]
  /\ raced' = raced \cup {n \in pay[p].notes : n \notin Unspent(notes)}
  /\ pay' = [pay EXCEPT ![p].at = "paid"]
  /\ UNCHANGED <<tip, blocks, txs, wits, callVars, dlVars, chan, prVars>>

PaymentNext ==
  \E p \in Payments :
    Prepare(p) \/ Broadcast(p) \/ BroadcastFail(p) \/ LoseReply(p) \/ MarkSpent(p)

PNext == PaymentNext \/ (Next /\ UNCHANGED <<pay, raced>>)

PSpec == PInit /\ [][PNext]_<<vars, pay, raced>>

-----------------------------------------------------------------------------
(* What an account can spend against the tree of block b: each of its      *)
(* notes of that chain that is not marked, with its path in that tree.     *)
Offer(a, b) ==
  {[note |-> n, pos |-> Position(OutOf(n), b), leaves |-> Leaves[b]] :
     n \in {m \in DOMAIN notes : /\ AccountOf(m) = a
                                 /\ notes[m].spent = Null
                                 /\ notes[m].height <= Height[b]}}

(* At every moment, a sync under way included, what a payment can choose   *)
(* from is all an account can spend against ONE block of the synced chain, *)
(* no younger than the anchor asked for, and none of it is spent on that   *)
(* chain.  With an anchor at the synced height or above that block is the  *)
(* synced one.  (get_spendable_notes, db.rs, reads two tables that sync    *)
(* writes in two transactions.)                                            *)
SpendableExact ==
  \A a \in Account : \A anchor \in 0..Max({Height[b] : b \in Block}) :
    LET S == Spendable(a, anchor) IN
    /\ S = {} \/ \E b \in Anc[Synced] : Height[b] <= anchor /\ S = Offer(a, b)
    /\ anchor >= SyncedHeight => S = Offer(a, Synced)
    /\ \A s \in S : SpentAt(notes[s.note].nf, Synced) = {}

(* A note of a payment that has returned Ok is never offered to another    *)
(* one again, whatever a sync, an interrupted one included, writes over    *)
(* the mark of tx_mark_spend.                                              *)
PaidNotOffered ==
  \A p \in Payments : pay[p].at = "paid" =>
    \A a \in Account : \A anchor \in 0..Max({Height[b] : b \in Block}) :
      {s.note : s \in Spendable(a, anchor)} \cap pay[p].notes = {}

(* Sync keeps looking for the spend of a note that a payment has marked:   *)
(* when the chain it has synced spends the note, the mark is replaced by   *)
(* the height, and otherwise it stays.  This leaves out the marks written  *)
(* over a height that sync had already found: they stay 0 for ever.        *)
PaidNotesSettle ==
  \A p \in Payments : pay[p].at = "paid" =>
    \A n \in (pay[p].notes \cap SyncedNotes) \ raced :
      LET at == SpentAt(notes[n].nf, Synced)
      IN IF SpentBySync(n) THEN notes[n].spent \in at ELSE at = {}
=============================================================================
