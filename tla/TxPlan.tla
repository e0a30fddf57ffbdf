------------------------------- MODULE TxPlan -------------------------------
(***************************************************************************)
(* A transaction plan from the recipients to the signature.  The plan is   *)
(* made of the notes and utxos of the account that is active when it is    *)
(* prepared, and it names them by value; it is signed, at once or from a   *)
(* file and perhaps on another device, with the keys of the account that   *)
(* is active then.  The reply-to address is that of the account that was   *)
(* active when the recipients were parsed.  The calls hold no lock from    *)
(* one of these moments to the next.                                       *)
(***************************************************************************)
EXTENDS Integers, FiniteSets, FiniteSetsExt, Sequences, SequencesExt

CONSTANTS
    PlanAccount,
    Spendable,          \* account -> its spendable notes
    Utxos,              \* account -> its utxos, what the server knows of them
    Zats,               \* value of a note or utxo
    WithKey,            \* accounts with a spending key
    WithTKey,           \* accounts with a transparent key
    TAddress,           \* the recipients that are transparent addresses
    Requests,           \* sequences of recipients [to, amount, max, reply]
    DefaultFee, MaxMoney,
    MaxPlanCalls        \* bound: calls made

VARIABLES
    active,             \* the active account
    plan,               \* the call that builds: what it is at, what it has read
    files,              \* plans written out for offline signing
    signed,             \* transactions signed, and the account that has signed
    planCalls

planVars == <<active, plan, files, signed, planCalls>>

Idle == [pc |-> "idle"]
NoMemo == "no_memo"
Worth(things) == MapThenSumSet(LAMBDA x : Zats[x], things)
Total(outputs) == FoldSeq(LAMBDA o, sum : o.amount + sum, 0, outputs)

PlanInit ==
    /\ active \in PlanAccount
    /\ plan = Idle /\ files = {} /\ signed = {} /\ planCalls = 0

----------------------------------------------------------------------------
(* The plan.                                                               *)

\* from_recipient: the memo names the account it came from if asked to.
FromRecipient(a, r) ==
    [to |-> r.to, amount |-> r.amount, max |-> r.max, memo |-> IF r.reply THEN a ELSE NoMemo]

Parsed(a, request) == [n \in DOMAIN request |-> FromRecipient(a, request[n])]

\* Amounts are unsigned, and a utxo pays to the address of one account.
ASSUME PlanAssumption ==
    /\ DefaultFee \in Nat \ {0} /\ MaxMoney \in Nat \ {0}
    /\ \A r \in Requests :
         r \in Seq(ToSet(r)) /\ \A x \in ToSet(r) : x.amount \in Nat /\ x.max \in Nat
    /\ \A a \in PlanAccount :
         /\ IsFiniteSet(Spendable[a]) /\ IsFiniteSet(Utxos[a])
         /\ \A x \in Spendable[a] \cup Utxos[a] : Zats[x] \in Nat
    /\ \A a, b \in PlanAccount : a # b => Utxos[a] \cap Utxos[b] = {}

\* select_inputs: all utxos, then notes in a random order until the amount and
\* the fee are covered.
SelectInputs(notes, utxos, need) ==
    IF Worth(utxos) >= need THEN {{}}
    ELSE {s \in SUBSET notes : /\ Worth(s) + Worth(utxos) >= need
                               /\ \E last \in s : Worth(s \ {last}) + Worth(utxos) < need}

\* A mutant: a recipient of nothing gets no output.
SplitOfPositive(r) ==
    LET max == IF r.max = 0 THEN MaxMoney ELSE r.max
        count == (r.amount + max - 1) \div max
    IN  [n \in 1 .. count |-> IF n < count THEN max ELSE r.amount - (count - 1) * max]

\* The amounts of the outputs of one recipient: at least one.
Split(r) ==
    LET max == IF r.max = 0 THEN MaxMoney ELSE r.max
        count == Max({1, (r.amount + max - 1) \div max})
    IN  [n \in 1 .. count |-> IF n < count THEN max ELSE r.amount - (count - 1) * max]

OutputsOf(r) ==
    [n \in DOMAIN Split(r) |->
        [to |-> r.to, amount |-> Split(r)[n], memo |-> IF r.to \in TAddress THEN NoMemo ELSE r.memo]]

SelectOutputs(recipients) ==
    FlattenSeq([n \in DOMAIN recipients |-> OutputsOf(recipients[n])])

----------------------------------------------------------------------------
(* The calls that build.                                                   *)

SwitchAccount(a) ==
    /\ active' = a
    /\ UNCHANGED <<plan, files, signed, planCalls>>

ParseRecipients(request) == Parsed(active, request)

Start(recipients, transparent, send) ==
    /\ plan = Idle /\ planCalls < MaxPlanCalls /\ planCalls' = planCalls + 1
    /\ plan' = [pc |-> "prepare", transparent |-> transparent, send |-> send,
                recipients |-> recipients]
    /\ UNCHANGED <<active, files, signed>>

SendMultiPayment(request, transparent) == Start(ParseRecipients(request), transparent, TRUE)

\* The plan is returned, to be signed later or elsewhere.
PrepareMultiPayment(request, transparent) == Start(ParseRecipients(request), transparent, FALSE)

\* No recipient: everything transparent becomes change.
ShieldTaddr == Start(ParseRecipients(<<>>), TRUE, TRUE)

\* prepare_multi_payment, up to the request for the utxos.
TakeAccount ==
    /\ plan.pc = "prepare"
    /\ plan' = [pc |-> "select", send |-> plan.send, recipients |-> plan.recipients,
                account |-> active, transparent |-> plan.transparent]
    /\ UNCHANGED <<active, files, signed, planCalls>>

\* The server is asked for all utxos of the address.
UtxosOf(p) == IF p.transparent THEN Utxos[p.account] ELSE {}

PlanFails ==
    /\ plan # Idle /\ plan' = Idle
    /\ UNCHANGED <<active, files, signed, planCalls>>

SelectAll ==
    /\ plan.pc = "select"
    /\ LET utxos == UtxosOf(plan)
           outputs == SelectOutputs(plan.recipients)
       IN  \E notes \in SelectInputs(Spendable[plan.account], utxos, Total(plan.recipients) + DefaultFee) :
             LET tx == [tInputs |-> utxos, inputs |-> notes, fvk |-> plan.account,
                        outputs |-> outputs, change |-> plan.account]
             IN  IF plan.send
                 THEN plan' = [pc |-> "sign", tx |-> tx, recipients |-> plan.recipients] /\ files' = files
                 ELSE plan' = Idle /\ files' = files \cup {[tx |-> tx, recipients |-> plan.recipients]}
    /\ UNCHANGED <<active, signed, planCalls>>

----------------------------------------------------------------------------
(* The signature.                                                          *)

KeyOf(tx) == IF tx.inputs = {} THEN {} ELSE {tx.fvk}

\* A mutant: the viewing key of the plan is not compared.
SignableUnchecked(a, tx) ==
    /\ a \in WithKey
    /\ tx.tInputs = {} \/ (a \in WithTKey /\ tx.tInputs \subseteq Utxos[a])
    /\ Worth(tx.inputs) + Worth(tx.tInputs) >= Total(tx.outputs) + DefaultFee

\* Tx::sign: the keys of a, against what the plan says of its inputs.  That a
\* utxo pays to the transparent key, and that the change is not negative, is
\* refused by the builder of the library.
Signable(a, tx) ==
    /\ a \in WithKey
    /\ tx.tInputs = {} \/ (a \in WithTKey /\ tx.tInputs \subseteq Utxos[a])
    /\ KeyOf(tx) \subseteq {a}
    /\ Worth(tx.inputs) + Worth(tx.tInputs) >= Total(tx.outputs) + DefaultFee

\* The builder adds the change, when there is some.
Built(p, a) ==
    [tx |-> p.tx, recipients |-> p.recipients, by |-> a,
     change |-> Worth(p.tx.inputs) + Worth(p.tx.tInputs) - Total(p.tx.outputs) - DefaultFee]

\* The rest of a payment: the broadcast and its marks are in Payment.
SignPayment ==
    /\ plan.pc = "sign" /\ Signable(active, plan.tx)
    /\ signed' = signed \cup {Built(plan, active)}
    /\ plan' = Idle
    /\ UNCHANGED <<active, files, planCalls>>

SignOnly(f) ==
    /\ planCalls < MaxPlanCalls /\ planCalls' = planCalls + 1
    /\ Signable(active, f.tx)
    /\ signed' = signed \cup {Built(f, active)}
    /\ UNCHANGED <<active, plan, files>>

PlanNext ==
    \/ \E a \in PlanAccount : SwitchAccount(a)
    \/ \E r \in Requests, transparent \in BOOLEAN :
         SendMultiPayment(r, transparent) \/ PrepareMultiPayment(r, transparent)
    \/ ShieldTaddr
    \/ TakeAccount \/ SelectAll \/ PlanFails
    \/ SignPayment
    \/ \E f \in files : SignOnly(f)

PlanSpec == PlanInit /\ [][PlanNext]_planVars

----------------------------------------------------------------------------
(* Properties.                                                             *)

\* What the parts of a sequence that go to an address pay together.
PaidTo(parts, to) ==
    MapThenSumSet(LAMBDA n : parts[n].amount, {n \in DOMAIN parts : parts[n].to = to})
PartOf(o, r) ==
    /\ o.to = r.to
    /\ r.max # 0 => o.amount <= r.max
    /\ o.memo = r.memo \/ r.to \in TAddress
Plans == files \cup signed \cup (IF plan.pc = "sign" THEN {plan} ELSE {})

\* Every plan pays every address the whole amount of its recipients, and every
\* recipient at least one output, even of nothing: a memo travels that way
\* (pay.rs:265-295).  Every output is of a recipient: not above the maximum of
\* the recipient, and with the memo if the address can carry one.  The inputs
\* cover the amounts and the fee, and the last of them was needed
\* (pay.rs:206-247).
Exact(p) ==
    LET in == Worth(p.tx.inputs) + Worth(p.tx.tInputs)
        need == Total(p.recipients) + DefaultFee
    IN  /\ in >= need
        /\ Total(p.tx.outputs) = Total(p.recipients)
        /\ p.tx.inputs # {} => \E n \in p.tx.inputs : in - Zats[n] < need
        /\ \A r \in ToSet(p.recipients) :
             /\ PaidTo(p.tx.outputs, r.to) = PaidTo(p.recipients, r.to)
             /\ \E o \in ToSet(p.tx.outputs) : PartOf(o, r)
        /\ \A o \in ToSet(p.tx.outputs) : \E r \in ToSet(p.recipients) : PartOf(o, r)
PlanExact == \A p \in Plans : Exact(p)

\* Whatever account is active at the signature, what is signed spends only
\* notes and utxos of the signer, and returns the change to it (pay.rs:329-357).
SignedByOwner ==
    \A s \in signed :
        /\ s.tx.inputs \subseteq Spendable[s.by] /\ s.tx.tInputs \subseteq Utxos[s.by]
        /\ s.tx.change = s.by
=============================================================================
