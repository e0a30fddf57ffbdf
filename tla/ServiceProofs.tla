---------------------------- MODULE ServiceProofs ----------------------------
(***************************************************************************)
(* Proofs about the services around the synchronization: the contacts, the *)
(* memory pool, the plans of payments, the search for the block of a date, *)
(* the schema of the databases, the daily quotes and the accounts.  Each   *)
(* has a section of its own.                                               *)
(***************************************************************************)
EXTENDS Contacts, Mempool, TxPlan, BlockSearch, Schema, Prices, Accounts, Sums,
        SequenceTheorems, FiniteSetTheorems, WellFoundedInduction

-----------------------------------------------------------------------------
(***************************************************************************)
(* A contact that the wallet calls clean can be read back from the chain,  *)
(* for any number of contacts, edits and commits.                          *)
(*                                                                         *)
(* CleanMeansOnChain is not inductive: it speaks of the last commit only   *)
(* when sync has read them all.  Recoverable speaks of every moment: the   *)
(* version is that of a commit, and sync has read past no later one but    *)
(* those whose request has failed.  A rewind moves the mark of sync back   *)
(* and keeps the rows, so the commit may be one that is to be read again.  *)
(***************************************************************************)
Recoverable(id) ==
    \E i \in CommitsOf(id) :
        /\ VersionAt(i, id) = contacts[id].version
        /\ \A j \in CommitsOf(id) : i < j /\ j <= readTo => j \in unread

ContactsTypeOK ==
    /\ \E S : chain \in Seq(S)
    /\ readTo \in 0 .. Len(chain)

ContactsInv ==
    /\ ContactsTypeOK
    /\ \A id \in DOMAIN contacts \ Dirty(contacts) : Recoverable(id)

LEMMA ContactsStart == ASSUME ContactsInit PROVE ContactsInv
<1>1. chain \in Seq({}) /\ readTo = 0 /\ Len(chain) = 0 /\ DOMAIN contacts = {}
  BY DEF ContactsInit
<1> QED
  BY <1>1 DEF ContactsInv, ContactsTypeOK

\* What is kept by a step that changes neither the rows nor what was read.
LEMMA ContactsUntouched ==
    ASSUME ContactsInv, UNCHANGED <<contacts, chain, readTo, unread>>
    PROVE  ContactsInv'
  BY DEF ContactsInv, ContactsTypeOK, Recoverable, CommitsOf, VersionAt, Dirty

LEMMA StoreContactKeeps ==
    ASSUME ContactsInv, NEW id, NEW v, StoreContact(id, v)
    PROVE  ContactsInv'
<1> DEFINE row == IF id = 0 THEN Max({0} \cup DOMAIN contacts) + 1 ELSE id
<1>1. contacts' = Put(row, v, TRUE) /\ UNCHANGED <<chain, readTo, unread>>
  BY DEF StoreContact
<1> HIDE DEF row
<1>2. ASSUME NEW i \in DOMAIN contacts' \ Dirty(contacts')
      PROVE  i \in DOMAIN contacts \ Dirty(contacts) /\ contacts'[i] = contacts[i]
  <2>1. DOMAIN contacts' = DOMAIN contacts \cup {row}
        /\ \A k \in DOMAIN contacts' : contacts'[k] =
             IF k = row THEN [version |-> v, dirty |-> TRUE] ELSE contacts[k]
    BY <1>1 DEF Put
  <2>2. i # row
    BY <2>1 DEF Dirty
  <2> QED
    BY <2>1, <2>2 DEF Dirty
<1>3. ContactsTypeOK'
  BY <1>1 DEF ContactsInv, ContactsTypeOK
<1>4. \A i : /\ CommitsOf(i)' = CommitsOf(i)
             /\ \A k : VersionAt(k, i)' = VersionAt(k, i)
  BY <1>1 DEF CommitsOf, VersionAt
<1>5. ASSUME NEW i \in DOMAIN contacts' \ Dirty(contacts') PROVE Recoverable(i)'
  <2>1. Recoverable(i) /\ contacts'[i] = contacts[i]
    BY <1>2 DEF ContactsInv
  <2> QED
    BY <1>1, <1>4, <2>1 DEF Recoverable
<1> QED
  BY <1>3, <1>5 DEF ContactsInv

LEMMA MineCommitKeeps ==
    ASSUME ContactsInv, NEW c, MineCommit(c)
    PROVE  ContactsInv'
<1>1. PICK S : chain \in Seq(S)
  BY DEF ContactsInv, ContactsTypeOK
<1> DEFINE T == S \cup {c.memos}
<1>2. chain \in Seq(T)
  BY <1>1
<1>3. chain' = Append(chain, c.memos) /\ UNCHANGED <<contacts, readTo, unread>>
  BY DEF MineCommit
<1>4. /\ chain' \in Seq(T) /\ Len(chain') = Len(chain) + 1 /\ Len(chain) \in Nat
      /\ DOMAIN chain = 1 .. Len(chain) /\ DOMAIN chain' = 1 .. Len(chain) + 1
      /\ \A i \in 1 .. Len(chain) : chain'[i] = chain[i]
  BY <1>2, <1>3
<1>5. readTo \in 0 .. Len(chain)
  BY DEF ContactsInv, ContactsTypeOK
<1>6. ASSUME NEW id PROVE /\ CommitsOf(id) \subseteq CommitsOf(id)' /\ CommitsOf(id) \subseteq Int
                          /\ \A i \in CommitsOf(id) : VersionAt(i, id)' = VersionAt(i, id)
                          /\ \A j \in CommitsOf(id)' : j <= readTo => j \in CommitsOf(id)
  <2> HIDE DEF T
  <2>1. CommitsOf(id) \subseteq CommitsOf(id)' /\ CommitsOf(id) \subseteq Int
    BY <1>4 DEF CommitsOf
  <2>2. ASSUME NEW i \in CommitsOf(id) PROVE VersionAt(i, id)' = VersionAt(i, id)
    <3>1. chain'[i] = chain[i]
      BY <1>4 DEF CommitsOf
    <3> QED
      BY <3>1 DEF VersionAt
  <2>3. ASSUME NEW j \in CommitsOf(id)', j <= readTo PROVE j \in CommitsOf(id)
    <3>1. j \in 1 .. Len(chain)
      BY <1>4, <1>5, <2>3 DEF CommitsOf
    <3> QED
      BY <1>4, <3>1 DEF CommitsOf
  <2> QED
    BY <2>1, <2>2, <2>3
<1>7. ASSUME NEW id \in DOMAIN contacts \ Dirty(contacts) PROVE Recoverable(id)'
  <2>1. PICK i \in CommitsOf(id) :
          /\ VersionAt(i, id) = contacts[id].version
          /\ \A j \in CommitsOf(id) : i < j /\ j <= readTo => j \in unread
    BY DEF ContactsInv, Recoverable
  <2> QED
    BY <1>3, <1>6, <2>1 DEF Recoverable
<1> QED
  BY <1>3, <1>4, <1>5, <1>7 DEF ContactsInv, ContactsTypeOK, Dirty

LEMMA ReadBackKeeps ==
    ASSUME ContactsInv, ReadBack
    PROVE  ContactsInv'
<1> DEFINE next == readTo + 1
           taken == Decoded(chain[next])
<1>1. /\ readTo \in Nat /\ next <= Len(chain) /\ readTo' = next /\ chain' = chain
      /\ Len(chain) \in Nat /\ DOMAIN chain = 1 .. Len(chain)
      /\ unread' = unread \ {next}
  BY DEF ContactsInv, ContactsTypeOK, ReadBack
<1>2. ContactsTypeOK'
  BY <1>1 DEF ContactsInv, ContactsTypeOK
<1>3. contacts' = [id \in DOMAIN contacts \cup {d.id : d \in taken} |->
                     IF \E d \in taken : d.id = id
                     THEN [version |-> (CHOOSE d \in taken : d.id = id).version, dirty |-> FALSE]
                     ELSE contacts[id]]
  BY DEF ReadBack
<1>4. \A id : /\ next \in CommitsOf(id) <=> \E d \in taken : d.id = id
              /\ VersionAt(next, id) = (CHOOSE d \in taken : d.id = id).version
  BY <1>1 DEF CommitsOf, VersionAt
<1> HIDE DEF taken
<1>5. \A id : CommitsOf(id)' = CommitsOf(id) /\ CommitsOf(id) \subseteq Int
              /\ \A i : VersionAt(i, id)' = VersionAt(i, id)
  BY <1>1 DEF CommitsOf, VersionAt
<1>6. ASSUME NEW id \in DOMAIN contacts' \ Dirty(contacts') PROVE Recoverable(id)'
  <2>1. CASE next \in CommitsOf(id)
    <3>1. contacts'[id].version = VersionAt(next, id)
      <4>1. contacts'[id] =
              [version |-> (CHOOSE d \in taken : d.id = id).version, dirty |-> FALSE]
        BY <1>3, <1>4, <2>1
      <4> QED
        BY <1>4, <4>1
    <3>2. \A j \in CommitsOf(id) : ~(next < j /\ j <= readTo')
      BY <1>1, <1>5
    <3> QED
      BY <1>5, <2>1, <3>1, <3>2 DEF Recoverable
  <2>2. CASE next \notin CommitsOf(id)
    <3>1. id \in DOMAIN contacts \ Dirty(contacts) /\ contacts'[id] = contacts[id]
      <4>1. id \in DOMAIN contacts
        BY <1>3, <1>4, <2>2
      <4>2. contacts'[id] = contacts[id]
        BY <1>3, <1>4, <2>2, <4>1
      <4> QED
        BY <4>1, <4>2 DEF Dirty
    <3>2. PICK i \in CommitsOf(id) :
            /\ VersionAt(i, id) = contacts[id].version
            /\ \A j \in CommitsOf(id) : i < j /\ j <= readTo => j \in unread
      BY <3>1 DEF ContactsInv, Recoverable
    <3>3. \A j \in CommitsOf(id) : i < j /\ j <= readTo' => j \in unread'
      BY <1>1, <1>5, <2>2, <3>2
    <3> QED
      BY <1>5, <3>1, <3>2, <3>3 DEF Recoverable
  <2> QED
    BY <2>1, <2>2
<1> QED
  BY <1>2, <1>6 DEF ContactsInv

LEMMA ReadFailsKeeps ==
    ASSUME ContactsInv, ReadFails
    PROVE  ContactsInv'
<1>1. /\ readTo \in Nat /\ readTo' = readTo + 1 /\ readTo' <= Len(chain) /\ Len(chain) \in Nat
      /\ unread' = unread \cup {readTo'} /\ UNCHANGED <<contacts, chain>>
      /\ DOMAIN chain = 1 .. Len(chain)
  BY DEF ContactsInv, ContactsTypeOK, ReadFails
<1>2. \A id : CommitsOf(id)' = CommitsOf(id) /\ CommitsOf(id) \subseteq Int
              /\ \A i : VersionAt(i, id)' = VersionAt(i, id)
  BY <1>1 DEF CommitsOf, VersionAt
<1>3. ASSUME NEW id \in DOMAIN contacts \ Dirty(contacts) PROVE Recoverable(id)'
  BY <1>1, <1>2 DEF ContactsInv, Recoverable
<1> QED
  BY <1>1, <1>3 DEF ContactsInv, ContactsTypeOK, Dirty

LEMMA RewindContactsKeeps ==
    ASSUME ContactsInv, NEW to \in 0 .. Len(chain), RewindContacts(to)
    PROVE  ContactsInv'
<1>1. /\ readTo' = to /\ to < readTo /\ to \in Nat /\ readTo \in Nat /\ Len(chain) \in Nat
      /\ UNCHANGED <<contacts, chain, unread>> /\ DOMAIN chain = 1 .. Len(chain)
  BY DEF ContactsInv, ContactsTypeOK, RewindContacts
<1>2. \A id : CommitsOf(id)' = CommitsOf(id) /\ CommitsOf(id) \subseteq Int
              /\ \A i : VersionAt(i, id)' = VersionAt(i, id)
  BY <1>1 DEF CommitsOf, VersionAt
<1>3. ASSUME NEW id \in DOMAIN contacts \ Dirty(contacts) PROVE Recoverable(id)'
  BY <1>1, <1>2 DEF ContactsInv, Recoverable
<1> QED
  BY <1>1, <1>3 DEF ContactsInv, ContactsTypeOK, Dirty

LEMMA ForgetContactsKeeps ==
    ASSUME ContactsInv, ForgetContacts
    PROVE  ContactsInv'
<1>1. DOMAIN contacts' = {} /\ readTo' = 0 /\ chain' = chain
  BY DEF ForgetContacts
<1> QED
  BY <1>1 DEF ContactsInv, ContactsTypeOK

LEMMA ContactsStep == ASSUME ContactsInv, [ContactsNext]_contactVars PROVE ContactsInv'
<1>1. CASE \E id \in {0} \cup DOMAIN contacts, v \in Version : StoreContact(id, v)
  BY <1>1, StoreContactKeeps
<1>2. CASE CommitUnsavedContacts
  BY <1>2, ContactsUntouched DEF CommitUnsavedContacts
<1>3. ASSUME NEW c \in sent, MineCommit(c) \/ ExpireCommit(c) PROVE ContactsInv'
  BY <1>3, MineCommitKeeps, ContactsUntouched DEF ExpireCommit
<1>4. CASE ReadBack
  BY <1>4, ReadBackKeeps
<1>5. CASE ReadFails
  BY <1>5, ReadFailsKeeps
<1>6. CASE \E to \in 0 .. Len(chain) : RewindContacts(to)
  BY <1>6, RewindContactsKeeps
<1>7. CASE ForgetContacts
  BY <1>7, ForgetContactsKeeps
<1>8. CASE UNCHANGED contactVars
  BY <1>8, ContactsUntouched DEF contactVars
<1> QED
  BY <1>1, <1>2, <1>3, <1>4, <1>5, <1>6, <1>7, <1>8 DEF ContactsNext

\* A set of positions that is not empty has a largest one: the smallest distance
\* from the end of the chain.
LEMMA LargestPosition ==
    ASSUME NEW n \in Nat, NEW S \in SUBSET (1 .. n), S # {}
    PROVE  Max(S) \in S /\ \A j \in S : j <= Max(S)
<1> DEFINE D == {n - j : j \in S}
           R == OpToRel(<, Nat)
<1>1. IsWellFoundedOn(R, Nat)
  BY NatLessThanWellFounded
<1>2. \A d, e \in Nat : e < d => <<e, d>> \in R
  BY DEF OpToRel
<1> HIDE DEF R
<1>3. D \subseteq Nat /\ D # {}
  <2>1. \A j \in S : n - j \in Nat
    OBVIOUS
  <2> QED
    BY <2>1
<1>4. PICK d \in D : \A e \in D : ~(<<e, d>> \in R)
  BY <1>1, <1>3, WFMin, Zenon
<1>5. \A e \in D : d <= e
  <2>1. d \in Nat /\ \A e \in D : e \in Nat
    BY <1>3
  <2> HIDE DEF D
  <2>2. \A e \in D : ~(e < d)
    BY <1>2, <1>4, <2>1
  <2> QED
    BY <2>1, <2>2
<1>6. n - d \in S /\ \A j \in S : n - d >= j
  BY <1>5
<1>7. \E x \in S : \A y \in S : x >= y
  BY <1>6
<1>8. Max(S) \in S /\ \A y \in S : Max(S) >= y
  BY <1>7 DEF Max
<1> QED
  BY <1>8

LEMMA RecoverableIsOnChain == ASSUME ContactsInv PROVE CleanMeansOnChain
<1> SUFFICES ASSUME NEW id \in DOMAIN contacts \ Dirty(contacts)
             PROVE  /\ \E i \in CommitsOf(id) : VersionAt(i, id) = contacts[id].version
                    /\ readTo = Len(chain) =>
                         \/ Max(CommitsOf(id)) \in unread
                         \/ VersionAt(Max(CommitsOf(id)), id) = contacts[id].version
  BY DEF CleanMeansOnChain
<1>1. PICK i \in CommitsOf(id) :
        /\ VersionAt(i, id) = contacts[id].version
        /\ \A j \in CommitsOf(id) : i < j /\ j <= readTo => j \in unread
  BY DEF ContactsInv, Recoverable
<1>2. CommitsOf(id) \subseteq 1 .. Len(chain) /\ Len(chain) \in Nat
  BY DEF ContactsInv, ContactsTypeOK, CommitsOf
<1>3. /\ Max(CommitsOf(id)) \in CommitsOf(id)
      /\ \A j \in CommitsOf(id) : j <= Max(CommitsOf(id))
  BY <1>1, <1>2, LargestPosition
<1> QED
  BY <1>1, <1>2, <1>3

\* A contact that is not dirty is on the chain, however many edits, commits,
\* failed requests, rewinds and new devices there have been (db.rs:559-594,
\* api/contact.rs, transaction.rs:234-261).
THEOREM CleanIsOnChain == ContactsSpec => []CleanMeansOnChain
<1>1. ContactsInit => ContactsInv
  BY ContactsStart
<1>2. ContactsInv /\ [ContactsNext]_contactVars => ContactsInv'
  BY ContactsStep
<1>3. ContactsInv => CleanMeansOnChain
  BY RecoverableIsOnChain
<1> QED
  BY <1>1, <1>2, <1>3, PTL DEF ContactsSpec

-----------------------------------------------------------------------------
(***************************************************************************)
(* The balance of the memory pool is the sum over the transactions that it *)
(* knows, for any number of transactions, notes and accounts.              *)
(*                                                                         *)
(* PoolExact is not inductive: it is silent while the pool is about to be  *)
(* cleared.  PoolInv also says where each call stands and that the pool of *)
(* a process that has never scanned is empty, and from the first scan on   *)
(* whose nullifiers the pool holds: those of the active account, unless a  *)
(* clear is still to come.                                                 *)
(***************************************************************************)
(* The sum that PoolExact states. *)
Nets(a, N, S) == [t \in S |-> Credit(a, t) - Debit(N, t)]

\* It is a sum of the values of a function, as Sums has them.
LEMMA NetIsSum ==
  ASSUME NEW a, NEW N, NEW S, IsFiniteSet(S)
  PROVE  MapThenSumSet(LAMBDA t : Credit(a, t) - Debit(N, t), S)
           = SumOf(Nets(a, N, S), S)
<1> DEFINE f == Nets(a, N, S)
           P(i) == i = [s \in SUBSET S |->
                     IF s = {} THEN 0
                     ELSE Credit(a, Chosen(s)) - Debit(N, Chosen(s)) + i[s \ {Chosen(s)}]]
           c == CHOOSE i : P(i)
<1>1. MapThenSumSet(LAMBDA t : Credit(a, t) - Debit(N, t), S) = c[S]
  BY DEF MapThenSumSet, MapThenFoldSet, Chosen
<1>2. ASSUME NEW i PROVE P(i) <=> IsIter(f, S, i)
  <2>1. \A s \in SUBSET S : s # {} => f[Chosen(s)] = Credit(a, Chosen(s)) - Debit(N, Chosen(s))
    BY DEF Chosen, Nets
  <2> HIDE DEF f
  <2> QED BY <2>1 DEF IsIter
<1>3. P(c)
  <2>1. \E i : P(i)
    BY <1>2, IterExists
  <2> HIDE DEF P
  <2> QED BY <2>1
<1>4. IsIter(f, S, c)
  BY <1>2, <1>3
<1> HIDE DEF c, f
<1>5. c[S] = SumOf(f, S)
  BY <1>4, IterIsSum
<1> QED BY <1>1, <1>5 DEF f

(* What one transaction pays and spends is a number. *)
LEMMA CreditTyped ==
  ASSUME NEW a, NEW t \in PoolTx
  PROVE  Credit(a, t) \in Int
<1> DEFINE S == {n \in CreatesOf[t] : OwnerOf[n] = a}
<1>1. IsFiniteSet(S) /\ S \subseteq PoolNote
  BY PoolNotes, FS_Subset
<1>2. Credit(a, t) = SumOf(ValueOf, S)
  BY DEF Credit, SumOf
<1>3. \A n \in S : ValueOf[n] \in Int
  BY <1>1, PoolNotes
<1> HIDE DEF S
<1> QED BY <1>1, <1>2, <1>3, SumType

\* The same for what it spends.
LEMMA DebitTyped ==
  ASSUME NEW N, NEW t \in PoolTx
  PROVE  Debit(N, t) \in Int
<1> DEFINE S == SpendsOf[t] \cap N
<1>1. IsFiniteSet(S) /\ S \subseteq PoolNote
  BY PoolNotes, FS_Subset
<1>2. Debit(N, t) = SumOf(ValueOf, S)
  BY DEF Debit, SumOf
<1>3. \A n \in S : ValueOf[n] \in Int
  BY <1>1, PoolNotes
<1> HIDE DEF S
<1> QED BY <1>1, <1>2, <1>3, SumType

(* The sum over more transactions. *)
LEMMA NetsAdd ==
  ASSUME NEW a, NEW N, NEW S, IsFiniteSet(S), S \subseteq PoolTx,
         NEW T, IsFiniteSet(T), T \subseteq PoolTx, S \cap T = {}
  PROVE  /\ SumOf(Nets(a, N, S \cup T), S \cup T)
              = SumOf(Nets(a, N, S), S) + SumOf(Nets(a, N, T), T)
         /\ SumOf(Nets(a, N, S), S) \in Int /\ SumOf(Nets(a, N, T), T) \in Int
<1> DEFINE f == Nets(a, N, S \cup T)
<1>1. \A t \in S \cup T : f[t] = Credit(a, t) - Debit(N, t)
  BY DEF Nets
<1>2. \A t \in S \cup T : f[t] \in Int
  <2> SUFFICES ASSUME NEW t \in S \cup T PROVE f[t] \in Int
    OBVIOUS
  <2>1. t \in PoolTx /\ f[t] = Credit(a, t) - Debit(N, t)
    BY <1>1
  <2>2. Credit(a, t) \in Int /\ Debit(N, t) \in Int
    BY <2>1, CreditTyped, DebitTyped
  <2> HIDE DEF f
  <2> QED BY <2>1, <2>2
<1>3. (\A t \in S : Nets(a, N, S)[t] = f[t]) /\ (\A t \in T : Nets(a, N, T)[t] = f[t])
  BY <1>1 DEF Nets
<1> HIDE DEF f
<1>4. SumOf(f, S \cup T) = SumOf(f, S) + SumOf(f, T)
  BY <1>2, SumUnion
<1>5. SumOf(Nets(a, N, S), S) = SumOf(f, S) /\ SumOf(Nets(a, N, T), T) = SumOf(f, T)
  BY <1>3, SumSame
<1>6. SumOf(f, S) \in Int /\ SumOf(f, T) \in Int
  BY <1>2, SumType
<1> QED BY <1>4, <1>5, <1>6 DEF f

-----------------------------------------------------------------------------
(* The inductive invariant: a pool that has never been locked is empty;    *)
(* from the first lock on the nullifiers of the pool are those of the      *)
(* active account, and the balance is made with them, unless the account   *)
(* or the notes have changed and the pool is not cleared yet.              *)
PoolTyped ==
  /\ call = [c \in Caller |-> call[c]]
  /\ tip \in Nat \ {0} /\ IsFiniteSet(serverTxs) /\ serverTxs \subseteq PoolTx
  /\ IsFiniteSet(DOMAIN known) /\ DOMAIN known \subseteq PoolTx
Positions ==
  \A c \in Caller :
    /\ At(c, "lock") => call[c].latest \in Nat \ {0}
    /\ At(c, "connect") \/ At(c, "lock") => (call[c].height # 0 => height # 0)
    /\ At(c, "update") => height # 0
PoolSum == SumOf(Nets(idAccount, nfs, DOMAIN known), DOMAIN known)
PoolFilled ==
  /\ height = 0 => DOMAIN known = {} /\ balance = 0
  /\ fresh /\ height # 0 /\ (\A c \in Caller : ~At(c, "clear")) =>
       nfs = NullifierAmounts(idAccount, stored) /\ balance = PoolSum
PoolInv == PoolTyped /\ Positions /\ PoolFilled

\* Before the first scan the pool is empty.
LEMMA PoolInit == MempoolInit => PoolInv
<1> SUFFICES ASSUME MempoolInit PROVE PoolInv
  OBVIOUS
<1>1. DOMAIN known = {} /\ IsFiniteSet({})
  BY FS_EmptySet DEF MempoolInit
<1>2. PoolTyped
  BY <1>1 DEF MempoolInit, PoolTyped
<1>3. Positions
  BY DEF MempoolInit, Positions, At, NotCalling
<1>4. PoolFilled
  BY <1>1 DEF MempoolInit, PoolFilled
<1> QED BY <1>2, <1>3, <1>4 DEF PoolInv

(* A step that leaves the pool, the configuration and the notes alone, and *)
(* brings no caller to where it may not be.                                *)
Quiet ==
  /\ UNCHANGED <<stored, config, pool, fresh>>
  /\ call' = [c \in Caller |-> call'[c]]
  /\ tip' \in Nat \ {0} /\ IsFiniteSet(serverTxs') /\ serverTxs' \subseteq PoolTx
  /\ \A c \in Caller :
       /\ At(c, "lock")' => call'[c].latest \in Nat \ {0}
       /\ At(c, "connect")' \/ At(c, "lock")' => (call'[c].height # 0 => height # 0)
       /\ At(c, "update")' => At(c, "update")
       /\ At(c, "clear") => At(c, "clear")'

\* A step that leaves the pool and its calls alone.
LEMMA PoolQuiet ==
  ASSUME PoolInv, Quiet
  PROVE  PoolInv'
<1>1. /\ stored' = stored /\ idAccount' = idAccount /\ height' = height /\ fresh' = fresh
      /\ nfs' = nfs /\ known' = known /\ balance' = balance
  BY DEF Quiet, config, pool
<1>2. PoolTyped'
  BY <1>1 DEF Quiet, PoolInv, PoolTyped
<1>3. Positions'
  BY <1>1 DEF Quiet, PoolInv, Positions
<1>4. NullifierAmounts(idAccount, stored)' = NullifierAmounts(idAccount, stored)
      /\ PoolSum' = PoolSum
  BY <1>1 DEF NullifierAmounts, PoolSum
<1>5. PoolFilled'
  <2>1. (\A c \in Caller : ~At(c, "clear")') => \A c \in Caller : ~At(c, "clear")
    BY DEF Quiet
  <2> QED BY <1>1, <1>4, <2>1 DEF PoolInv, PoolFilled
<1> QED BY <1>2, <1>3, <1>5 DEF PoolInv

(* The other callers stay where they are. *)
LEMMA GotoMoves ==
  ASSUME PoolInv, NEW c \in Caller, NEW rec, Goto(c, rec)
  PROVE  /\ call' = [d \in Caller |-> call'[d]]
         /\ call'[c] = rec /\ \A d \in Caller : d # c => call'[d] = call[d]
BY DEF Goto, PoolInv, PoolTyped

(* A caller goes on without the pool. *)
LEMMA QuietGoto ==
  ASSUME PoolInv, NEW c \in Caller, NEW rec, Goto(c, rec),
         UNCHANGED <<network, stored, config, pool, fresh>>,
         ~At(c, "clear") \/ rec.pc = "clear", rec.pc # "update",
         rec.pc = "lock" => rec.latest \in Nat \ {0},
         rec.pc \in {"connect", "lock"} => (rec.height # 0 => height # 0)
  PROVE  PoolInv'
<1>1. /\ call' = [d \in Caller |-> call'[d]]
      /\ call'[c] = rec /\ \A d \in Caller : d # c => call'[d] = call[d]
  BY GotoMoves
<1>2. tip' = tip /\ serverTxs' = serverTxs
  BY DEF network
<1>3. ASSUME NEW d \in Caller
      PROVE  /\ At(d, "lock")' => call'[d].latest \in Nat \ {0}
             /\ At(d, "connect")' \/ At(d, "lock")' => (call'[d].height # 0 => height # 0)
             /\ At(d, "update")' => At(d, "update")
             /\ At(d, "clear") => At(d, "clear")'
  <2>1. CASE d = c
    BY <1>1, <2>1 DEF At
  <2>2. CASE d # c
    BY <1>1, <2>2 DEF At, PoolInv, Positions
  <2> QED BY <2>1, <2>2
<1>4. Quiet
  BY <1>1, <1>2, <1>3 DEF Quiet, PoolInv, PoolTyped
<1> QED BY <1>4, PoolQuiet

\* A pool that has been cleared is exact.
LEMMA ClearedIsFilled ==
  ASSUME PoolInv, Cleared
  PROVE  /\ DOMAIN known' = {} /\ IsFiniteSet(DOMAIN known') /\ balance' = 0
         /\ nfs' = NullifierAmounts(idAccount, stored)
         /\ \A a, N : SumOf(Nets(a, N, {}), {}) = 0
BY SumEmpty, FS_EmptySet DEF Cleared

\* Taking the lock fills a pool that has never been filled.
LEMMA PoolLockPool ==
  ASSUME PoolInv, NEW c \in Caller, LockPool(c)
  PROVE  PoolInv'
<1> DEFINE rec == [op |-> call[c].op, pc |-> "update", account |-> call[c].account]
<1>1. Goto(c, rec) /\ At(c, "lock")
  BY DEF LockPool
<1>2. /\ call' = [d \in Caller |-> call'[d]]
      /\ call'[c] = rec /\ \A d \in Caller : d # c => call'[d] = call[d]
  BY <1>1, GotoMoves
<1>3. UNCHANGED <<tip, serverTxs, stored, idAccount>>
  BY DEF LockPool, network
<1>4. call[c].latest \in Nat \ {0} /\ (call[c].height # 0 => height # 0)
  BY <1>1 DEF PoolInv, Positions
<1>5. height' # 0
  BY <1>4 DEF LockPool
<1>6. Positions'
  <2> SUFFICES ASSUME NEW d \in Caller
               PROVE  At(d, "lock")' => call'[d].latest \in Nat \ {0}
    BY <1>5 DEF Positions
  <2>1. CASE d = c
    BY <1>2, <2>1 DEF At
  <2>2. CASE d # c
    BY <1>2, <2>2 DEF At, PoolInv, Positions
  <2> QED BY <2>1, <2>2
<1>7. (\A d \in Caller : ~At(d, "clear")') => \A d \in Caller : ~At(d, "clear")
  BY <1>1, <1>2 DEF At
<1>8. NullifierAmounts(idAccount, stored)' = NullifierAmounts(idAccount, stored)
  BY <1>3 DEF NullifierAmounts
<1>9. CASE call[c].latest # call[c].height
  <2>1. Cleared
    BY <1>9 DEF LockPool
  <2>2. /\ DOMAIN known' = {} /\ IsFiniteSet(DOMAIN known') /\ balance' = 0
        /\ nfs' = NullifierAmounts(idAccount, stored)
        /\ \A a, N : SumOf(Nets(a, N, {}), {}) = 0
    BY <2>1, ClearedIsFilled
  <2>3. PoolTyped'
    BY <1>2, <1>3, <2>2 DEF PoolInv, PoolTyped
  <2>4. PoolSum' = 0
    BY <2>2 DEF PoolSum
  <2>5. PoolFilled'
    BY <1>5, <1>8, <2>2, <2>4 DEF PoolFilled
  <2> QED BY <1>6, <2>3, <2>5 DEF PoolInv
<1>10. CASE call[c].latest = call[c].height
  <2>1. UNCHANGED <<height, nfs, known, balance, fresh>>
    BY <1>10 DEF LockPool
  <2>2. PoolTyped'
    BY <1>2, <1>3, <2>1 DEF PoolInv, PoolTyped
  <2>3. PoolSum' = PoolSum
    BY <1>3, <2>1 DEF PoolSum
  <2>4. PoolFilled'
    BY <1>5, <1>7, <1>8, <2>1, <2>3 DEF PoolInv, PoolFilled
  <2> QED BY <1>6, <2>2, <2>4 DEF PoolInv
<1> QED BY <1>9, <1>10

(* The transactions of a reply that are new add what each of them pays and *)
(* spends; those that are known keep their entry in the balance.           *)
LEMMA PoolUpdate ==
  ASSUME PoolInv, NEW c \in Caller, NEW got \in SUBSET serverTxs, Update(c, got)
  PROVE  PoolInv'
<1> DEFINE new == got \ DOMAIN known
           key == call[c].account
           rec == IF call[c].op = "warp" THEN [op |-> "warp", pc |-> "clear_flag"] ELSE NotCalling
<1>1. Goto(c, rec) /\ At(c, "update")
  BY DEF Update, Finish
<1>2. /\ call' = [d \in Caller |-> call'[d]]
      /\ call'[c] = rec /\ \A d \in Caller : d # c => call'[d] = call[d]
  BY <1>1, GotoMoves
<1>3. UNCHANGED <<tip, serverTxs, stored, idAccount, height, nfs>>
  BY DEF Update, network, config
<1>4. /\ IsFiniteSet(new) /\ new \subseteq PoolTx /\ DOMAIN known \cap new = {}
      /\ IsFiniteSet(DOMAIN known) /\ DOMAIN known \subseteq PoolTx
      /\ IsFiniteSet(DOMAIN known \cup new) /\ DOMAIN known' = DOMAIN known \cup new
  <2>1. IsFiniteSet(serverTxs) /\ serverTxs \subseteq PoolTx
    BY DEF PoolInv, PoolTyped
  <2>2. new \in SUBSET serverTxs
    OBVIOUS
  <2>3. IsFiniteSet(new)
    BY <2>1, <2>2, FS_Subset
  <2>4. IsFiniteSet(DOMAIN known) /\ DOMAIN known \subseteq PoolTx
    BY DEF PoolInv, PoolTyped
  <2>5. IsFiniteSet(DOMAIN known \cup new)
    BY <2>3, <2>4, FS_Union
  <2>6. DOMAIN known' = DOMAIN known \cup new
    BY DEF Update
  <2> QED BY <2>1, <2>2, <2>3, <2>4, <2>5, <2>6
<1>5. balance' = balance + SumOf(Nets(key, nfs, new), new)
  <2>1. balance' = balance + MapThenSumSet(LAMBDA t : TxBalance(key, t), new)
    BY DEF Update
  <2>2. MapThenSumSet(LAMBDA t : TxBalance(key, t), new)
          = MapThenSumSet(LAMBDA t : Credit(key, t) - Debit(nfs, t), new)
    BY DEF TxBalance
  <2> QED BY <1>4, <2>1, <2>2, NetIsSum
<1>6. fresh' => fresh /\ (key = idAccount \/ new = {})
  BY DEF Update
<1>7. height # 0
  BY <1>1 DEF PoolInv, Positions
<1>8. rec.pc \notin {"connect", "lock", "update", "clear"}
  BY DEF NotCalling
<1> HIDE DEF new, key, rec
<1>9. PoolTyped'
  BY <1>2, <1>3, <1>4 DEF PoolInv, PoolTyped
<1>10. Positions'
  <2> SUFFICES ASSUME NEW d \in Caller
               PROVE  At(d, "lock")' => call'[d].latest \in Nat \ {0}
    BY <1>3, <1>7 DEF Positions
  <2>1. CASE d = c
    BY <1>2, <1>8, <2>1 DEF At
  <2>2. CASE d # c
    BY <1>2, <2>2 DEF At, PoolInv, Positions
  <2> QED BY <2>1, <2>2
<1>11. (\A d \in Caller : ~At(d, "clear")') => \A d \in Caller : ~At(d, "clear")
  BY <1>1, <1>2 DEF At
<1>12. NullifierAmounts(idAccount, stored)' = NullifierAmounts(idAccount, stored)
  BY <1>3 DEF NullifierAmounts
<1>13. ASSUME fresh', balance = PoolSum PROVE balance' = PoolSum'
  <2> DEFINE S == SumOf(Nets(idAccount, nfs, DOMAIN known), DOMAIN known)
             T == SumOf(Nets(idAccount, nfs, new), new)
             V == SumOf(Nets(key, nfs, new), new)
  <2>1. /\ SumOf(Nets(idAccount, nfs, DOMAIN known \cup new), DOMAIN known \cup new) = S + T
        /\ S \in Int /\ T \in Int
    BY <1>4, NetsAdd
  <2>2. PoolSum' = S + T
    BY <1>3, <1>4, <2>1 DEF PoolSum
  <2>3. V = T
    <3>1. CASE key = idAccount
      BY <3>1
    <3>2. CASE new = {}
      BY <3>2, SumEmpty
    <3> QED BY <1>6, <1>13, <3>1, <3>2
  <2>4. balance' = S + V
    BY <1>5, <1>13 DEF PoolSum
  <2> HIDE DEF S, T, V
  <2> QED BY <2>2, <2>3, <2>4
<1>14. PoolFilled'
  <2> HIDE DEF PoolSum
  <2> QED BY <1>3, <1>6, <1>7, <1>11, <1>12, <1>13 DEF PoolInv, PoolFilled
<1> QED BY <1>9, <1>10, <1>14 DEF PoolInv

\* A clear, by a change of account or by a reset.
LEMMA PoolClear ==
  ASSUME PoolInv, NEW c \in Caller, ClearPool(c)
  PROVE  PoolInv'
<1>1. /\ call' = [d \in Caller |-> call'[d]]
      /\ call'[c] = NotCalling /\ \A d \in Caller : d # c => call'[d] = call[d]
  BY GotoMoves DEF ClearPool
<1>2. UNCHANGED <<tip, serverTxs, stored, idAccount, height>>
  BY DEF ClearPool, network, config
<1>3. /\ DOMAIN known' = {} /\ IsFiniteSet(DOMAIN known') /\ balance' = 0
      /\ nfs' = NullifierAmounts(idAccount, stored)
      /\ \A a, N : SumOf(Nets(a, N, {}), {}) = 0
  BY ClearedIsFilled DEF ClearPool
<1>4. PoolTyped'
  BY <1>1, <1>2, <1>3 DEF PoolInv, PoolTyped
<1>5. Positions'
  <2> SUFFICES ASSUME NEW d \in Caller
               PROVE  /\ At(d, "lock")' => call'[d].latest \in Nat \ {0}
                      /\ At(d, "connect")' \/ At(d, "lock")' => (call'[d].height # 0 => height # 0)
                      /\ At(d, "update")' => height # 0
    BY <1>2 DEF Positions
  <2>1. CASE d = c
    BY <1>1, <2>1 DEF At, NotCalling
  <2>2. CASE d # c
    BY <1>1, <2>2 DEF At, PoolInv, Positions
  <2> QED BY <2>1, <2>2
<1>6. PoolSum' = 0 /\ NullifierAmounts(idAccount, stored)' = NullifierAmounts(idAccount, stored)
  BY <1>2, <1>3 DEF PoolSum, NullifierAmounts
<1>7. PoolFilled'
  BY <1>3, <1>6 DEF PoolFilled
<1> QED BY <1>4, <1>5, <1>7 DEF PoolInv

\* The active account changes, and a clear is to follow.
LEMMA PoolSetAccount ==
  ASSUME PoolInv, NEW c \in Caller, NEW a \in Account, SetActiveAccount(c, a)
  PROVE  PoolInv'
<1>1. /\ call' = [d \in Caller |-> call'[d]] /\ call'[c].pc = "clear"
      /\ \A d \in Caller : d # c => call'[d] = call[d]
  BY GotoMoves DEF SetActiveAccount, Begin
<1>2. UNCHANGED <<tip, serverTxs, stored, height, known, nfs, balance, fresh>>
  BY DEF SetActiveAccount, network, pool
<1>3. PoolTyped'
  BY <1>1, <1>2 DEF PoolInv, PoolTyped
<1>4. Positions'
  <2> SUFFICES ASSUME NEW d \in Caller
               PROVE  /\ At(d, "lock")' => call'[d].latest \in Nat \ {0}
                      /\ At(d, "connect")' \/ At(d, "lock")' => (call'[d].height # 0 => height # 0)
                      /\ At(d, "update")' => height # 0
    BY <1>2 DEF Positions
  <2>1. CASE d = c
    BY <1>1, <2>1 DEF At
  <2>2. CASE d # c
    BY <1>1, <2>2 DEF At, PoolInv, Positions
  <2> QED BY <2>1, <2>2
<1>5. PoolFilled'
  BY <1>1, <1>2 DEF PoolInv, PoolFilled, At
<1> QED BY <1>3, <1>4, <1>5 DEF PoolInv

\* A sync stores notes, and a clear is to follow.
LEMMA PoolSync ==
  ASSUME PoolInv, NEW c \in Caller, Sync(c)
  PROVE  PoolInv'
<1>1. /\ call' = [d \in Caller |-> call'[d]] /\ call'[c].pc = "snapshot" /\ At(c, "sync")
      /\ \A d \in Caller : d # c => call'[d] = call[d]
  BY GotoMoves DEF Sync
<1>2. UNCHANGED <<tip, serverTxs, idAccount, height, known, nfs, balance>>
  BY DEF Sync, network, config, pool
<1>3. PoolTyped'
  BY <1>1, <1>2 DEF PoolInv, PoolTyped
<1>4. Positions'
  <2> SUFFICES ASSUME NEW d \in Caller
               PROVE  /\ At(d, "lock")' => call'[d].latest \in Nat \ {0}
                      /\ At(d, "connect")' \/ At(d, "lock")' => (call'[d].height # 0 => height # 0)
                      /\ At(d, "update")' => height # 0
    BY <1>2 DEF Positions
  <2>1. CASE d = c
    BY <1>1, <2>1 DEF At
  <2>2. CASE d # c
    BY <1>1, <2>2 DEF At, PoolInv, Positions
  <2> QED BY <2>1, <2>2
<1>5. fresh' => fresh /\ NullifierAmounts(idAccount, stored)' = NullifierAmounts(idAccount, stored)
  BY <1>2 DEF Sync, NullifierAmounts
<1>6. (\A d \in Caller : ~At(d, "clear")') => \A d \in Caller : ~At(d, "clear")
  BY <1>1 DEF At
<1>7. PoolSum' = PoolSum
  BY <1>2 DEF PoolSum
<1>8. PoolFilled'
  BY <1>2, <1>5, <1>6, <1>7 DEF PoolInv, PoolFilled
<1> QED BY <1>3, <1>4, <1>8 DEF PoolInv

(* Each step of the network, of a caller, and of the session keeps it.     *)
LEMMA PoolNext ==
  ASSUME PoolInv, MempoolNext
  PROVE  PoolInv'
<1>0. tip \in Nat \ {0} /\ IsFiniteSet(serverTxs) /\ serverTxs \subseteq PoolTx
      /\ call = [d \in Caller |-> call[d]]
  BY DEF PoolInv, PoolTyped
<1>1. ASSUME UNCHANGED <<stored, config, pool, call, fresh>>, tip' \in Nat \ {0},
             IsFiniteSet(serverTxs'), serverTxs' \subseteq PoolTx
      PROVE  PoolInv'
  <2>1. Quiet
    BY <1>0, <1>1 DEF Quiet, At, PoolInv, Positions
  <2> QED BY <2>1, PoolQuiet
<1>2. ASSUME NEW t \in PoolTx, SubmitTx(t) PROVE PoolInv'
  <2>1. IsFiniteSet(serverTxs')
    BY <1>0, <1>2, FS_AddElement DEF SubmitTx
  <2> QED BY <1>0, <1>1, <1>2, <2>1 DEF SubmitTx
<1>3. ASSUME NEW t \in PoolTx, EvictTx(t) PROVE PoolInv'
  <2>1. IsFiniteSet(serverTxs')
    BY <1>0, <1>3, FS_RemoveElement DEF EvictTx
  <2> QED BY <1>0, <1>1, <1>3, <2>1 DEF EvictTx
<1>4. ASSUME NEW T \in SUBSET serverTxs, MineTxs(T) PROVE PoolInv'
  <2>1. serverTxs' \in SUBSET serverTxs /\ tip' = tip + 1
    BY <1>4 DEF MineTxs
  <2>2. IsFiniteSet(serverTxs')
    BY <1>0, <2>1, FS_Subset
  <2> QED BY <1>0, <1>1, <1>4, <2>1, <2>2 DEF MineTxs
<1>5. ASSUME CancelWarp PROVE PoolInv'
  <2>1. UNCHANGED <<tip, serverTxs, stored, config, pool, call, fresh>>
    BY <1>5 DEF CancelWarp, network
  <2> QED BY <1>0, <1>1, <2>1
<1>6. ASSUME NEW c \in Caller,
             \/ StartScan(c) \/ MempoolReset(c) \/ StartWarp(c)
             \/ Snapshot(c) \/ GetLatestHeight(c) \/ ScanFails(c)
             \/ Acquire(c) \/ ClearCanceled(c)
      PROVE  PoolInv'
  <2> DEFINE lockRec == [op |-> call[c].op, pc |-> "lock", account |-> call[c].account,
                         height |-> call[c].height, latest |-> tip]
  <2>1. CASE StartScan(c)
    BY <2>1, QuietGoto DEF StartScan, Begin, At, network
  <2>2. CASE MempoolReset(c)
    BY <2>2, QuietGoto DEF MempoolReset, Begin, At
  <2>3. CASE StartWarp(c)
    BY <2>3, QuietGoto DEF StartWarp, Begin, At
  <2>4. CASE Snapshot(c)
    BY <2>4, QuietGoto DEF Snapshot, At
  <2>5. CASE GetLatestHeight(c)
    <3>1. Goto(c, lockRec) /\ At(c, "connect") /\ UNCHANGED <<network, stored, config, pool, fresh>>
      BY <2>5 DEF GetLatestHeight
    <3>2. lockRec.pc = "lock" /\ lockRec.latest = tip /\ lockRec.height = call[c].height
      OBVIOUS
    <3>3. call[c].height # 0 => height # 0
      BY <3>1 DEF PoolInv, Positions
    <3>4. ~At(c, "clear")
      BY <3>1 DEF At
    <3> HIDE DEF lockRec
    <3> QED BY <1>0, <3>1, <3>2, <3>3, <3>4, QuietGoto
  <2>6. CASE ScanFails(c)
    <3>1. PICK rec : Goto(c, rec) /\ rec.pc \in {"clear_flag", "idle"}
      BY <2>6 DEF ScanFails, Finish, NotCalling
    <3> QED BY <2>6, <3>1, QuietGoto DEF ScanFails, At
  <2>7. CASE Acquire(c)
    BY <2>7, QuietGoto DEF Acquire, At
  <2>8. CASE ClearCanceled(c)
    BY <2>8, QuietGoto DEF ClearCanceled, At, NotCalling
  <2> QED BY <1>6, <2>1, <2>2, <2>3, <2>4, <2>5, <2>6, <2>7, <2>8
<1>7. ASSUME NEW c \in Caller, MempoolStep(c) PROVE PoolInv'
  BY <1>6, <1>7, PoolLockPool, PoolUpdate, PoolClear, PoolSync DEF MempoolStep
<1> QED BY <1>2, <1>3, <1>4, <1>5, <1>6, <1>7, PoolSetAccount DEF MempoolNext

(* The inductive invariant of the memory pool holds in every execution     *)
(* (mempool.rs, and set_active_account, coinconfig.rs:30-37).              *)
THEOREM PoolInvariance == MempoolSpec => []PoolInv
<1>1. MempoolInit => PoolInv
  BY PoolInit
<1>2. PoolInv /\ [MempoolNext]_poolVars => PoolInv'
  <2> SUFFICES ASSUME PoolInv, [MempoolNext]_poolVars PROVE PoolInv'
    OBVIOUS
  <2>1. CASE MempoolNext
    BY <2>1, PoolNext
  <2>2. CASE UNCHANGED poolVars
    <3>1. UNCHANGED <<tip, serverTxs, stored, config, pool, call, fresh>>
      BY <2>2 DEF poolVars, network
    <3>2. Quiet
      BY <3>1 DEF Quiet, At, PoolInv, PoolTyped, Positions
    <3> QED BY <3>2, PoolQuiet
  <2> QED BY <2>1, <2>2
<1> QED BY <1>1, <1>2, PTL DEF MempoolSpec

(* Whatever scans, resets, changes of account and syncs are interleaved,   *)
(* and whatever the server sends again, leaves out or cuts short: from a   *)
(* clear of the pool to the next of the two races that PoolExact names the *)
(* balance is the sum over the transactions the pool knows (mempool.rs).   *)
THEOREM PoolIsExact == MempoolSpec => []PoolExact
<1>1. PoolInv => PoolExact
  <2> SUFFICES ASSUME PoolInv, fresh, \A c \in Caller : ~At(c, "clear")
               PROVE  balance = MapThenSumSet(
                        LAMBDA t : Credit(idAccount, t) - Debit(NullifierAmounts(idAccount, stored), t),
                        DOMAIN known)
    BY DEF PoolExact
  <2> DEFINE N == NullifierAmounts(idAccount, stored)
             S == SumOf(Nets(idAccount, N, DOMAIN known), DOMAIN known)
  <2>1. MapThenSumSet(LAMBDA t : Credit(idAccount, t) - Debit(N, t), DOMAIN known) = S
    BY NetIsSum DEF PoolInv, PoolTyped
  <2>2. balance = S
    <3>1. CASE height = 0
      BY <3>1, SumEmpty DEF PoolInv, PoolFilled
    <3>2. CASE height # 0
      BY <3>2 DEF PoolInv, PoolFilled, PoolSum
    <3> QED BY <3>1, <3>2
  <2> QED BY <2>1, <2>2
<1> QED BY <1>1, PoolInvariance, PTL

-----------------------------------------------------------------------------
(***************************************************************************)
(* A plan is exact, and only its owner can sign it, whatever accounts,     *)
(* notes and requests there are, and however often the active account      *)
(* changes.                                                                *)
(*                                                                         *)
(* What a plan pays is a sum over the outputs of all recipients, cut into  *)
(* parts and joined again; the lemmas add one recipient at a time, for any *)
(* set of addresses.  Tx::sign compares viewing keys only for the notes of *)
(* the plan; for a plan of transparent inputs alone it is the transparent  *)
(* key that must fit.  So the argument needs that a plan has inputs of one *)
(* kind at least (Funded), which follows from the fee: even an empty       *)
(* request costs more than nothing.                                        *)
(***************************************************************************)
(* Sequences of parts: recipients, and outputs *)
Parts(s) == (\E R : s \in Seq(R)) /\ \A n \in DOMAIN s : s[n].amount \in Nat
Amounts(s) == [n \in DOMAIN s |-> s[n].amount]
PaidInto(s, A) == SumOf(Amounts(s), {n \in DOMAIN s : s[n].to \in A})

\* The places of the parts, and of those that go to a set of addresses.
LEMMA PartsDomain ==
  ASSUME NEW s, Parts(s)
  PROVE  /\ Len(s) \in Nat /\ DOMAIN s = 1..Len(s) /\ IsFiniteSet(DOMAIN s)
         /\ \A n \in DOMAIN s : Amounts(s)[n] = s[n].amount /\ Amounts(s)[n] \in Nat
         /\ \A A : IsFiniteSet({n \in DOMAIN s : s[n].to \in A})
<1>1. Len(s) \in Nat /\ DOMAIN s = 1..Len(s)
  BY DEF Parts
<1>2. IsFiniteSet(DOMAIN s)
  BY <1>1, FS_Interval
<1>3. \A n \in DOMAIN s : Amounts(s)[n] = s[n].amount /\ Amounts(s)[n] \in Nat
  BY DEF Parts, Amounts
<1>4. \A A : IsFiniteSet({n \in DOMAIN s : s[n].to \in A})
  BY <1>2, FS_Subset
<1> QED BY <1>1, <1>2, <1>3, <1>4

\* The sums of the model are those of Sums.
LEMMA AmountsSum ==
  ASSUME NEW s, NEW S, IsFiniteSet(S), S \subseteq DOMAIN s
  PROVE  MapThenSumSet(LAMBDA n : s[n].amount, S) = SumOf(Amounts(s), S)
<1> DEFINE P(i) == i = [t \in SUBSET S |->
                     IF t = {} THEN 0 ELSE s[Chosen(t)].amount + i[t \ {Chosen(t)}]]
           c == CHOOSE i : P(i)
<1>1. MapThenSumSet(LAMBDA n : s[n].amount, S) = c[S]
  BY DEF MapThenSumSet, MapThenFoldSet, Chosen
<1>2. ASSUME NEW i PROVE P(i) <=> IsIter(Amounts(s), S, i)
  <2>1. \A t \in SUBSET S : t # {} => Amounts(s)[Chosen(t)] = s[Chosen(t)].amount
    BY DEF Chosen, Amounts
  <2> QED BY <2>1 DEF IsIter
<1>3. P(c)
  <2>1. \E i : P(i)
    BY <1>2, IterExists
  <2> HIDE DEF P
  <2> QED BY <2>1
<1>4. IsIter(Amounts(s), S, c)
  BY <1>2, <1>3
<1> HIDE DEF c
<1>5. c[S] = SumOf(Amounts(s), S)
  BY <1>4, IterIsSum
<1> QED BY <1>1, <1>5

\* So is the fold of their amounts.
LEMMA TotalIsSum ==
  ASSUME NEW s, IsFiniteSet(DOMAIN s)
  PROVE  Total(s) = SumOf(Amounts(s), DOMAIN s)
<1> DEFINE S == DOMAIN s
           P(i) == i = [t \in SUBSET S |->
                     IF t = {} THEN 0 ELSE s[Chosen(t)].amount + i[t \ {Chosen(t)}]]
           c == CHOOSE i : P(i)
<1>1. Total(s) = c[S]
  BY DEF Total, FoldSeq, FoldFunction, FoldFunctionOnSet, MapThenFoldSet, Chosen
<1>2. ASSUME NEW i PROVE P(i) <=> IsIter(Amounts(s), S, i)
  <2>1. \A t \in SUBSET S : t # {} => Amounts(s)[Chosen(t)] = s[Chosen(t)].amount
    BY DEF Chosen, Amounts
  <2> QED BY <2>1 DEF IsIter
<1>3. P(c)
  <2>1. \E i : P(i)
    BY <1>2, IterExists
  <2> HIDE DEF P
  <2> QED BY <2>1
<1>4. IsIter(Amounts(s), S, c)
  BY <1>2, <1>3
<1> HIDE DEF c
<1>5. c[S] = SumOf(Amounts(s), S)
  BY <1>4, IterIsSum
<1> QED BY <1>1, <1>5

\* What goes to one address.
LEMMA PaidToIsSum ==
  ASSUME NEW s, Parts(s), NEW a
  PROVE  PaidTo(s, a) = PaidInto(s, {a})
<1> DEFINE S == {n \in DOMAIN s : s[n].to = a}
<1>1. S = {n \in DOMAIN s : s[n].to \in {a}}
  OBVIOUS
<1>2. IsFiniteSet(S)
  BY <1>1, PartsDomain
<1>3. MapThenSumSet(LAMBDA n : s[n].amount, S) = SumOf(Amounts(s), S)
  BY <1>2, AmountsSum
<1> QED BY <1>1, <1>3 DEF PaidTo, PaidInto

\* What goes to all addresses there are.
LEMMA TotalIsPaid ==
  ASSUME NEW s, Parts(s), NEW A, \A n \in DOMAIN s : s[n].to \in A
  PROVE  Total(s) = PaidInto(s, A) /\ Total(s) \in Nat
<1>1. {n \in DOMAIN s : s[n].to \in A} = DOMAIN s
  OBVIOUS
<1>2. IsFiniteSet(DOMAIN s) /\ \A n \in DOMAIN s : Amounts(s)[n] \in Nat
  BY PartsDomain
<1>3. SumOf(Amounts(s), DOMAIN s) \in Nat
  BY <1>2, SumPositive
<1> QED BY <1>1, <1>2, <1>3, TotalIsSum DEF PaidInto

\* Two sequences one after the other pay what both pay.
LEMMA ConcatPays ==
  ASSUME NEW s, Parts(s), NEW t, Parts(t), NEW A
  PROVE  /\ Parts(s \o t)
         /\ PaidInto(s \o t, A) = PaidInto(s, A) + PaidInto(t, A)
<1> DEFINE u == s \o t
           m == Len(s)
           S == {n \in DOMAIN s : s[n].to \in A}
           T == {n \in DOMAIN t : t[n].to \in A}
           U == {n \in DOMAIN u : u[n].to \in A}
           h == [n \in DOMAIN t |-> n + m]
           V == {h[n] : n \in T}
<1>1. /\ m \in Nat /\ DOMAIN s = 1..m /\ Len(t) \in Nat /\ DOMAIN t = 1..Len(t)
      /\ IsFiniteSet(S) /\ IsFiniteSet(T)
  BY PartsDomain
<1>2. \E R : s \in Seq(R) /\ t \in Seq(R)
  <2>1. PICK R1 : s \in Seq(R1)
    BY DEF Parts
  <2>2. PICK R2 : t \in Seq(R2)
    BY DEF Parts
  <2>3. s \in Seq(R1 \cup R2) /\ t \in Seq(R1 \cup R2)
    BY <2>1, <2>2
  <2> QED BY <2>3
<1>3. PICK R : s \in Seq(R) /\ t \in Seq(R)
  BY <1>2
<1>4. /\ u \in Seq(R) /\ DOMAIN u = 1..(m + Len(t))
      /\ \A n \in 1..m : u[n] = s[n]
      /\ \A n \in 1..Len(t) : u[n + m] = t[n]
      /\ \A n \in DOMAIN u : n \in 1..m \/ \E k \in 1..Len(t) : n = k + m
  <2>1. u \in Seq(R) /\ Len(u) = m + Len(t)
    BY <1>3, ConcatProperties
  <2>2. \A n \in 1..Len(u) : u[n] = IF n <= m THEN s[n] ELSE t[n - m]
    BY <1>3, ConcatProperties
  <2>3. \A n \in 1..m : u[n] = s[n]
    BY <1>1, <2>1, <2>2
  <2>4. \A n \in 1..Len(t) : u[n + m] = t[n]
    <3> SUFFICES ASSUME NEW n \in 1..Len(t) PROVE u[n + m] = t[n]
      OBVIOUS
    <3>1. n + m \in 1..Len(u) /\ ~(n + m <= m) /\ (n + m) - m = n
      BY <1>1, <2>1
    <3> HIDE DEF u, m
    <3> QED BY <2>2, <3>1
  <2>5. \A n \in 1..Len(u) : n \in 1..m \/ (n - m \in 1..Len(t) /\ n = (n - m) + m)
    BY <1>1, <2>1
  <2>6. DOMAIN u = 1..Len(u)
    BY <2>1
  <2> HIDE DEF u, m
  <2> QED BY <2>1, <2>3, <2>4, <2>5, <2>6
<1> HIDE DEF u
<1>5. Parts(u)
  <2>1. \A n \in DOMAIN u : u[n].amount \in Nat
    BY <1>1, <1>4 DEF Parts
  <2> QED BY <1>4, <2>1 DEF Parts
<1>6. U = S \cup V /\ S \cap V = {}
  <2>1. \A n \in DOMAIN t : h[n] = n + m
    OBVIOUS
  <2>2. \A n \in DOMAIN u : n \in U <=> n \in S \/ n \in V
    <3> SUFFICES ASSUME NEW n \in DOMAIN u PROVE n \in U <=> n \in S \/ n \in V
      OBVIOUS
    <3>1. CASE n \in 1..m
      <4>1. n \notin V
        BY <1>1, <2>1, <3>1
      <4>2. n \in U <=> n \in S
        BY <1>1, <1>4, <3>1
      <4> QED BY <4>1, <4>2
    <3>2. CASE n \notin 1..m
      <4>1. PICK k \in 1..Len(t) : n = k + m
        BY <1>4, <3>2
      <4>2. n \notin S
        BY <1>1, <3>2
      <4>3. n \in U <=> k \in T
        BY <1>1, <1>4, <4>1
      <4>4. n \in V <=> k \in T
        BY <1>1, <2>1, <4>1
      <4> QED BY <4>2, <4>3, <4>4
    <3> QED BY <3>1, <3>2
  <2>3. S \subseteq DOMAIN u /\ V \subseteq DOMAIN u
    BY <1>1, <1>4, <2>1
  <2>4. S \cap V = {}
    BY <1>1, <2>1
  <2> QED BY <2>2, <2>3, <2>4
<1>7. IsFiniteSet(V) /\ SumOf(Amounts(u), V) = SumOf(Amounts(t), T)
  <2>1. \A n \in T : Amounts(t)[n] \in Int /\ Amounts(u)[h[n]] = Amounts(t)[n]
    <3> SUFFICES ASSUME NEW n \in T
                 PROVE  Amounts(t)[n] \in Int /\ Amounts(u)[h[n]] = Amounts(t)[n]
      OBVIOUS
    <3>1. n \in DOMAIN t /\ h[n] = n + m /\ u[n + m] = t[n]
      BY <1>1, <1>4
    <3>2. n + m \in DOMAIN u
      BY <1>1, <1>4, <3>1
    <3>3. Amounts(u)[n + m] = u[n + m].amount
      BY <3>2 DEF Amounts
    <3>4. Amounts(t)[n] = t[n].amount /\ Amounts(t)[n] \in Nat
      BY <3>1, PartsDomain
    <3> QED BY <3>1, <3>3, <3>4
  <2>2. \A n, k \in T : h[n] = h[k] => n = k
    BY <1>1
  <2>3. V = {h[n] : n \in T}
    OBVIOUS
  <2> HIDE DEF h, T, V
  <2>4. IsFiniteSet({h[n] : n \in T}) /\ SumOf(Amounts(u), {h[n] : n \in T}) = SumOf(Amounts(t), T)
    <3> DEFINE f == Amounts(t)
               g == Amounts(u)
    <3>1. Renames(f, T, g, h)
      BY <1>1, <2>1, <2>2 DEF Renames
    <3> HIDE DEF f, g
    <3>2. SumOf(g, {h[x] : x \in T}) = SumOf(f, T) /\ IsFiniteSet({h[x] : x \in T})
      BY <3>1, SumRenamed
    <3> QED BY <3>2 DEF f, g
  <2> QED BY <2>3, <2>4
<1>8. SumOf(Amounts(u), S) = SumOf(Amounts(s), S)
  <2>1. \A n \in S : Amounts(u)[n] = Amounts(s)[n]
    BY <1>1, <1>4 DEF Amounts
  <2> HIDE DEF S
  <2> QED BY <1>1, <2>1, SumSame
<1>9. SumOf(Amounts(u), S \cup V) = SumOf(Amounts(u), S) + SumOf(Amounts(u), V)
  <2>1. \A n \in S \cup V : Amounts(u)[n] \in Int
    <3>1. S \cup V \subseteq DOMAIN u
      BY <1>6
    <3> HIDE DEF S, V
    <3> QED BY <1>5, <3>1, PartsDomain
  <2> HIDE DEF S, V
  <2> QED BY <1>1, <1>6, <1>7, <2>1, SumUnion
<1> QED BY <1>5, <1>6, <1>7, <1>8, <1>9 DEF PaidInto, u

-----------------------------------------------------------------------------
(* The outputs of a recipient *)
SplitMax(r) == IF r.max = 0 THEN MaxMoney ELSE r.max
SplitCount(r) == Max({1, (r.amount + SplitMax(r) - 1) \div SplitMax(r)})

\* A quotient that is rounded up.
LEMMA Rounded ==
  ASSUME NEW a \in Nat, NEW m \in Nat \ {0}, NEW q, q = (a + m - 1) \div m
  PROVE  q \in Nat /\ q * m <= a + m - 1 /\ a <= q * m
OBVIOUS

\* Max of two numbers.
LEMMA LargerOfTwo ==
  ASSUME NEW a \in Int, NEW b \in Int
  PROVE  Max({a, b}) = IF a >= b THEN a ELSE b
<1> DEFINE c == IF a >= b THEN a ELSE b
           m == CHOOSE x \in {a, b} : \A y \in {a, b} : x >= y
<1>1. Max({a, b}) = m
  BY DEF Max
<1>2. c \in {a, b} /\ \A y \in {a, b} : c >= y
  OBVIOUS
<1>3. m \in {a, b} /\ \A y \in {a, b} : m >= y
  BY <1>2
<1> HIDE DEF m
<1> QED BY <1>1, <1>2, <1>3

\* All but the last are of the maximum, and the last is not more.
LEMMA SplitParts ==
  ASSUME NEW r, r.amount \in Nat, r.max \in Nat
  PROVE  LET k == SplitCount(r)
             m == SplitMax(r)
         IN  /\ m \in Nat \ {0} /\ (r.max # 0 => m = r.max)
             /\ k \in Nat \ {0} /\ Split(r) = [n \in 1..k |-> IF n < k THEN m ELSE r.amount - (k - 1) * m]
             /\ (k - 1) * m \in Nat /\ (k - 1) * m <= r.amount /\ r.amount - (k - 1) * m <= m
<1> DEFINE k == SplitCount(r)
           m == SplitMax(r)
           q == (r.amount + m - 1) \div m
<1>1. m \in Nat \ {0} /\ (r.max # 0 => m = r.max)
  BY PlanAssumption DEF SplitMax
<1>2. Split(r) = [n \in 1..k |-> IF n < k THEN m ELSE r.amount - (k - 1) * m]
  BY DEF Split, SplitCount, SplitMax
<1>3. k = Max({1, q})
  BY DEF SplitCount
<1> HIDE DEF k, m
<1>4. q \in Nat /\ q * m <= r.amount + m - 1 /\ r.amount <= q * m
  BY <1>1, Rounded
<1> HIDE DEF q
<1>5. k = IF 1 >= q THEN 1 ELSE q
  BY <1>3, <1>4, LargerOfTwo
<1>6. CASE q <= 1
  <2>1. k = 1 /\ (k - 1) * m = 0
    BY <1>1, <1>4, <1>5, <1>6
  <2>2. q * m <= m
    <3>1. q = 0 \/ q = 1
      BY <1>4, <1>6
    <3> QED BY <1>1, <3>1
  <2>3. r.amount <= m
    BY <1>1, <1>4, <2>2
  <2> QED BY <1>1, <1>2, <2>1, <2>3 DEF k, m
<1>7. CASE q > 1
  <2>1. k = q
    BY <1>4, <1>5, <1>7
  <2>2. (k - 1) * m = q * m - m /\ q * m \in Nat
    BY <1>1, <1>4, <2>1
  <2>3. (k - 1) * m <= r.amount /\ r.amount - (k - 1) * m <= m /\ (k - 1) * m \in Int
    BY <1>1, <1>4, <2>2
  <2>4. (k - 1) * m \in Nat
    BY <1>1, <1>4, <1>7, <2>1
  <2> QED BY <1>1, <1>2, <1>4, <1>7, <2>1, <2>3, <2>4 DEF k, m
<1> QED BY <1>4, <1>6, <1>7

\* Together they are the amount.
LEMMA SplitSum ==
  ASSUME NEW r, r.amount \in Nat, r.max \in Nat
  PROVE  /\ DOMAIN Split(r) = 1..SplitCount(r) /\ SplitCount(r) \in Nat \ {0}
         /\ \A n \in DOMAIN Split(r) : Split(r)[n] \in Nat /\ (r.max # 0 => Split(r)[n] <= r.max)
         /\ SumOf(Split(r), DOMAIN Split(r)) = r.amount
<1> DEFINE k == SplitCount(r)
           m == SplitMax(r)
           f == Split(r)
           rest == r.amount - (k - 1) * m
           Bad == {j \in Nat : j < k /\ SumOf(f, 1..j) # j * m}
<1>1. /\ m \in Nat \ {0} /\ (r.max # 0 => m = r.max)
      /\ k \in Nat \ {0} /\ f = [n \in 1..k |-> IF n < k THEN m ELSE rest]
      /\ (k - 1) * m \in Nat /\ (k - 1) * m <= r.amount /\ rest <= m
  BY SplitParts
<1>2. rest \in Nat
  BY <1>1
<1> HIDE DEF k, m, f, rest
<1>3. \A n \in 1..k : f[n] = IF n < k THEN m ELSE rest
  BY <1>1
<1>4. DOMAIN f = 1..k /\ \A n \in 1..k : f[n] \in Nat /\ f[n] <= m
  BY <1>1, <1>2, <1>3
<1>5. Bad = {}
  <2> SUFFICES ASSUME Bad # {} PROVE FALSE
    OBVIOUS
  <2>1. PICK j \in Bad : \A i \in Bad : j <= i
    <3>1. Bad \subseteq Nat
      OBVIOUS
    <3> HIDE DEF Bad
    <3> QED BY <3>1, LeastNumber
  <2>2. j \in Nat /\ j < k /\ SumOf(f, 1..j) # j * m
    OBVIOUS
  <2>3. j # 0
    <3>1. 1..0 = {} /\ 0 * m = 0
      BY <1>1
    <3> QED BY <2>2, <3>1, SumEmpty
  <2>4. SumOf(f, 1..(j - 1)) = (j - 1) * m
    <3>1. j - 1 \in Nat /\ j - 1 < k /\ ~(j <= j - 1)
      BY <1>1, <2>2, <2>3
    <3> QED BY <2>1, <3>1
  <2>5. 1..j = (1..(j - 1)) \cup {j} /\ j \notin 1..(j - 1) /\ IsFiniteSet(1..(j - 1))
    <3>1. j - 1 \in Int /\ 1 \in Int
      BY <2>2
    <3>2. IsFiniteSet(1..(j - 1))
      BY <3>1, FS_Interval
    <3>3. 1..j = (1..(j - 1)) \cup {j} /\ j \notin 1..(j - 1)
      BY <2>2, <2>3
    <3> QED BY <3>2, <3>3
  <2>6. \A n \in 1..j : f[n] \in Int
    BY <1>1, <1>4, <2>2
  <2>7. SumOf(f, 1..j) = f[j] + SumOf(f, 1..(j - 1))
    BY <2>5, <2>6, SumAdd
  <2>8. f[j] = m
    BY <1>1, <1>3, <2>2, <2>3
  <2>9. m + (j - 1) * m = j * m
    BY <1>1, <2>2
  <2> QED BY <2>2, <2>4, <2>7, <2>8, <2>9
<1>6. SumOf(f, 1..(k - 1)) = (k - 1) * m
  BY <1>1, <1>5
<1>7. 1..k = (1..(k - 1)) \cup {k} /\ k \notin 1..(k - 1) /\ IsFiniteSet(1..(k - 1))
  <2>1. k - 1 \in Int /\ 1 \in Int
    BY <1>1
  <2>2. IsFiniteSet(1..(k - 1))
    BY <2>1, FS_Interval
  <2>3. 1..k = (1..(k - 1)) \cup {k} /\ k \notin 1..(k - 1)
    BY <1>1
  <2> QED BY <2>2, <2>3
<1>8. SumOf(f, 1..k) = f[k] + SumOf(f, 1..(k - 1))
  <2>1. \A n \in 1..k : f[n] \in Int
    BY <1>4
  <2> QED BY <1>7, <2>1, SumAdd
<1>9. f[k] = rest
  BY <1>1, <1>3
<1>10. rest + (k - 1) * m = r.amount
  BY <1>1 DEF rest
<1>11. \A n \in 1..k : r.max # 0 => f[n] <= r.max
  BY <1>1, <1>4
<1>12. SumOf(f, 1..k) = r.amount
  BY <1>6, <1>8, <1>9, <1>10
<1> QED BY <1>1, <1>4, <1>11, <1>12 DEF f, k

\* The outputs of one recipient pay its amount, to its address alone.
LEMMA OutputsOfPay ==
  ASSUME NEW r, r.amount \in Nat, r.max \in Nat
  PROVE  LET s == OutputsOf(r)
         IN  /\ Parts(s) /\ DOMAIN s # {}
             /\ \A n \in DOMAIN s : PartOf(s[n], r) /\ s[n].to = r.to
             /\ \A A : PaidInto(s, A) = IF r.to \in A THEN r.amount ELSE 0
<1> DEFINE s == OutputsOf(r)
           f == Split(r)
           k == SplitCount(r)
           memo == IF r.to \in TAddress THEN NoMemo ELSE r.memo
<1>1. /\ DOMAIN f = 1..k /\ k \in Nat \ {0}
      /\ \A n \in DOMAIN f : f[n] \in Nat /\ (r.max # 0 => f[n] <= r.max)
      /\ SumOf(f, DOMAIN f) = r.amount
  BY SplitSum
<1>2. s = [n \in DOMAIN f |-> [to |-> r.to, amount |-> f[n], memo |-> memo]]
  BY DEF OutputsOf
<1> HIDE DEF s, f, k
<1>3. DOMAIN s = 1..k /\ \A n \in 1..k : s[n] = [to |-> r.to, amount |-> f[n], memo |-> memo]
  BY <1>1, <1>2
<1>4. Parts(s)
  <2>1. s \in Seq({s[n] : n \in 1..k})
    <3> DEFINE R == {s[n] : n \in 1..k}
    <3>1. s = [n \in 1..k |-> s[n]]
      BY <1>1, <1>2
    <3>2. s \in [1..k -> R]
      BY <3>1
    <3> HIDE DEF R
    <3>3. s \in Seq(R)
      BY <1>1, <3>2
    <3> QED BY <3>3 DEF R
  <2>2. \A n \in DOMAIN s : s[n].amount \in Nat
    BY <1>1, <1>3
  <2> QED BY <2>1, <2>2 DEF Parts
<1>5. \A n \in DOMAIN s : PartOf(s[n], r) /\ s[n].to = r.to
  BY <1>1, <1>3 DEF PartOf
<1>6. ASSUME NEW A PROVE PaidInto(s, A) = IF r.to \in A THEN r.amount ELSE 0
  <2>1. CASE r.to \in A
    <3>1. {n \in DOMAIN s : s[n].to \in A} = DOMAIN f
      BY <1>1, <1>3, <2>1
    <3>2. \A n \in DOMAIN f : Amounts(s)[n] = f[n]
      BY <1>1, <1>3 DEF Amounts
    <3>3. IsFiniteSet(DOMAIN f)
      BY <1>1, FS_Interval
    <3>4. SumOf(Amounts(s), DOMAIN f) = SumOf(f, DOMAIN f)
      BY <3>2, <3>3, SumSame
    <3> QED BY <1>1, <2>1, <3>1, <3>4 DEF PaidInto
  <2>2. CASE r.to \notin A
    <3>1. {n \in DOMAIN s : s[n].to \in A} = {}
      BY <1>3, <2>2
    <3> QED BY <2>2, <3>1, SumEmpty DEF PaidInto
  <2> QED BY <2>1, <2>2
<1>7. DOMAIN s # {}
  BY <1>1, <1>3
<1> QED BY <1>4, <1>5, <1>6, <1>7 DEF s

-----------------------------------------------------------------------------
(* The outputs of all recipients *)
Recipients(s) ==
    /\ s \in Seq(ToSet(s)) /\ \A r \in ToSet(s) : r.amount \in Nat /\ r.max \in Nat

\* Recipients have an address and an amount, as outputs do.
LEMMA RecipientsAreParts ==
  ASSUME NEW s, Recipients(s)
  PROVE  /\ Parts(s) /\ Len(s) \in Nat /\ DOMAIN s = 1..Len(s)
         /\ \A n \in 1..Len(s) : s[n] \in ToSet(s) /\ s[n].amount \in Nat /\ s[n].max \in Nat
         /\ \A r \in ToSet(s) : \E n \in 1..Len(s) : r = s[n]
<1>1. Len(s) \in Nat /\ DOMAIN s = 1..Len(s)
  BY DEF Recipients
<1>2. \A n \in 1..Len(s) : s[n] \in ToSet(s)
  BY <1>1 DEF ToSet
<1>3. \A r \in ToSet(s) : \E n \in 1..Len(s) : r = s[n]
  BY <1>1 DEF ToSet
<1>4. \A n \in 1..Len(s) : s[n].amount \in Nat /\ s[n].max \in Nat
  BY <1>2 DEF Recipients
<1>5. Parts(s)
  BY <1>1, <1>4 DEF Parts, Recipients
<1> QED BY <1>1, <1>2, <1>3, <1>4, <1>5

\* s is made of the outputs of the first i recipients.
OutputsFor(recs, i, s) ==
    /\ Parts(s)
    /\ \A n \in DOMAIN s : \E j \in 1..i : PartOf(s[n], recs[j])
    /\ \A j \in 1..i : \E n \in DOMAIN s : PartOf(s[n], recs[j])
    /\ \A A : PaidInto(s, A) = SumOf(Amounts(recs), {j \in 1..i : recs[j].to \in A})

\* The outputs of one more recipient.
LEMMA OneMore ==
  ASSUME NEW recs, Recipients(recs), NEW i \in Nat, i + 1 <= Len(recs),
         NEW s, OutputsFor(recs, i, s)
  PROVE  OutputsFor(recs, i + 1, s \o OutputsOf(recs[i + 1]))
<1> DEFINE r == recs[i + 1]
           t == OutputsOf(r)
           u == s \o t
<1>1. /\ DOMAIN recs = 1..Len(recs) /\ Len(recs) \in Nat /\ i + 1 \in 1..Len(recs)
      /\ r.amount \in Nat /\ r.max \in Nat
      /\ \A j \in 1..Len(recs) : recs[j].amount \in Nat
  BY RecipientsAreParts
<1>2. /\ Parts(t) /\ DOMAIN t # {}
      /\ \A n \in DOMAIN t : PartOf(t[n], r)
      /\ \A A : PaidInto(t, A) = IF r.to \in A THEN r.amount ELSE 0
  BY <1>1, OutputsOfPay
<1> HIDE DEF t
<1>3. Parts(s)
  BY DEF OutputsFor
<1>4. Parts(u) /\ \A A : PaidInto(u, A) = PaidInto(s, A) + PaidInto(t, A)
  BY <1>2, <1>3, ConcatPays
<1>5. /\ \A n \in DOMAIN u : (\E k \in DOMAIN s : u[n] = s[k]) \/ (\E k \in DOMAIN t : u[n] = t[k])
      /\ \A k \in DOMAIN s : \E n \in DOMAIN u : u[n] = s[k]
      /\ \A k \in DOMAIN t : \E n \in DOMAIN u : u[n] = t[k]
  <2>1. /\ Len(s) \in Nat /\ DOMAIN s = 1..Len(s) /\ Len(t) \in Nat /\ DOMAIN t = 1..Len(t)
    BY <1>2, <1>3, PartsDomain
  <2>2. PICK R1 : s \in Seq(R1)
    BY <1>3 DEF Parts
  <2>3. PICK R2 : t \in Seq(R2)
    BY <1>2 DEF Parts
  <2>4. s \in Seq(R1 \cup R2) /\ t \in Seq(R1 \cup R2)
    BY <2>2, <2>3
  <2>5. /\ Len(u) = Len(s) + Len(t) /\ DOMAIN u = 1..Len(u)
        /\ \A n \in 1..Len(u) : u[n] = IF n <= Len(s) THEN s[n] ELSE t[n - Len(s)]
    BY <2>4, ConcatProperties
  <2> HIDE DEF u
  <2>6. \A n \in DOMAIN u : (\E k \in DOMAIN s : u[n] = s[k]) \/ (\E k \in DOMAIN t : u[n] = t[k])
    <3> SUFFICES ASSUME NEW n \in 1..Len(u)
                 PROVE  (\E k \in DOMAIN s : u[n] = s[k]) \/ (\E k \in DOMAIN t : u[n] = t[k])
      BY <2>5
    <3>1. CASE n <= Len(s)
      BY <2>1, <2>5, <3>1
    <3>2. CASE ~(n <= Len(s))
      <4>1. n - Len(s) \in DOMAIN t
        BY <2>1, <2>5, <3>2
      <4> QED BY <2>5, <3>2, <4>1
    <3> QED BY <3>1, <3>2
  <2>7. \A k \in DOMAIN s : k \in DOMAIN u /\ u[k] = s[k]
    BY <2>1, <2>5
  <2>8. ASSUME NEW k \in DOMAIN t PROVE k + Len(s) \in DOMAIN u /\ u[k + Len(s)] = t[k]
    <3>1. k + Len(s) \in 1..Len(u) /\ ~(k + Len(s) <= Len(s)) /\ (k + Len(s)) - Len(s) = k
      BY <2>1, <2>5
    <3> QED BY <2>5, <3>1
  <2> QED BY <2>6, <2>7, <2>8
<1> HIDE DEF u
<1>6. \A n \in DOMAIN u : \E j \in 1..(i + 1) : PartOf(u[n], recs[j])
  <2>1. \A k \in DOMAIN s : \E j \in 1..(i + 1) : PartOf(s[k], recs[j])
    BY DEF OutputsFor
  <2>2. \A k \in DOMAIN t : PartOf(t[k], recs[i + 1]) /\ i + 1 \in 1..(i + 1)
    BY <1>2
  <2> QED BY <1>5, <2>1, <2>2
<1>7. \A j \in 1..(i + 1) : \E n \in DOMAIN u : PartOf(u[n], recs[j])
  <2> SUFFICES ASSUME NEW j \in 1..(i + 1) PROVE \E n \in DOMAIN u : PartOf(u[n], recs[j])
    OBVIOUS
  <2>1. CASE j = i + 1
    BY <1>2, <1>5, <2>1
  <2>2. CASE j \in 1..i
    <3>1. \E k \in DOMAIN s : PartOf(s[k], recs[j])
      BY <2>2 DEF OutputsFor
    <3> QED BY <1>5, <3>1
  <2> QED BY <2>1, <2>2
<1>8. ASSUME NEW A
      PROVE  PaidInto(u, A) = SumOf(Amounts(recs), {j \in 1..(i + 1) : recs[j].to \in A})
  <2> DEFINE S == {j \in 1..i : recs[j].to \in A}
             T == {j \in 1..(i + 1) : recs[j].to \in A}
             f == Amounts(recs)
  <2>1. PaidInto(u, A) = SumOf(f, S) + IF r.to \in A THEN r.amount ELSE 0
    <3>1. PaidInto(s, A) = SumOf(f, S)
      BY DEF OutputsFor
    <3> QED BY <1>2, <1>4, <3>1
  <2>2. \A j \in T : f[j] \in Int
    BY <1>1 DEF Amounts
  <2>3. IsFiniteSet(S) /\ S \subseteq T
    <3>1. IsFiniteSet(1..i)
      BY FS_Interval
    <3> QED BY <3>1, FS_Subset
  <2>4. SumOf(f, S) \in Int
    <3>1. \A j \in S : f[j] \in Int
      BY <2>2, <2>3
    <3> HIDE DEF S
    <3> QED BY <2>3, <3>1, SumType
  <2>5. CASE r.to \in A
    <3>1. T = S \cup {i + 1} /\ i + 1 \notin S
      BY <2>5
    <3>2. f[i + 1] = r.amount
      BY <1>1 DEF Amounts
    <3>3. PaidInto(u, A) = SumOf(f, S) + r.amount
      BY <2>1, <2>5
    <3> HIDE DEF S, T, f
    <3>4. \A j \in S \cup {i + 1} : f[j] \in Int
      BY <2>2, <3>1
    <3>5. SumOf(f, S \cup {i + 1}) = f[i + 1] + SumOf(f, S)
      BY <2>3, <3>1, <3>4, SumAdd
    <3>6. PaidInto(u, A) = SumOf(f, T)
      BY <1>1, <2>4, <3>1, <3>2, <3>3, <3>5
    <3> QED BY <3>6 DEF T, f
  <2>6. CASE r.to \notin A
    <3>1. T = S
      BY <2>6
    <3>2. PaidInto(u, A) = SumOf(f, S) + 0
      BY <2>1, <2>6
    <3> HIDE DEF S, T, f
    <3>3. PaidInto(u, A) = SumOf(f, T)
      BY <2>4, <3>1, <3>2
    <3> QED BY <3>3 DEF T, f
  <2> QED BY <2>5, <2>6
<1> QED BY <1>4, <1>6, <1>7, <1>8 DEF OutputsFor, u, t

\* The outputs of all recipients, one after the other.
LEMMA OutputsForAll ==
  ASSUME NEW recs, Recipients(recs)
  PROVE  OutputsFor(recs, Len(recs), SelectOutputs(recs))
<1> DEFINE ss == [n \in DOMAIN recs |-> OutputsOf(recs[n])]
           N == Len(recs)
<1>1. N \in Nat /\ DOMAIN recs = 1..N
  BY RecipientsAreParts
<1>2. Len(ss) = N /\ DOMAIN ss = 1..N /\ \A n \in 1..N : ss[n] = OutputsOf(recs[n])
  BY <1>1
<1>3. SelectOutputs(recs) = FlattenSeq(ss)
  BY DEF SelectOutputs
<1> HIDE DEF ss
<1>4. OutputsFor(recs, 0, << >>)
  <2>1. Parts(<< >>)
    <3>1. << >> \in Seq({}) /\ DOMAIN << >> = {}
      OBVIOUS
    <3> QED BY <3>1 DEF Parts
  <2>2. \A A : PaidInto(<< >>, A) = 0
    <3> SUFFICES ASSUME NEW A PROVE PaidInto(<< >>, A) = 0
      OBVIOUS
    <3>1. {n \in DOMAIN << >> : << >>[n].to \in A} = {}
      OBVIOUS
    <3> QED BY <3>1, SumEmpty DEF PaidInto
  <2>3. \A A : SumOf(Amounts(recs), {j \in 1..0 : recs[j].to \in A}) = 0
    <3> SUFFICES ASSUME NEW A PROVE SumOf(Amounts(recs), {j \in 1..0 : recs[j].to \in A}) = 0
      OBVIOUS
    <3>1. {j \in 1..0 : recs[j].to \in A} = {}
      OBVIOUS
    <3> QED BY <3>1, SumEmpty
  <2>4. DOMAIN << >> = {} /\ 1..0 = {}
    OBVIOUS
  <2> QED BY <2>1, <2>2, <2>3, <2>4 DEF OutputsFor
<1>5. CASE N = 0
  <2>1. FlattenSeq(ss) = << >>
    BY <1>2, <1>5 DEF FlattenSeq
  <2> QED BY <1>3, <1>4, <1>5, <2>1
<1>6. CASE N # 0
  <2>1. PICK F : IsFlatten(ss, F) /\ FlattenSeq(ss) = F[N]
    BY <1>1, <1>2, <1>6, FlattenIs
  <2> DEFINE Bad == {i \in Nat : 1 <= i /\ i <= N /\ ~OutputsFor(recs, i, F[i])}
  <2>2. \A i \in 1..N : F[i] = IF i = 1 THEN ss[i] ELSE F[i - 1] \o ss[i]
    BY <1>2, <2>1 DEF IsFlatten
  <2>3. Bad = {}
    <3> SUFFICES ASSUME Bad # {} PROVE FALSE
      OBVIOUS
    <3>1. PICK i \in Bad : \A j \in Bad : i <= j
      <4>1. Bad \subseteq Nat
        OBVIOUS
      <4> HIDE DEF Bad
      <4> QED BY <4>1, LeastNumber
    <3>2. i \in Nat /\ 1 <= i /\ i <= N /\ ~OutputsFor(recs, i, F[i])
      OBVIOUS
    <3>3. CASE i = 1
      <4>1. F[1] = OutputsOf(recs[1])
        BY <1>2, <2>2, <3>2, <3>3
      <4>2. << >> \o OutputsOf(recs[1]) = OutputsOf(recs[1])
        <5>1. Parts(OutputsOf(recs[1]))
          BY <1>1, <1>6, OutputsOfPay, RecipientsAreParts
        <5>2. PICK R : OutputsOf(recs[1]) \in Seq(R)
          BY <5>1 DEF Parts
        <5> QED BY <5>2
      <4>3. 0 \in Nat /\ 0 + 1 <= Len(recs) /\ 0 + 1 = 1
        BY <1>1, <1>6
      <4>4. OutputsFor(recs, 0 + 1, << >> \o OutputsOf(recs[0 + 1]))
        BY <1>4, <4>3, OneMore
      <4> QED BY <3>2, <3>3, <4>1, <4>2, <4>3, <4>4
    <3>4. CASE i # 1
      <4>1. i - 1 \in Nat /\ 1 <= i - 1 /\ i - 1 <= N /\ ~(i <= i - 1) /\ (i - 1) + 1 = i
        BY <1>1, <3>2, <3>4
      <4>2. OutputsFor(recs, i - 1, F[i - 1])
        BY <3>1, <4>1
      <4>3. OutputsFor(recs, (i - 1) + 1, F[i - 1] \o OutputsOf(recs[(i - 1) + 1]))
        BY <3>2, <4>1, <4>2, OneMore
      <4>4. i \in 1..N
        BY <1>1, <3>2
      <4>5. F[i] = F[i - 1] \o OutputsOf(recs[i])
        BY <1>2, <2>2, <3>4, <4>4
      <4> QED BY <3>2, <4>1, <4>3, <4>5
    <3> QED BY <3>3, <3>4
  <2>4. OutputsFor(recs, N, F[N])
    BY <1>1, <1>6, <2>3
  <2> QED BY <1>3, <2>1, <2>4
<1> QED BY <1>5, <1>6

\* Requests are recipients, and stay so when the reply-to address is filled in.
LEMMA ParsedAreRecipients ==
    ASSUME NEW a, NEW r \in Requests \cup {<< >>}
    PROVE  Recipients(Parsed(a, r))
<1> DEFINE s == Parsed(a, r)
<1>1. /\ Len(r) \in Nat /\ DOMAIN r = 1..Len(r)
      /\ \A n \in 1..Len(r) : r[n].amount \in Nat /\ r[n].max \in Nat
  <2>1. CASE r = << >>
    BY <2>1
  <2>2. CASE r \in Requests
    <3>1. r \in Seq(ToSet(r)) /\ \A x \in ToSet(r) : x.amount \in Nat /\ x.max \in Nat
      BY <2>2, PlanAssumption
    <3>2. Len(r) \in Nat /\ DOMAIN r = 1..Len(r) /\ \A n \in 1..Len(r) : r[n] \in ToSet(r)
      BY <3>1
    <3> QED BY <3>1, <3>2
  <2> QED BY <2>1, <2>2
<1>2. s = [n \in 1..Len(r) |-> FromRecipient(a, r[n])]
  BY <1>1 DEF Parsed
<1> HIDE DEF s
<1>3. \A n \in 1..Len(r) : s[n].amount = r[n].amount /\ s[n].max = r[n].max
  BY <1>2 DEF FromRecipient
<1>4. DOMAIN s = 1..Len(r)
  BY <1>2
<1>5. s \in Seq(ToSet(s))
  <2>1. \A n \in 1..Len(r) : s[n] \in ToSet(s)
    BY <1>4 DEF ToSet
  <2>2. s \in [1..Len(r) -> ToSet(s)]
    BY <1>2, <2>1
  <2> QED BY <1>1, <2>2
<1>6. \A x \in ToSet(s) : x.amount \in Nat /\ x.max \in Nat
  BY <1>1, <1>3, <1>4 DEF ToSet
<1> QED
  BY <1>5, <1>6 DEF Recipients, s

\* What select_inputs selects covers what is needed, and no note could be left out.
LEMMA SelectionCovers ==
    ASSUME NEW notes, NEW utxos, IsFiniteSet(notes), IsFiniteSet(utxos),
           \A x \in notes \cup utxos : Zats[x] \in Nat,
           NEW need \in Nat, NEW s \in SelectInputs(notes, utxos, need)
    PROVE  /\ Worth(s) + Worth(utxos) >= need
           /\ s # {} => \E n \in s : (Worth(s) + Worth(utxos)) - Zats[n] < need
<1>1. \A S : Worth(S) = SumOf(Zats, S)
  BY DEF Worth, SumOf
<1>2. Worth(utxos) \in Nat
  BY <1>1, SumPositive
<1>3. CASE Worth(utxos) >= need
  <2>1. s = {}
    BY <1>3 DEF SelectInputs
  <2>2. Worth(s) = 0
    BY <1>1, <2>1, SumEmpty
  <2> QED
    BY <1>2, <1>3, <2>1, <2>2
<1>4. CASE ~(Worth(utxos) >= need)
  <2>1. s \subseteq notes /\ Worth(s) + Worth(utxos) >= need
    BY <1>4 DEF SelectInputs
  <2>2. PICK last \in s : Worth(s \ {last}) + Worth(utxos) < need
    BY <1>4 DEF SelectInputs
  <2>3. IsFiniteSet(s) /\ \A x \in s : Zats[x] \in Int
    BY <2>1, FS_Subset
  <2>4. SumOf(Zats, s) = Zats[last] + SumOf(Zats, s \ {last})
    BY <2>3, SumRemove
  <2>5. SumOf(Zats, s \ {last}) \in Int
    <3>1. IsFiniteSet(s \ {last}) /\ \A x \in s \ {last} : Zats[x] \in Int
      BY <2>3, FS_Subset
    <3> QED BY <3>1, SumType
  <2>6. (Worth(s) + Worth(utxos)) - Zats[last] = Worth(s \ {last}) + Worth(utxos)
    BY <1>1, <1>2, <2>3, <2>4, <2>5
  <2> QED
    BY <2>1, <2>2, <2>6
<1> QED
  BY <1>3, <1>4

\* A plan of such inputs, with the outputs of its recipients, is exact.
LEMMA SelectedIsExact ==
    ASSUME NEW p, Recipients(p.recipients), p.tx.outputs = SelectOutputs(p.recipients),
           IsFiniteSet(p.tx.tInputs), NEW notes, IsFiniteSet(notes),
           \A x \in notes \cup p.tx.tInputs : Zats[x] \in Nat,
           p.tx.inputs \in SelectInputs(notes, p.tx.tInputs, Total(p.recipients) + DefaultFee)
    PROVE  Exact(p)
<1> DEFINE recs == p.recipients
           outs == p.tx.outputs
           N == Len(recs)
           A == {recs[j].to : j \in 1..N}
<1>1. /\ Parts(recs) /\ N \in Nat /\ DOMAIN recs = 1..N
      /\ \A r \in ToSet(recs) : \E n \in 1..N : r = recs[n]
      /\ \A n \in 1..N : recs[n] \in ToSet(recs)
  BY RecipientsAreParts
<1>2. OutputsFor(recs, N, outs)
  BY OutputsForAll
<1>3. Parts(outs) /\ \A B : PaidInto(outs, B) = PaidInto(recs, B)
  BY <1>1, <1>2 DEF OutputsFor, PaidInto
<1>4. /\ \A n \in DOMAIN outs : \E j \in 1..N : PartOf(outs[n], recs[j])
      /\ \A j \in 1..N : \E n \in DOMAIN outs : PartOf(outs[n], recs[j])
  BY <1>2 DEF OutputsFor
<1> HIDE DEF recs, outs, N
<1>5. Total(recs) = PaidInto(recs, A) /\ Total(recs) \in Nat
  <2>1. \A n \in DOMAIN recs : recs[n].to \in A
    BY <1>1
  <2> HIDE DEF A
  <2> QED BY <1>1, <2>1, TotalIsPaid
<1>6. Total(outs) = PaidInto(outs, A)
  <2>1. \A n \in DOMAIN outs : outs[n].to \in A
    BY <1>4 DEF PartOf
  <2> HIDE DEF A
  <2> QED BY <1>3, <2>1, TotalIsPaid
<1>7. Total(outs) = Total(recs)
  BY <1>3, <1>5, <1>6
<1>8. ASSUME NEW r \in ToSet(recs)
      PROVE  PaidTo(outs, r.to) = PaidTo(recs, r.to) /\ \E o \in ToSet(outs) : PartOf(o, r)
  <2>1. PaidTo(outs, r.to) = PaidTo(recs, r.to)
    BY <1>1, <1>3, PaidToIsSum
  <2>2. PICK j \in 1..N : r = recs[j]
    BY <1>1
  <2>3. PICK n \in DOMAIN outs : PartOf(outs[n], r)
    BY <1>4, <2>2
  <2>4. outs[n] \in ToSet(outs)
    BY DEF ToSet
  <2> QED BY <2>1, <2>3, <2>4
<1>9. ASSUME NEW o \in ToSet(outs) PROVE \E r \in ToSet(recs) : PartOf(o, r)
  <2>1. PICK n \in DOMAIN outs : o = outs[n]
    BY DEF ToSet
  <2>2. PICK j \in 1..N : PartOf(o, recs[j])
    BY <1>4, <2>1
  <2> QED BY <1>1, <2>2
<1>10. Total(recs) + DefaultFee \in Nat
  BY <1>5, PlanAssumption
<1>11. /\ Worth(p.tx.inputs) + Worth(p.tx.tInputs) >= Total(recs) + DefaultFee
       /\ p.tx.inputs # {} =>
            \E n \in p.tx.inputs :
              (Worth(p.tx.inputs) + Worth(p.tx.tInputs)) - Zats[n] < Total(recs) + DefaultFee
  <2> DEFINE need == Total(recs) + DefaultFee
             utxos == p.tx.tInputs
             s == p.tx.inputs
  <2>1. s \in SelectInputs(notes, utxos, need)
    BY DEF recs
  <2>2. IsFiniteSet(utxos) /\ \A x \in notes \cup utxos : Zats[x] \in Nat
    OBVIOUS
  <2>3. need \in Nat
    BY <1>10
  <2> HIDE DEF need, utxos, s
  <2>4. Worth(s) + Worth(utxos) >= need
    BY <2>1, <2>2, <2>3, SelectionCovers
  <2>5. s # {} => \E n \in s : (Worth(s) + Worth(utxos)) - Zats[n] < need
    BY <2>1, <2>2, <2>3, SelectionCovers
  <2>6. Worth(p.tx.inputs) + Worth(p.tx.tInputs) >= Total(recs) + DefaultFee
    BY <2>4 DEF need, utxos, s
  <2>7. p.tx.inputs # {} =>
          \E n \in p.tx.inputs :
            (Worth(p.tx.inputs) + Worth(p.tx.tInputs)) - Zats[n] < Total(recs) + DefaultFee
    BY <2>5 DEF need, utxos, s
  <2> QED
    BY <2>6, <2>7
<1>12. \A r \in ToSet(recs) :
         PaidTo(outs, r.to) = PaidTo(recs, r.to) /\ \E o \in ToSet(outs) : PartOf(o, r)
  BY <1>8
<1>13. \A o \in ToSet(outs) : \E r \in ToSet(recs) : PartOf(o, r)
  BY <1>9
<1> QED
  BY <1>7, <1>11, <1>12, <1>13 DEF Exact, recs, outs

-----------------------------------------------------------------------------
(* What the owner signs.                                                   *)

Funded(tx) ==
    /\ tx.fvk \in PlanAccount /\ tx.change = tx.fvk
    /\ tx.inputs \subseteq Spendable[tx.fvk]
    /\ tx.tInputs \subseteq Utxos[tx.fvk]
    /\ tx.inputs # {} \/ tx.tInputs # {}

\* What sign has compared.
Compared(s) ==
    /\ s.by \in PlanAccount
    /\ s.tx.inputs # {} => s.by = s.tx.fvk
    /\ s.tx.tInputs \subseteq Utxos[s.by]

PlanTypeOK ==
    /\ active \in PlanAccount
    /\ plan.pc \in {"idle", "prepare", "select", "sign"}
    /\ plan.pc \in {"prepare", "select"} => Recipients(plan.recipients)
    /\ plan.pc = "select" => plan.account \in PlanAccount

PlanInv ==
    /\ PlanTypeOK
    /\ plan.pc = "sign" => Funded(plan.tx) /\ Exact(plan)
    /\ \A f \in files : Funded(f.tx) /\ Exact(f)
    /\ \A s \in signed : Funded(s.tx) /\ Compared(s) /\ Exact(s)

\* Nothing is worth nothing.
LEMMA NothingIsWorthNothing == Worth({}) = 0
  BY DEF Worth, MapThenSumSet, MapThenFoldSet

\* Whatever select_inputs selects, there is something in it.
LEMMA SelectionHasInputs ==
    ASSUME NEW notes, NEW utxos, NEW need \in Nat, need > 0,
           NEW s \in SelectInputs(notes, utxos, need)
    PROVE  s \subseteq notes /\ (s # {} \/ utxos # {})
<1>1. CASE Worth(utxos) >= need
  <2>1. s = {}
    BY <1>1 DEF SelectInputs
  <2>2. utxos # {}
    BY <1>1, NothingIsWorthNothing
  <2> QED
    BY <2>1, <2>2
<1>2. CASE ~(Worth(utxos) >= need)
  BY <1>2 DEF SelectInputs
<1> QED
  BY <1>1, <1>2

LEMMA PlanStarts == ASSUME PlanInit PROVE PlanInv
  BY DEF PlanInit, PlanInv, PlanTypeOK, Idle

\* The amounts of recipients add up to an amount.
LEMMA RecipientsTotal == ASSUME NEW s, Recipients(s) PROVE Total(s) \in Nat
<1> DEFINE A == {s[j].to : j \in DOMAIN s}
<1>1. Parts(s) /\ \A n \in DOMAIN s : s[n].to \in A
  BY RecipientsAreParts
<1> HIDE DEF A
<1> QED
  BY <1>1, TotalIsPaid

\* The recipients of a request are typed.
LEMMA StartKeeps ==
    ASSUME PlanInv, NEW r \in Requests \cup {<<>>}, NEW t, NEW send,
           Start(ParseRecipients(r), t, send)
    PROVE  PlanInv'
<1>1. Recipients(ParseRecipients(r))
  BY ParsedAreRecipients DEF ParseRecipients
<1>2. plan' = [pc |-> "prepare", transparent |-> t, send |-> send,
               recipients |-> ParseRecipients(r)]
      /\ UNCHANGED <<active, files, signed>>
  BY DEF Start
<1>3. plan'.pc = "prepare" /\ plan'.recipients = ParseRecipients(r)
  BY <1>2
<1> QED
  BY <1>1, <1>2, <1>3 DEF PlanInv, PlanTypeOK

\* The selection funds the plan, and makes it exact.
LEMMA SelectAllKeeps ==
    ASSUME PlanInv, SelectAll
    PROVE  PlanInv'
<1> DEFINE utxos == UtxosOf(plan)
           need == Total(plan.recipients) + DefaultFee
           Tx(notes) == [tInputs |-> utxos, inputs |-> notes, fvk |-> plan.account,
                         outputs |-> SelectOutputs(plan.recipients), change |-> plan.account]
<1>1. /\ plan.account \in PlanAccount /\ Recipients(plan.recipients)
      /\ need \in Nat /\ need > 0
  <2>1. plan.account \in PlanAccount /\ Recipients(plan.recipients)
    BY DEF PlanInv, PlanTypeOK, SelectAll
  <2> QED
    BY <2>1, RecipientsTotal, PlanAssumption
<1>2. utxos \subseteq Utxos[plan.account]
  BY DEF UtxosOf
<1>3. PICK notes \in SelectInputs(Spendable[plan.account], utxos, need) :
        IF plan.send
        THEN plan' = [pc |-> "sign", tx |-> Tx(notes), recipients |-> plan.recipients] /\ files' = files
        ELSE plan' = Idle /\ files' = files \cup {[tx |-> Tx(notes), recipients |-> plan.recipients]}
  BY DEF SelectAll
<1>4. notes \subseteq Spendable[plan.account] /\ (notes # {} \/ utxos # {})
  BY <1>1, <1>3, SelectionHasInputs
<1>5. Funded(Tx(notes))
  BY <1>1, <1>2, <1>4 DEF Funded
<1>5a. ASSUME NEW p, p.tx = Tx(notes), p.recipients = plan.recipients PROVE Exact(p)
  <2>1. /\ IsFiniteSet(Spendable[plan.account]) /\ IsFiniteSet(utxos)
        /\ \A x \in Spendable[plan.account] \cup utxos : Zats[x] \in Nat
    BY <1>1, <1>2, PlanAssumption, FS_Subset
  <2>2. /\ p.tx.tInputs = utxos /\ p.tx.inputs = notes
        /\ p.tx.outputs = SelectOutputs(plan.recipients)
    BY <1>5a
  <2> HIDE DEF utxos
  <2> QED
    BY <1>1, <1>3, <1>5a, <2>1, <2>2, SelectedIsExact
<1> HIDE DEF Tx
<1>6. UNCHANGED <<active, signed>>
  BY DEF SelectAll
<1>7. CASE plan.send
  <2>1. /\ plan'.pc = "sign" /\ plan'.tx = Tx(notes) /\ plan'.recipients = plan.recipients
        /\ files' = files
    BY <1>3, <1>7
  <2>2. Exact(plan')
    BY <1>5a, <2>1
  <2> QED
    BY <1>5, <1>6, <2>1, <2>2 DEF PlanInv, PlanTypeOK, Exact
<1>8. CASE ~plan.send
  <2>1. /\ plan'.pc = "idle"
        /\ \A f \in files' : f \in files \/ (f.tx = Tx(notes) /\ f.recipients = plan.recipients)
    BY <1>3, <1>8 DEF Idle
  <2>2. \A f \in files' : Funded(f.tx) /\ Exact(f)
    BY <1>5, <1>5a, <2>1 DEF PlanInv
  <2> QED
    BY <1>6, <2>1, <2>2 DEF PlanInv, PlanTypeOK
<1> QED
  BY <1>7, <1>8

\* A signature compares the plan with the keys of the account that makes it.
LEMMA SignatureCompares ==
    ASSUME NEW a \in PlanAccount, NEW p, Funded(p.tx), Exact(p), Signable(a, p.tx)
    PROVE  Built(p, a).tx = p.tx /\ Compared(Built(p, a)) /\ Exact(Built(p, a))
<1>1. /\ Built(p, a).tx = p.tx /\ Built(p, a).recipients = p.recipients
      /\ Built(p, a).by = a
  BY DEF Built
<1>2. Compared(Built(p, a))
  BY <1>1 DEF Compared, Signable, KeyOf, Funded
<1> QED
  BY <1>1, <1>2 DEF Exact

LEMMA SignPaymentKeeps == ASSUME PlanInv, SignPayment PROVE PlanInv'
<1>1. /\ Built(plan, active).tx = plan.tx /\ Compared(Built(plan, active)) /\ Funded(plan.tx)
      /\ Exact(Built(plan, active))
  BY SignatureCompares DEF PlanInv, PlanTypeOK, SignPayment
<1>2. plan'.pc = "idle" /\ signed' = signed \cup {Built(plan, active)}
      /\ UNCHANGED <<active, files>>
  BY DEF SignPayment, Idle
<1> QED
  BY <1>1, <1>2 DEF PlanInv, PlanTypeOK

LEMMA SignOnlyKeeps == ASSUME PlanInv, NEW f \in files, SignOnly(f) PROVE PlanInv'
<1>1. /\ Built(f, active).tx = f.tx /\ Compared(Built(f, active)) /\ Funded(f.tx)
      /\ Exact(Built(f, active))
  BY SignatureCompares DEF PlanInv, PlanTypeOK, SignOnly
<1>2. signed' = signed \cup {Built(f, active)} /\ UNCHANGED <<active, plan, files>>
  BY DEF SignOnly
<1> QED
  BY <1>1, <1>2 DEF PlanInv, PlanTypeOK

\* Every step, action by action.
LEMMA PlanStep == ASSUME PlanInv, [PlanNext]_planVars PROVE PlanInv'
<1>1. ASSUME NEW a \in PlanAccount, SwitchAccount(a) PROVE PlanInv'
  BY <1>1 DEF SwitchAccount, PlanInv, PlanTypeOK
<1>2. ASSUME NEW r \in Requests, NEW t \in BOOLEAN,
             SendMultiPayment(r, t) \/ PrepareMultiPayment(r, t)
      PROVE  PlanInv'
  BY <1>2, StartKeeps DEF SendMultiPayment, PrepareMultiPayment
<1>3. CASE ShieldTaddr
  BY <1>3, StartKeeps DEF ShieldTaddr
<1>4. CASE TakeAccount
  <2>1. plan'.pc = "select" /\ plan'.recipients = plan.recipients /\ plan'.account = active
        /\ plan.pc = "prepare" /\ UNCHANGED <<active, files, signed>>
    BY <1>4 DEF TakeAccount
  <2> QED
    BY <2>1 DEF PlanInv, PlanTypeOK
<1>5. CASE SelectAll
  BY <1>5, SelectAllKeeps
<1>6. CASE PlanFails
  BY <1>6 DEF PlanFails, PlanInv, PlanTypeOK, Idle
<1>7. CASE SignPayment
  BY <1>7, SignPaymentKeeps
<1>8. CASE \E f \in files : SignOnly(f)
  BY <1>8, SignOnlyKeeps
<1>9. CASE UNCHANGED planVars
  BY <1>9 DEF planVars, PlanInv, PlanTypeOK
<1> QED
  BY <1>1, <1>2, <1>3, <1>4, <1>5, <1>6, <1>7, <1>8, <1>9 DEF PlanNext

\* With notes the viewing keys agree; without, the utxos are those of one account.
LEMMA ComparedIsOwned == ASSUME PlanInv PROVE SignedByOwner
<1> SUFFICES ASSUME NEW s \in signed
             PROVE  /\ s.tx.inputs \subseteq Spendable[s.by] /\ s.tx.tInputs \subseteq Utxos[s.by]
                    /\ s.tx.change = s.by
  BY DEF SignedByOwner
<1>1. Funded(s.tx) /\ Compared(s)
  BY DEF PlanInv
<1>2. s.by = s.tx.fvk
  BY <1>1, PlanAssumption DEF Funded, Compared
<1> QED
  BY <1>1, <1>2 DEF Funded, Compared

\* Whatever account is active when a plan is made and when it is signed, what is
\* signed spends only what the signer owns, and returns the change to it
\* (api/payment.rs:23-97, pay.rs:309-390).
THEOREM OnlyOwnersSign == PlanSpec => []SignedByOwner
<1>1. PlanInit => PlanInv
  BY PlanStarts
<1>2. PlanInv /\ [PlanNext]_planVars => PlanInv'
  BY PlanStep
<1>3. PlanInv => SignedByOwner
  BY ComparedIsOwned
<1> QED
  BY <1>1, <1>2, <1>3, PTL DEF PlanSpec

\* The invariant says so of every plan.
LEMMA PlansOfInv == ASSUME PlanInv PROVE PlanExact
  BY DEF PlanInv, PlanExact, Plans

\* Every plan pays exactly what its request asks, to the address it asks for and
\* with the memo, from inputs that cover it and of which none is superfluous; it
\* does so when it is made, in the file and under the signature, for any request
\* and any notes (pay.rs:206-295, api/payment.rs:23-97).
THEOREM PlansAreExact == PlanSpec => []PlanExact
<1>1. PlanInit => PlanInv
  BY PlanStarts
<1>2. PlanInv /\ [PlanNext]_planVars => PlanInv'
  BY PlanStep
<1>3. PlanInv => PlanExact
  BY PlansOfInv
<1> QED
  BY <1>1, <1>2, <1>3, PTL DEF PlanSpec

-----------------------------------------------------------------------------
(***************************************************************************)
(* The search for a date is exact up to Near, on every chain of ordered    *)
(* dates.                                                                  *)
(***************************************************************************)
SearchTypeOK ==
    /\ stage \in {"idle", "first", "last", "middle", "done"}
    /\ time \in Nat /\ found \in Nat
    /\ latest \in Heights
    /\ start \in Nat /\ end \in Int

\* The block lies between start and end: everything below is older, everything
\* above is younger.
Bracketed ==
    /\ stage \in {"first", "last"} => start = Activation /\ end = latest
    /\ stage = "last" => Date[start] < time
    /\ stage = "middle" =>
         /\ Activation <= start /\ start <= end /\ end <= latest
         /\ \A h \in Activation .. start - 1 : Date[h] < time
         /\ \A h \in end + 1 .. latest : Date[h] > time

SearchInv == SearchTypeOK /\ Bracketed /\ SearchNear

LEMMA SearchStarts == ASSUME SearchInit PROVE SearchInv
<1>1. Activation \in Heights /\ Heights \subseteq Nat
  BY SearchAssumption DEF Heights
<1> QED
  BY <1>1, SearchAssumption DEF SearchInit, SearchInv, SearchTypeOK, Bracketed, SearchNear

LEMMA SearchStep == ASSUME SearchInv, [SearchNext]_searchVars PROVE SearchInv'
<1>1. /\ Activation \in Nat /\ MaxHeight \in Nat /\ Near \in Nat /\ Near >= 2
      /\ \A h \in Heights : Date[h] \in Nat
      /\ \A g, h \in Heights : g <= h => Date[g] <= Date[h]
  BY SearchAssumption
<1>2. \A h \in Int : h \in Heights <=> Activation <= h /\ h <= MaxHeight
  BY <1>1 DEF Heights
<1>3. SearchTypeOK /\ Bracketed /\ SearchNear /\ latest \in Nat
      /\ Activation <= latest /\ latest <= MaxHeight
  BY <1>1 DEF SearchInv, SearchTypeOK, Heights
<1>4. ASSUME NEW t \in SearchTimes, NEW last \in Heights, BeginSearch(t, last) PROVE SearchInv'
  <2>1. t \in Nat /\ last \in Int
    BY <1>1, SearchAssumption DEF Heights
  <2> QED
    BY <1>1, <1>3, <1>4, <2>1 DEF BeginSearch, SearchInv, SearchTypeOK, Bracketed, SearchNear
<1>5. CASE CheckFirst
  <2>1. stage = "first" /\ start = Activation /\ time \in Nat /\ Date[Activation] \in Nat
    BY <1>1, <1>2, <1>3, <1>5 DEF CheckFirst, SearchTypeOK, Bracketed
  <2>2. CASE time <= Date[start]
    <3>1. \A h \in Activation .. latest : time <= Date[h]
      BY <1>1, <1>2, <1>3, <2>1, <2>2
    <3> QED
      BY <1>3, <1>5, <2>2, <3>1 DEF CheckFirst, Answer, SearchInv, SearchTypeOK, Bracketed, SearchNear
  <2>3. CASE ~(time <= Date[start])
    <3>1. Date[start] < time
      BY <2>1, <2>3
    <3> QED
      BY <1>3, <1>5, <2>1, <2>3, <3>1
         DEF CheckFirst, SearchInv, SearchTypeOK, Bracketed, SearchNear
  <2> QED
    BY <2>2, <2>3
<1>6. CASE CheckLast
  <2>1. /\ stage = "last" /\ start = Activation /\ end = latest /\ time \in Nat
        /\ Date[start] < time /\ Date[latest] \in Nat
    BY <1>1, <1>2, <1>3, <1>6 DEF CheckLast, SearchTypeOK, Bracketed
  <2>2. CASE time >= Date[end]
    <3>1. Date[latest] <= time /\ latest \in Activation .. latest
      BY <1>1, <1>3, <2>1, <2>2
    <3> QED
      BY <1>3, <1>6, <2>1, <2>2, <3>1
         DEF CheckLast, Answer, SearchInv, SearchTypeOK, Bracketed, SearchNear
  <2>3. CASE ~(time >= Date[end])
    <3>1. /\ \A h \in Activation .. start - 1 : Date[h] < time
          /\ \A h \in end + 1 .. latest : Date[h] > time
      BY <1>1, <1>3, <2>1
    <3> QED
      BY <1>1, <1>3, <1>6, <2>1, <2>3, <3>1
         DEF CheckLast, SearchInv, SearchTypeOK, Bracketed, SearchNear
  <2> QED
    BY <2>2, <2>3
<1>7. CASE CheckMiddle
  <2> DEFINE mid == (start + end) \div 2
  <2>1. /\ stage = "middle" /\ start \in Nat /\ end \in Int /\ time \in Nat
        /\ Activation <= start /\ start <= end /\ end <= latest /\ end - start >= Near
        /\ \A h \in Activation .. start - 1 : Date[h] < time
        /\ \A h \in end + 1 .. latest : Date[h] > time
    BY <1>3, <1>7 DEF CheckMiddle, SearchTypeOK, Bracketed
  <2>2. mid \in Int /\ start < mid /\ mid < end
    BY <1>1, <2>1
  <2>3. mid \in Heights /\ Date[mid] \in Nat
    BY <1>1, <1>2, <1>3, <2>1, <2>2
  <2> HIDE DEF mid
  <2>4. CASE time < Date[mid] /\ end' = mid - 1 /\ UNCHANGED <<stage, start, found>>
    <3>1. \A h \in mid .. latest : Date[h] > time
      BY <1>1, <1>2, <1>3, <2>1, <2>2, <2>3, <2>4
    <3> QED
      BY <1>1, <1>3, <1>7, <2>1, <2>2, <2>4, <3>1
         DEF CheckMiddle, SearchInv, SearchTypeOK, Bracketed, SearchNear
  <2>5. CASE time > Date[mid] /\ start' = mid + 1 /\ UNCHANGED <<stage, end, found>>
    <3>1. \A h \in Activation .. mid : Date[h] < time
      BY <1>1, <1>2, <1>3, <2>1, <2>2, <2>3, <2>5
    <3> QED
      BY <1>1, <1>3, <1>7, <2>1, <2>2, <2>5, <3>1
         DEF CheckMiddle, SearchInv, SearchTypeOK, Bracketed, SearchNear
  <2>6. CASE time = Date[mid] /\ Answer(mid) /\ UNCHANGED <<start, end>>
    <3>1. mid \in Nat /\ mid \in Activation .. latest
      BY <1>1, <1>3, <2>1, <2>2
    <3> QED
      BY <1>3, <1>7, <2>6, <3>1
         DEF CheckMiddle, Answer, SearchInv, SearchTypeOK, Bracketed, SearchNear
  <2> QED
    BY <1>7, <2>4, <2>5, <2>6 DEF CheckMiddle, mid
<1>8. CASE Stop
  <2>1. /\ stage = "middle" /\ start \in Nat /\ end \in Int
        /\ Activation <= start /\ start <= end /\ end <= latest /\ end - start < Near
        /\ \A h \in Activation .. start - 1 : Date[h] < time
        /\ \A h \in end + 1 .. latest : Date[h] > time
    BY <1>3, <1>8 DEF Stop, SearchTypeOK, Bracketed
  <2>2. start \in Activation .. latest /\ \A h \in start + Near .. latest : Date[h] > time
    BY <1>1, <1>3, <2>1
  <2> QED
    BY <1>3, <1>8, <2>1, <2>2 DEF Stop, Answer, SearchInv, SearchTypeOK, Bracketed, SearchNear
<1>9. CASE SearchFails
  BY <1>3, <1>9 DEF SearchFails, SearchInv, SearchTypeOK, Bracketed, SearchNear
<1>10. CASE UNCHANGED searchVars
  BY <1>3, <1>10 DEF searchVars, SearchInv, SearchTypeOK, Bracketed, SearchNear
<1> QED
  BY <1>4, <1>5, <1>6, <1>7, <1>8, <1>9, <1>10 DEF SearchNext

\* Whatever the chain, as long as its dates are ordered, the search returns a
\* block of the date or the place where it belongs, up to Near blocks
\* (get_block_by_time).
THEOREM SearchIsNear == SearchSpec => []SearchNear
<1>1. SearchInit => SearchInv
  BY SearchStarts
<1>2. SearchInv /\ [SearchNext]_searchVars => SearchInv'
  BY SearchStep
<1>3. SearchInv => SearchNear
  BY DEF SearchInv
<1> QED
  BY <1>1, <1>2, <1>3, PTL DEF SearchSpec

\* The bounds of the loop stay in order, so its unsigned differences never
\* fall below zero (get_block_by_time).
THEOREM SearchNeverUnderflows == SearchSpec => []BoundsInOrder
<1>1. SearchInit => SearchInv
  BY SearchStarts
<1>2. SearchInv /\ [SearchNext]_searchVars => SearchInv'
  BY SearchStep
<1>3. SearchInv => BoundsInOrder
  BY SearchAssumption DEF SearchInv, SearchTypeOK, Bracketed, BoundsInOrder, Heights
<1> QED
  BY <1>1, <1>2, <1>3, PTL DEF SearchSpec

-----------------------------------------------------------------------------
(***************************************************************************)
(* A file that carries the current version is complete.                    *)
(*                                                                         *)
(* That is not inductive: it must be known of the call that is running     *)
(* that it writes this version after all that the file still lacks         *)
(* (VersionIsLast).  What the file lacks depends on the version that the   *)
(* call has found, so the older ones have a meaning, too (HasTables).  A   *)
(* reset takes the meaning away first, and the version at its end: until   *)
(* then its file is in cutReset.                                           *)
(***************************************************************************)
IsList(s) == \E S : s \in Seq(S)
Elements(s) == {s[i] : i \in 1 .. Len(s)}

(* A statement of a reset; all others are of init_wallet.                  *)
OfReset(s) == s.do \in {"reset", "drop_table"} \/ (s.do = "set_version" /\ s.version = 0)
Creates(s, c, what, name) == s.do = what /\ s.coin = c /\ s.name = name

StatementFits(s) ==
  /\ s.coin \in Coin
  /\ s.do = "create_table" => s.name \in AllTables
  /\ s.do = "create_index" => s.name \in ToSet(Indexes)
  /\ s.do = "set_version" => s.version \in {0, CurrentVersion}

(* A call is a reset or an opening; the statements of a coin come before   *)
(* the coins that have not begun.                                          *)
TodoFits ==
  /\ IsList(todo)
  /\ \A n \in 1 .. Len(todo) : StatementFits(todo[n])
  /\ \A n \in 1 .. Len(todo) : \A m \in 1 .. n - 1 :
       todo[m].do \in {"open", "init"} => todo[n].do = "init"
  /\ (\A n \in 1 .. Len(todo) : OfReset(todo[n])) \/ (\A n \in 1 .. Len(todo) : ~OfReset(todo[n]))

(* The current version is written after all that the file lacks.           *)
Before(n, c, what, name) == \E m \in 1 .. n - 1 : Creates(todo[m], c, what, name)
VersionIsLast ==
  \A n \in 1 .. Len(todo) :
    LET c == todo[n].coin IN
    todo[n].do = "set_version" /\ todo[n].version # 0 /\ c \notin cutReset =>
      /\ \A t \in AllTables \ file[c].tables : Before(n, c, "create_table", t)
      /\ \A i \in ToSet(Indexes) \ file[c].indexes : Before(n, c, "create_index", i)

(* What a version promises.                                                *)
HasTables(c) ==
  /\ file[c].version >= 1 => ToSet(BaseTables) \subseteq file[c].tables
  /\ file[c].version >= 2 => ToSet(Indexes) \subseteq file[c].indexes
  /\ file[c].version = CurrentVersion => AllTables \subseteq file[c].tables
FilesFit ==
  /\ DOMAIN file = Coin
  /\ \A c \in Coin :
       /\ file[c] = [version |-> file[c].version, tables |-> file[c].tables,
                     indexes |-> file[c].indexes]
       /\ file[c].version \in 0 .. CurrentVersion
       /\ file[c].tables \subseteq AllTables /\ file[c].indexes \subseteq ToSet(Indexes)
  /\ \A c \in Coin \ cutReset : HasTables(c)

SchemaInv == TodoFits /\ VersionIsLast /\ FilesFit

(* The names that a call goes through.                                     *)
LEMMA NamesAreLists ==
  /\ IsList(BaseTables) /\ IsList(ResetTables) /\ IsList(Indexes)
  /\ IsList(<<"messages">>) /\ ToSet(<<"messages">>) = {"messages"}
<1>1. BaseTables \in Seq({"accounts", "blocks", "transactions", "received_notes",
                          "sapling_witnesses", "diversifiers", "taddrs", "historical_prices",
                          "contacts"})
  BY DEF BaseTables
<1>2. ResetTables \in Seq({"blocks", "transactions", "received_notes", "sapling_witnesses",
                           "diversifiers", "historical_prices"})
  BY DEF ResetTables
<1>3. Indexes \in Seq({"i_received_notes", "i_account", "i_contact", "i_transaction", "i_witness"})
  BY DEF Indexes
<1>4. <<"messages">> \in Seq({"messages"})
  OBVIOUS
<1>5. ToSet(<<"messages">>) = {"messages"}
  BY DEF ToSet
<1> QED BY <1>1, <1>2, <1>3, <1>4, <1>5 DEF IsList

(* What concatenation makes of two sequences.                              *)
LEMMA ElementsOfConcat ==
  ASSUME NEW s, NEW t, IsList(s), IsList(t)
  PROVE  /\ IsList(s \o t) /\ Elements(s \o t) = Elements(s) \cup Elements(t)
         /\ Len(s) \in Nat /\ Len(t) \in Nat /\ Len(s \o t) = Len(s) + Len(t)
         /\ \A i \in 1 .. Len(s) + Len(t) : (s \o t)[i] = IF i <= Len(s) THEN s[i] ELSE t[i - Len(s)]
<1>1. PICK S, T : s \in Seq(S) /\ t \in Seq(T)
  BY DEF IsList
<1>2. s \in Seq(S \cup T) /\ t \in Seq(S \cup T)
  BY <1>1, SeqMonotonic
<1> DEFINE a == Len(s)
           b == Len(t)
           u == s \o t
<1>3. u \in Seq(S \cup T) /\ Len(u) = a + b
      /\ \A i \in 1 .. a + b : u[i] = IF i <= a THEN s[i] ELSE t[i - a]
  BY <1>2, ConcatProperties
<1>4. a \in Nat /\ b \in Nat
  BY <1>1, LenProperties
<1>5. Elements(u) = {u[i] : i \in 1 .. a + b} /\ Elements(s) = {s[i] : i \in 1 .. a}
      /\ Elements(t) = {t[i] : i \in 1 .. b}
  BY <1>3 DEF Elements
<1> HIDE DEF a, b, u
<1>6. \A i \in 1 .. a : i \in 1 .. a + b /\ u[i] = s[i]
  BY <1>3, <1>4
<1>7. \A i \in 1 .. b : i + a \in 1 .. a + b /\ u[i + a] = t[i]
  BY <1>3, <1>4
<1>8. \A i \in 1 .. a + b : i \in 1 .. a \/ (i - a \in 1 .. b /\ u[i] = t[i - a])
  BY <1>3, <1>4
<1>9. Elements(u) = Elements(s) \cup Elements(t)
  <2>1. Elements(s) \cup Elements(t) \subseteq Elements(u)
    BY <1>5, <1>6, <1>7
  <2>2. Elements(u) \subseteq Elements(s) \cup Elements(t)
    BY <1>5, <1>6, <1>8
  <2> QED BY <2>1, <2>2
<1> QED BY <1>3, <1>4, <1>9 DEF IsList, a, b, u

(* A sequence without elements.                                            *)
LEMMA EmptyList == IsList(<<>>) /\ Len(<<>>) = 0 /\ Elements(<<>>) = {}
BY EmptySeq DEF IsList, Elements

(* One statement for each name.                                            *)
LEMMA ElementsOfDo ==
  ASSUME NEW what, NEW c, NEW names, IsList(names)
  PROVE  /\ IsList(Do(what, c, names)) /\ Len(Do(what, c, names)) \in Nat
         /\ Elements(Do(what, c, names)) = {[do |-> what, coin |-> c, name |-> x] : x \in ToSet(names)}
<1> DEFINE e(n) == [do |-> what, coin |-> c, name |-> names[n]]
           d == Do(what, c, names)
           l == Len(names)
<1>1. l \in Nat /\ DOMAIN names = 1 .. l
  BY LenProperties DEF IsList
<1>2. d = [n \in 1 .. l |-> e(n)]
  BY <1>1 DEF Do
<1> DEFINE S == {e(n) : n \in 1 .. l}
<1>3. \A n \in 1 .. l : e(n) \in S
  OBVIOUS
<1> HIDE DEF e, d, l
<1>4. d \in Seq(S)
  <2> HIDE DEF S
  <2> QED BY <1>1, <1>2, <1>3, IsASeq
<1>5. Len(d) = l /\ \A n \in 1 .. l : d[n] = e(n)
  BY <1>1, <1>2, <1>4, LenProperties
<1>6. Elements(d) = S
  BY <1>5 DEF Elements
<1>7. S = {[do |-> what, coin |-> c, name |-> x] : x \in ToSet(names)}
  BY <1>1 DEF e, ToSet
<1> QED BY <1>1, <1>4, <1>5, <1>6, <1>7 DEF IsList, d

(* The statements that make a file of version v complete.                  *)
Work(c, v) ==
  (If(v < 1, Do("create_table", c, BaseTables)) \o If(v < 2, Do("create_index", c, Indexes)))
  \o If(v < 3, Do("create_table", c, <<"messages">>))

(* And nothing that such a file lacks is left out.                         *)
LEMMA WorkIsEnough ==
  ASSUME NEW c, NEW v \in 0 .. 3
  PROVE  LET w == Work(c, v)
         IN  /\ IsList(w) /\ Len(w) \in Nat
             /\ \A n \in 1 .. Len(w) :
                  \/ \E t \in AllTables : w[n] = [do |-> "create_table", coin |-> c, name |-> t]
                  \/ \E i \in ToSet(Indexes) : w[n] = [do |-> "create_index", coin |-> c, name |-> i]
             /\ \A t \in AllTables :
                  v < 1 \/ (v < 3 /\ t \notin ToSet(BaseTables)) =>
                    \E n \in 1 .. Len(w) : Creates(w[n], c, "create_table", t)
             /\ \A i \in ToSet(Indexes) :
                  v < 2 => \E n \in 1 .. Len(w) : Creates(w[n], c, "create_index", i)
<1> DEFINE T(t) == [do |-> "create_table", coin |-> c, name |-> t]
           I(i) == [do |-> "create_index", coin |-> c, name |-> i]
           a == If(v < 1, Do("create_table", c, BaseTables))
           b == If(v < 2, Do("create_index", c, Indexes))
           m == If(v < 3, Do("create_table", c, <<"messages">>))
           w == Work(c, v)
<1>1. IsList(a) /\ Elements(a) = {T(t) : t \in IF v < 1 THEN ToSet(BaseTables) ELSE {}}
  BY NamesAreLists, ElementsOfDo, EmptyList DEF If
<1>2. IsList(b) /\ Elements(b) = {I(i) : i \in IF v < 2 THEN ToSet(Indexes) ELSE {}}
  BY NamesAreLists, ElementsOfDo, EmptyList DEF If
<1>3. IsList(m) /\ Elements(m) = {T(t) : t \in IF v < 3 THEN {"messages"} ELSE {}}
  BY NamesAreLists, ElementsOfDo, EmptyList DEF If
<1>4. w = (a \o b) \o m
  BY DEF Work
<1> HIDE DEF a, b, m, w
<1>5. IsList(a \o b) /\ Elements(a \o b) = Elements(a) \cup Elements(b)
  BY <1>1, <1>2, ElementsOfConcat
<1>6. IsList(w) /\ Len(w) \in Nat /\ Elements(w) = Elements(a) \cup Elements(b) \cup Elements(m)
  BY <1>3, <1>4, <1>5, ElementsOfConcat
<1>7. ASSUME NEW n \in 1 .. Len(w)
      PROVE  (\E t \in AllTables : w[n] = T(t)) \/ (\E i \in ToSet(Indexes) : w[n] = I(i))
  <2>1. w[n] \in Elements(w)
    BY DEF Elements
  <2> QED BY <1>1, <1>2, <1>3, <1>6, <2>1 DEF AllTables
<1>8. ASSUME NEW t \in AllTables, v < 1 \/ (v < 3 /\ t \notin ToSet(BaseTables))
      PROVE  \E n \in 1 .. Len(w) : Creates(w[n], c, "create_table", t)
  <2>1. T(t) \in Elements(w)
    BY <1>1, <1>3, <1>6, <1>8 DEF AllTables
  <2>2. PICK n \in 1 .. Len(w) : w[n] = T(t)
    BY <2>1 DEF Elements
  <2> QED BY <2>2 DEF Creates
<1>9. ASSUME NEW i \in ToSet(Indexes), v < 2
      PROVE  \E n \in 1 .. Len(w) : Creates(w[n], c, "create_index", i)
  <2>1. I(i) \in Elements(w)
    BY <1>2, <1>6, <1>9
  <2>2. PICK n \in 1 .. Len(w) : w[n] = I(i)
    BY <2>1 DEF Elements
  <2> QED BY <2>2 DEF Creates
<1> QED BY <1>6, <1>7, <1>8, <1>9 DEF w

(* An opening: the work, then the version if it is another one, then the   *)
(* connection.                                                             *)
LEMMA InitDbFits ==
  ASSUME NEW c \in Coin, file[c].version \in 0 .. CurrentVersion
  PROVE  LET u == InitDb(c)
             missing(n, what, names, there) ==
               \A x \in names \ there : \E m \in 1 .. n - 1 : Creates(u[m], c, what, x)
         IN  /\ IsList(u) /\ Len(u) \in Nat
             /\ \A n \in 1 .. Len(u) :
                  /\ StatementFits(u[n]) /\ ~OfReset(u[n]) /\ u[n].coin = c
                  /\ u[n].do # "init"
                  /\ u[n].do = "open" => n = Len(u)
                  /\ u[n].do = "set_version" /\ HasTables(c) =>
                       /\ missing(n, "create_table", AllTables, file[c].tables)
                       /\ missing(n, "create_index", ToSet(Indexes), file[c].indexes)
<1> DEFINE v == file[c].version
           w == Work(c, v)
           s == If(v # CurrentVersion, SetVersion(c, CurrentVersion))
           o == <<[do |-> "open", coin |-> c]>>
           u == InitDb(c)
<1>1. u = (w \o s) \o o /\ v \in 0 .. 3
  BY DEF InitDb, Work, CurrentVersion
<1>2. /\ IsList(w) /\ Len(w) \in Nat
      /\ \A n \in 1 .. Len(w) :
           \/ \E t \in AllTables : w[n] = [do |-> "create_table", coin |-> c, name |-> t]
           \/ \E i \in ToSet(Indexes) : w[n] = [do |-> "create_index", coin |-> c, name |-> i]
      /\ \A t \in AllTables :
           v < 1 \/ (v < 3 /\ t \notin ToSet(BaseTables)) =>
             \E n \in 1 .. Len(w) : Creates(w[n], c, "create_table", t)
      /\ \A i \in ToSet(Indexes) :
           v < 2 => \E n \in 1 .. Len(w) : Creates(w[n], c, "create_index", i)
  BY <1>1, WorkIsEnough
<1>3. IsList(o) /\ Len(o) = 1 /\ o[1] = [do |-> "open", coin |-> c]
  <2>1. o \in Seq({[do |-> "open", coin |-> c]})
    OBVIOUS
  <2> QED BY <2>1 DEF IsList
<1>4. /\ IsList(s) /\ Len(s) = IF v = 3 THEN 0 ELSE 1
      /\ v # 3 => s[1] = [do |-> "set_version", coin |-> c, version |-> 3]
  <2> DEFINE r == [do |-> "set_version", coin |-> c, version |-> 3]
  <2>1. s = IF v = 3 THEN <<>> ELSE <<r>>
    BY DEF If, SetVersion, CurrentVersion
  <2> HIDE DEF r
  <2>2. <<r>> \in Seq({r}) /\ Len(<<r>>) = 1 /\ <<r>>[1] = r
    OBVIOUS
  <2>3. IsList(<<>>) /\ Len(<<>>) = 0
    BY EmptyList
  <2> QED BY <2>1, <2>2, <2>3 DEF IsList, r
<1> HIDE DEF v, w, s, o, u
<1> DEFINE l == Len(w)
<1>5. /\ IsList(w \o s) /\ Len(w \o s) = l + Len(s) /\ l \in Nat
      /\ \A n \in 1 .. l + Len(s) : (w \o s)[n] = IF n <= l THEN w[n] ELSE s[n - l]
  BY <1>2, <1>4, ElementsOfConcat
<1>6. /\ IsList(u) /\ Len(u) = l + Len(s) + 1
      /\ \A n \in 1 .. l + Len(s) + 1 :
           u[n] = IF n <= l + Len(s) THEN (w \o s)[n] ELSE o[n - (l + Len(s))]
  <2> DEFINE t == w \o s
  <2>1. u = t \o o /\ IsList(t) /\ IsList(o) /\ Len(t) = l + Len(s) /\ Len(o) = 1
    BY <1>1, <1>3, <1>5
  <2> HIDE DEF t
  <2>2. IsList(u) /\ Len(u) = Len(t) + Len(o)
        /\ \A n \in 1 .. Len(t) + Len(o) : u[n] = IF n <= Len(t) THEN t[n] ELSE o[n - Len(t)]
    BY <2>1, ElementsOfConcat
  <2> QED BY <2>1, <2>2 DEF t
<1> HIDE DEF l
<1>7. \A n \in 1 .. l : u[n] = w[n]
  <2> SUFFICES ASSUME NEW n \in 1 .. l PROVE u[n] = w[n]
    OBVIOUS
  <2>1. n <= l /\ n \in 1 .. l + Len(s) /\ n \in 1 .. l + Len(s) + 1 /\ n <= l + Len(s)
    BY <1>4, <1>5
  <2> QED BY <1>5, <1>6, <2>1
<1>8. \A n \in 1 .. Len(u) :
        \/ n \in 1 .. l
        \/ n = Len(u) /\ u[n] = [do |-> "open", coin |-> c]
        \/ n = l + 1 /\ v # 3 /\ u[n] = [do |-> "set_version", coin |-> c, version |-> 3]
  <2> SUFFICES ASSUME NEW n \in 1 .. Len(u), n \notin 1 .. l
               PROVE  \/ n = Len(u) /\ u[n] = [do |-> "open", coin |-> c]
                      \/ n = l + 1 /\ v # 3
                         /\ u[n] = [do |-> "set_version", coin |-> c, version |-> 3]
    OBVIOUS
  <2>1. CASE n = l + Len(s) + 1
    <3>1. n - (l + Len(s)) = 1 /\ ~(n <= l + Len(s)) /\ n \in 1 .. l + Len(s) + 1
      BY <1>4, <1>5, <2>1
    <3> QED BY <1>3, <1>6, <2>1, <3>1
  <2>2. CASE n # l + Len(s) + 1
    <3>1. v # 3 /\ n = l + 1 /\ n - l = 1 /\ n <= l + Len(s) /\ n \in 1 .. l + Len(s) + 1
          /\ n \in 1 .. l + Len(s) /\ ~(n <= l)
      BY <1>4, <1>5, <1>6, <2>2
    <3> QED BY <1>4, <1>5, <1>6, <3>1
  <2> QED BY <2>1, <2>2
<1>9. ASSUME NEW n \in 1 .. l
      PROVE  /\ StatementFits(u[n]) /\ ~OfReset(u[n]) /\ u[n].coin = c
             /\ u[n].do \in {"create_table", "create_index"}
  <2>1. CASE \E t \in AllTables : w[n] = [do |-> "create_table", coin |-> c, name |-> t]
    BY <1>7, <2>1 DEF StatementFits, OfReset
  <2>2. CASE \E i \in ToSet(Indexes) : w[n] = [do |-> "create_index", coin |-> c, name |-> i]
    BY <1>7, <2>2 DEF StatementFits, OfReset
  <2> QED BY <1>2, <2>1, <2>2 DEF l
<1>10. ASSUME NEW r, r = [do |-> "open", coin |-> c]
       PROVE  StatementFits(r) /\ ~OfReset(r) /\ r.coin = c /\ r.do = "open"
  BY <1>10 DEF StatementFits, OfReset
<1>11. ASSUME NEW r, r = [do |-> "set_version", coin |-> c, version |-> 3]
       PROVE  StatementFits(r) /\ ~OfReset(r) /\ r.coin = c /\ r.do = "set_version"
  BY <1>11 DEF StatementFits, OfReset, CurrentVersion
<1>12. ASSUME HasTables(c), v # 3
       PROVE  /\ \A x \in AllTables \ file[c].tables :
                   \E m \in 1 .. l : Creates(u[m], c, "create_table", x)
              /\ \A x \in ToSet(Indexes) \ file[c].indexes :
                   \E m \in 1 .. l : Creates(u[m], c, "create_index", x)
  <2>1. \A t \in AllTables \ file[c].tables : v < 1 \/ (v < 3 /\ t \notin ToSet(BaseTables))
    BY <1>1, <1>12 DEF HasTables, v
  <2>2. \A i \in ToSet(Indexes) \ file[c].indexes : v < 2
    BY <1>1, <1>12 DEF HasTables, v
  <2> QED BY <1>2, <1>7, <2>1, <2>2 DEF l
<1>13. ASSUME NEW n \in 1 .. Len(u)
       PROVE  /\ StatementFits(u[n]) /\ ~OfReset(u[n]) /\ u[n].coin = c /\ u[n].do # "init"
              /\ u[n].do = "open" => n = Len(u)
              /\ u[n].do = "set_version" => n = l + 1 /\ v # 3
  BY <1>8, <1>9, <1>10, <1>11
<1>14. \A n : n = l + 1 => n - 1 = l
  BY <1>5
<1> QED BY <1>6, <1>12, <1>13, <1>14, <1>5, <1>4 DEF u

(* Files come from older releases.                                         *)
LEMMA SchemaInvInit ==
  ASSUME SchemaInit
  PROVE  SchemaInv
<1>1. /\ file \in [Coin -> {Released(v) : v \in 0 .. 2}]
      /\ todo = <<>> /\ cutReset = {}
  BY DEF SchemaInit
<1>2. TodoFits /\ VersionIsLast
  BY <1>1, EmptySeq DEF TodoFits, VersionIsLast, IsList
<1>3. ASSUME NEW c \in Coin
      PROVE  /\ file[c] = [version |-> file[c].version, tables |-> file[c].tables,
                           indexes |-> file[c].indexes]
             /\ file[c].version \in 0 .. CurrentVersion
             /\ file[c].tables \subseteq AllTables /\ file[c].indexes \subseteq ToSet(Indexes)
             /\ HasTables(c)
  <2>1. PICK v \in 0 .. 2 : file[c] = Released(v)
    BY <1>1
  <2> QED BY <2>1 DEF Released, CurrentVersion, AllTables, HasTables
<1> QED BY <1>1, <1>2, <1>3 DEF SchemaInv, FilesFit

-----------------------------------------------------------------------------
(* What is left of a call after its first statement.                       *)
LEMMA PopTodo ==
  ASSUME TodoFits, todo # <<>>
  PROVE  /\ Head(todo) = todo[1] /\ 1 \in 1 .. Len(todo)
         /\ IsList(Tail(todo)) /\ Len(todo) \in Nat /\ Len(Tail(todo)) = Len(todo) - 1
         /\ \A n \in 1 .. Len(Tail(todo)) : Tail(todo)[n] = todo[n + 1] /\ n + 1 \in 1 .. Len(todo)
<1>1. PICK S : todo \in Seq(S)
  BY DEF TodoFits, IsList
<1>2. Len(todo) \in Nat /\ Len(todo) >= 1
  BY <1>1, EmptySeq, LenProperties
<1>3. Tail(todo) \in Seq(S) /\ Len(Tail(todo)) = Len(todo) - 1 /\ Head(todo) = todo[1]
      /\ \A n \in 1 .. Len(Tail(todo)) : Tail(todo)[n] = todo[n + 1]
  BY <1>1, HeadTailProperties
<1> QED BY <1>2, <1>3 DEF IsList

(* A call goes on with its next statement.                                 *)
LEMMA TodoGoesOn ==
  ASSUME TodoFits, todo # <<>>, todo' = Tail(todo)
  PROVE  TodoFits'
<1> DEFINE l == Len(todo)
           s == Tail(todo)
<1>1. /\ IsList(s) /\ l \in Nat /\ Len(s) = l - 1
      /\ \A n \in 1 .. Len(s) : s[n] = todo[n + 1] /\ n + 1 \in 1 .. l
  BY PopTodo
<1>2. /\ \A n \in 1 .. l : StatementFits(todo[n])
      /\ \A n \in 1 .. l : \A m \in 1 .. n - 1 :
           todo[m].do \in {"open", "init"} => todo[n].do = "init"
      /\ (\A n \in 1 .. l : OfReset(todo[n])) \/ (\A n \in 1 .. l : ~OfReset(todo[n]))
  BY DEF TodoFits
<1> HIDE DEF s, l
<1>3. ASSUME NEW n \in 1 .. Len(s), NEW m \in 1 .. n - 1, s[m].do \in {"open", "init"}
      PROVE  s[n].do = "init"
  <2>1. m + 1 \in 1 .. (n + 1) - 1 /\ m \in 1 .. Len(s)
    BY <1>1
  <2> QED BY <1>1, <1>2, <1>3, <2>1
<1>4. \A n \in 1 .. Len(s) : StatementFits(s[n])
  BY <1>1, <1>2
<1>5. (\A n \in 1 .. Len(s) : OfReset(s[n])) \/ (\A n \in 1 .. Len(s) : ~OfReset(s[n]))
  BY <1>1, <1>2
<1>6. todo' = s
  BY DEF s
<1> QED BY <1>1, <1>3, <1>4, <1>5, <1>6 DEF TodoFits

(* A call that is a reset writes no version but 0.                         *)
LEMMA ResetHasNoVersion ==
  ASSUME \A n \in 1 .. Len(todo) : OfReset(todo[n])
  PROVE  VersionIsLast
BY DEF VersionIsLast, OfReset

(* A statement that takes nothing away, and makes what it says.            *)
LEMMA StillLast ==
  ASSUME SchemaInv, todo # <<>>, todo' = Tail(todo), cutReset' = cutReset,
         \A c \in Coin : file[c].tables \subseteq file'[c].tables
                         /\ file[c].indexes \subseteq file'[c].indexes,
         \A x : /\ Creates(Head(todo), Head(todo).coin, "create_table", x)
                     => x \in file'[Head(todo).coin].tables
                /\ Creates(Head(todo), Head(todo).coin, "create_index", x)
                     => x \in file'[Head(todo).coin].indexes
  PROVE  VersionIsLast'
<1> DEFINE s == Tail(todo)
           l == Len(todo)
<1>1. /\ l \in Nat /\ Len(s) = l - 1 /\ Head(todo) = todo[1]
      /\ \A n \in 1 .. Len(s) : s[n] = todo[n + 1] /\ n + 1 \in 1 .. l
  BY PopTodo DEF SchemaInv
<1>2. todo' = s
  OBVIOUS
<1> HIDE DEF s, l
<1>3. ASSUME NEW n \in 1 .. Len(s), NEW c, c = s[n].coin, s[n].do = "set_version",
             s[n].version # 0, c \notin cutReset
      PROVE  /\ \A t \in AllTables \ file'[c].tables :
                  \E m \in 1 .. n - 1 : Creates(s[m], c, "create_table", t)
             /\ \A i \in ToSet(Indexes) \ file'[c].indexes :
                  \E m \in 1 .. n - 1 : Creates(s[m], c, "create_index", i)
  <2>1. s[n] = todo[n + 1] /\ n + 1 \in 1 .. l
    BY <1>1
  <2>2. c \in Coin
    BY <1>3, <2>1 DEF SchemaInv, TodoFits, StatementFits, l
  <2>3. /\ \A t \in AllTables \ file[c].tables :
             \E m \in 1 .. (n + 1) - 1 : Creates(todo[m], c, "create_table", t)
        /\ \A i \in ToSet(Indexes) \ file[c].indexes :
             \E m \in 1 .. (n + 1) - 1 : Creates(todo[m], c, "create_index", i)
    BY <1>3, <2>1 DEF SchemaInv, VersionIsLast, Before, l
  <2>4. ASSUME NEW m \in 1 .. (n + 1) - 1
        PROVE  m = 1 \/ (m - 1 \in 1 .. n - 1 /\ todo[m] = s[m - 1])
    <3>1. m = 1 \/ (m - 1 \in 1 .. n - 1 /\ m - 1 \in 1 .. Len(s) /\ (m - 1) + 1 = m)
      BY <1>1, <2>4
    <3> QED BY <1>1, <3>1
  <2>5. ASSUME NEW t \in AllTables \ file'[c].tables
        PROVE  \E m \in 1 .. n - 1 : Creates(s[m], c, "create_table", t)
    <3>1. PICK m \in 1 .. (n + 1) - 1 : Creates(todo[m], c, "create_table", t)
      BY <2>2, <2>3, <2>5
    <3>2. m # 1
      BY <1>1, <2>5, <3>1 DEF Creates
    <3> QED BY <2>4, <3>1, <3>2
  <2>6. ASSUME NEW i \in ToSet(Indexes) \ file'[c].indexes
        PROVE  \E m \in 1 .. n - 1 : Creates(s[m], c, "create_index", i)
    <3>1. PICK m \in 1 .. (n + 1) - 1 : Creates(todo[m], c, "create_index", i)
      BY <2>2, <2>3, <2>6
    <3>2. m # 1
      BY <1>1, <2>6, <3>1 DEF Creates
    <3> QED BY <2>4, <3>1, <3>2
  <2> QED BY <2>5, <2>6
<1> QED BY <1>2, <1>3 DEF VersionIsLast, Before

(* The call of init_wallet or of reset_app.                                *)
LEMMA CallFits ==
  ASSUME SchemaInv, NEW what \in {"init", "reset"}, Call(ForEachCoin(what)),
         UNCHANGED <<file, opened, cutReset>>
  PROVE  SchemaInv'
<1> DEFINE e(n) == [do |-> what, coin |-> n - 1]
           s == ForEachCoin(what)
           S == {e(n) : n \in 1 .. CoinCount}
<1>1. CoinCount \in Nat
  BY SchemaAssumption DEF SchemaAssumption
<1>2. s = [n \in 1 .. CoinCount |-> e(n)] /\ \A n \in 1 .. CoinCount : e(n) \in S
  BY DEF ForEachCoin
<1>3. todo' = s /\ file' = file /\ cutReset' = cutReset
  BY DEF Call
<1>4. \A n \in 1 .. CoinCount : /\ e(n).do = what /\ StatementFits(e(n))
                                /\ OfReset(e(n)) <=> what = "reset"
  BY <1>1 DEF StatementFits, OfReset, Coin
<1> HIDE DEF e, s, S
<1>5. s \in Seq(S)
  BY <1>1, <1>2, IsASeq
<1>6. Len(s) = CoinCount /\ \A n \in 1 .. Len(s) : s[n] = e(n)
  BY <1>1, <1>2, <1>5, LenProperties
<1>7. TodoFits'
  <2>1. \A n \in 1 .. Len(s) : \A m \in 1 .. n - 1 :
          s[m].do \in {"open", "init"} => s[n].do = "init"
    <3> SUFFICES ASSUME NEW n \in 1 .. Len(s), NEW m \in 1 .. n - 1
                 PROVE  s[m].do = what /\ s[n].do = what
      OBVIOUS
    <3>1. m \in 1 .. Len(s)
      BY <1>1, <1>6
    <3> QED BY <1>4, <1>6, <3>1
  <2>2. (\A n \in 1 .. Len(s) : OfReset(s[n])) \/ (\A n \in 1 .. Len(s) : ~OfReset(s[n]))
    BY <1>4, <1>6
  <2> QED BY <1>3, <1>4, <1>5, <1>6, <2>1, <2>2 DEF TodoFits, IsList
<1>8. VersionIsLast'
  BY <1>3, <1>4, <1>6 DEF VersionIsLast
<1>9. FilesFit'
  BY <1>3 DEF SchemaInv, FilesFit, HasTables
<1> QED BY <1>7, <1>8, <1>9 DEF SchemaInv

(* Its turn: the statements of one coin take the place of the first, and   *)
(* the coins that follow have not begun.                                   *)
LEMMA BeginInitFits ==
  ASSUME SchemaInv, BeginInit
  PROVE  SchemaInv'
<1> DEFINE c == Head(todo).coin
           u == InitDb(c)
           r == Tail(todo)
           s == u \o r
           l == Len(u)
<1>1. todo # <<>> /\ Head(todo).do = "init" /\ todo' = s /\ file' = file /\ cutReset' = cutReset
  BY DEF BeginInit, Now
<1>2. /\ Head(todo) = todo[1] /\ 1 \in 1 .. Len(todo) /\ Len(todo) \in Nat
      /\ IsList(r) /\ Len(r) = Len(todo) - 1
      /\ \A n \in 1 .. Len(r) : r[n] = todo[n + 1] /\ n + 1 \in 1 .. Len(todo)
  BY <1>1, PopTodo DEF SchemaInv
<1>3. c \in Coin
  BY <1>2 DEF SchemaInv, TodoFits, StatementFits
<1>4. /\ IsList(u) /\ l \in Nat
      /\ \A n \in 1 .. l :
           /\ StatementFits(u[n]) /\ ~OfReset(u[n]) /\ u[n].coin = c /\ u[n].do # "init"
           /\ u[n].do = "open" => n = l
           /\ u[n].do = "set_version" /\ HasTables(c) =>
                /\ \A x \in AllTables \ file[c].tables :
                     \E m \in 1 .. n - 1 : Creates(u[m], c, "create_table", x)
                /\ \A x \in ToSet(Indexes) \ file[c].indexes :
                     \E m \in 1 .. n - 1 : Creates(u[m], c, "create_index", x)
  BY <1>3, InitDbFits DEF SchemaInv, FilesFit
<1>5. \A n \in 1 .. Len(r) : r[n].do = "init" /\ StatementFits(r[n]) /\ ~OfReset(r[n])
  <2> SUFFICES ASSUME NEW n \in 1 .. Len(r)
               PROVE  r[n].do = "init" /\ StatementFits(r[n]) /\ ~OfReset(r[n])
    OBVIOUS
  <2>1. 1 \in 1 .. (n + 1) - 1 /\ todo[1].do = "init"
    BY <1>1, <1>2
  <2>2. todo[n + 1].do = "init" /\ StatementFits(todo[n + 1])
    BY <1>2, <2>1 DEF SchemaInv, TodoFits
  <2> QED BY <1>2, <2>2 DEF OfReset
<1> HIDE DEF c, u, r
<1>6. /\ IsList(s) /\ Len(s) = l + Len(r) /\ Len(r) \in Nat
      /\ \A n \in 1 .. l + Len(r) : s[n] = IF n <= l THEN u[n] ELSE r[n - l]
  BY <1>2, <1>4, ElementsOfConcat
<1> HIDE DEF s, l
<1>7. \A n \in 1 .. Len(s) : \/ n \in 1 .. l /\ s[n] = u[n]
                             \/ n > l /\ s[n].do = "init" /\ StatementFits(s[n]) /\ ~OfReset(s[n])
  <2> SUFFICES ASSUME NEW n \in 1 .. Len(s), n > l
               PROVE  s[n].do = "init" /\ StatementFits(s[n]) /\ ~OfReset(s[n])
    BY <1>4, <1>6
  <2>1. n - l \in 1 .. Len(r) /\ s[n] = r[n - l]
    BY <1>4, <1>6
  <2> QED BY <1>5, <2>1
<1>8. TodoFits'
  <2>1. \A n \in 1 .. Len(s) : StatementFits(s[n]) /\ ~OfReset(s[n])
    BY <1>4, <1>7
  <2>2. ASSUME NEW n \in 1 .. Len(s), NEW m \in 1 .. n - 1, s[m].do \in {"open", "init"}
        PROVE  s[n].do = "init"
    <3>1. m \in 1 .. Len(s) /\ m < n
      BY <1>4, <1>6
    <3>2. m >= l
      BY <1>4, <1>7, <2>2, <3>1
    <3> QED BY <1>4, <1>7, <3>1, <3>2
  <2> QED BY <1>1, <1>6, <2>1, <2>2 DEF TodoFits
<1>9. VersionIsLast'
  <2> SUFFICES ASSUME NEW n \in 1 .. Len(s), s[n].do = "set_version", s[n].coin \notin cutReset
               PROVE  LET x == s[n].coin IN
                      /\ \A t \in AllTables \ file[x].tables :
                           \E m \in 1 .. n - 1 : Creates(s[m], x, "create_table", t)
                      /\ \A i \in ToSet(Indexes) \ file[x].indexes :
                           \E m \in 1 .. n - 1 : Creates(s[m], x, "create_index", i)
    BY <1>1 DEF VersionIsLast, Before
  <2>1. n \in 1 .. l /\ s[n] = u[n] /\ s[n].coin = c
    BY <1>4, <1>7
  <2>2. HasTables(c)
    BY <1>3, <2>1 DEF SchemaInv, FilesFit
  <2>3. \A m \in 1 .. n - 1 : s[m] = u[m]
    BY <1>4, <1>6, <2>1
  <2> QED BY <1>4, <2>1, <2>2, <2>3
<1>10. FilesFit'
  BY <1>1 DEF SchemaInv, FilesFit, HasTables
<1> QED BY <1>8, <1>9, <1>10 DEF SchemaInv

(* The same for a reset, whose statements are of no opening.                *)
LEMMA BeginResetFits ==
  ASSUME SchemaInv, BeginReset
  PROVE  SchemaInv'
<1> DEFINE c == Head(todo).coin
           d == Do("drop_table", c, ResetTables)
           v == SetVersion(c, 0)
           u == d \o v
           r == Tail(todo)
           s == u \o r
<1>1. /\ todo # <<>> /\ Head(todo).do = "reset" /\ todo' = s
      /\ file' = file /\ cutReset' = cutReset
  BY DEF BeginReset, Now, ResetDb
<1>2. /\ Head(todo) = todo[1] /\ 1 \in 1 .. Len(todo)
      /\ IsList(r) /\ \A n \in 1 .. Len(r) : r[n] = todo[n + 1] /\ n + 1 \in 1 .. Len(todo)
  BY <1>1, PopTodo DEF SchemaInv
<1>3. c \in Coin
  BY <1>2 DEF SchemaInv, TodoFits, StatementFits
<1>4. \A n \in 1 .. Len(todo) : OfReset(todo[n]) /\ StatementFits(todo[n])
  <2>1. OfReset(todo[1])
    BY <1>1, <1>2 DEF OfReset
  <2> QED BY <1>2, <2>1 DEF SchemaInv, TodoFits
<1>5. \A x \in Elements(r) : OfReset(x) /\ StatementFits(x) /\ x.do \notin {"open", "init"}
  <2>1. \A n \in 1 .. Len(r) : OfReset(r[n]) /\ StatementFits(r[n])
    BY <1>2, <1>4
  <2> QED BY <2>1 DEF Elements, OfReset
<1>6. IsList(d) /\ \A x \in Elements(d) : OfReset(x) /\ StatementFits(x) /\ x.do \notin {"open", "init"}
  <2>1. IsList(d) /\ Elements(d) = {[do |-> "drop_table", coin |-> c, name |-> x] : x \in ToSet(ResetTables)}
    BY NamesAreLists, ElementsOfDo
  <2>2. \A x : LET y == [do |-> "drop_table", coin |-> c, name |-> x]
               IN  OfReset(y) /\ StatementFits(y) /\ y.do \notin {"open", "init"}
    BY <1>3 DEF OfReset, StatementFits
  <2> QED BY <2>1, <2>2
<1>7. IsList(v) /\ \A x \in Elements(v) : OfReset(x) /\ StatementFits(x) /\ x.do \notin {"open", "init"}
  <2> DEFINE y == [do |-> "set_version", coin |-> c, version |-> 0]
  <2>1. OfReset(y) /\ StatementFits(y) /\ y.do \notin {"open", "init"}
    BY <1>3 DEF OfReset, StatementFits
  <2>2. v = <<y>>
    BY DEF SetVersion
  <2> HIDE DEF y
  <2>3. <<y>> \in Seq({y}) /\ Len(<<y>>) = 1 /\ <<y>>[1] = y
    OBVIOUS
  <2>4. \A n \in 1 .. Len(v) : v[n] = y
    BY <2>2, <2>3
  <2> QED BY <2>1, <2>2, <2>3, <2>4 DEF IsList, Elements
<1> HIDE DEF c, d, v, r
<1>8. IsList(u) /\ Elements(u) = Elements(d) \cup Elements(v)
  BY <1>6, <1>7, ElementsOfConcat
<1>9. IsList(s) /\ Elements(s) = Elements(u) \cup Elements(r)
  <2> HIDE DEF u
  <2> QED BY <1>2, <1>8, ElementsOfConcat
<1> HIDE DEF u, s
<1>10. \A n \in 1 .. Len(s) : OfReset(s[n]) /\ StatementFits(s[n]) /\ s[n].do \notin {"open", "init"}
  BY <1>5, <1>6, <1>7, <1>8, <1>9 DEF Elements
<1>11. ASSUME NEW n \in 1 .. Len(s), NEW m \in 1 .. n - 1
       PROVE  s[m].do \notin {"open", "init"}
  <2>1. Len(s) \in Nat
    BY <1>9, LenProperties DEF IsList
  <2>2. m \in 1 .. Len(s)
    BY <2>1
  <2> QED BY <1>10, <2>2
<1>12. TodoFits'
  BY <1>1, <1>9, <1>10, <1>11 DEF TodoFits
<1>13. VersionIsLast'
  BY <1>1, <1>10 DEF VersionIsLast, OfReset
<1>14. FilesFit'
  BY <1>1 DEF SchemaInv, FilesFit, HasTables
<1> QED BY <1>12, <1>13, <1>14 DEF SchemaInv

(* The statement that runs, and the file of its coin.                      *)
LEMMA RunsOn ==
  ASSUME SchemaInv, todo # <<>>
  PROVE  LET c == Head(todo).coin
         IN  /\ Head(todo) = todo[1] /\ 1 \in 1 .. Len(todo)
             /\ StatementFits(Head(todo)) /\ c \in Coin /\ c \in DOMAIN file
             /\ file[c] = [version |-> file[c].version, tables |-> file[c].tables,
                           indexes |-> file[c].indexes]
             /\ file[c].tables \subseteq AllTables /\ file[c].indexes \subseteq ToSet(Indexes)
BY PopTodo DEF SchemaInv, TodoFits, StatementFits, FilesFit

(* A statement that changes the file of one coin.                          *)
LEMMA OneFileFits ==
  ASSUME SchemaInv, NEW c \in Coin, NEW v \in 0 .. CurrentVersion,
         NEW t \in SUBSET AllTables, NEW i \in SUBSET ToSet(Indexes),
         \A x \in Coin \ {c} : file'[x] = file[x],
         file'[c] = [version |-> v, tables |-> t, indexes |-> i],
         DOMAIN file' = DOMAIN file,
         cutReset \ {c} \subseteq cutReset',
         c \in cutReset' \/ HasTables(c)'
  PROVE  FilesFit'
<1>1. ASSUME NEW x \in Coin
      PROVE  /\ file'[x] = [version |-> file'[x].version, tables |-> file'[x].tables,
                            indexes |-> file'[x].indexes]
             /\ file'[x].version \in 0 .. CurrentVersion
             /\ file'[x].tables \subseteq AllTables /\ file'[x].indexes \subseteq ToSet(Indexes)
             /\ x \in cutReset' \/ HasTables(x)'
  <2>1. CASE x = c
    BY <2>1
  <2>2. CASE x # c
    BY <2>2 DEF SchemaInv, FilesFit, HasTables
  <2> QED BY <2>1, <2>2
<1> QED BY <1>1 DEF SchemaInv, FilesFit

(* A table is made.                                                        *)
LEMMA CreateTableFits ==
  ASSUME SchemaInv, CreateTable
  PROVE  SchemaInv'
<1> DEFINE h == Head(todo)
<1>0. PICK c \in Coin : c = h.coin
  BY RunsOn DEF CreateTable, Now
<1>1. /\ todo # <<>> /\ h.do = "create_table" /\ todo' = Tail(todo) /\ cutReset' = cutReset
      /\ file' = [file EXCEPT ![c].tables = @ \cup {h.name}]
  BY <1>0 DEF CreateTable, Now
<1>2. /\ StatementFits(h) /\ c \in Coin /\ c \in DOMAIN file
      /\ file[c] = [version |-> file[c].version, tables |-> file[c].tables,
                    indexes |-> file[c].indexes]
      /\ file[c].tables \subseteq AllTables /\ file[c].indexes \subseteq ToSet(Indexes)
      /\ file[c].version \in 0 .. CurrentVersion /\ DOMAIN file = Coin
  BY <1>0, <1>1, RunsOn DEF SchemaInv, FilesFit
<1>3. h.name \in AllTables
  BY <1>1, <1>2 DEF StatementFits
<1> HIDE DEF h
<1>4. /\ file'[c] = [version |-> file[c].version, tables |-> file[c].tables \cup {h.name},
                     indexes |-> file[c].indexes]
      /\ DOMAIN file' = DOMAIN file /\ \A x \in Coin \ {c} : file'[x] = file[x]
  BY <1>1, <1>2
<1>5. FilesFit'
  <2>1. c \in cutReset' \/ HasTables(c)'
    BY <1>1, <1>2, <1>4 DEF SchemaInv, FilesFit, HasTables
  <2> QED BY <1>1, <1>2, <1>3, <1>4, <2>1, OneFileFits
<1>6. \A x \in Coin : file[x].tables \subseteq file'[x].tables
                      /\ file[x].indexes \subseteq file'[x].indexes
  BY <1>4
<1>7. \A x : /\ Creates(h, c, "create_table", x) => x \in file'[c].tables
             /\ Creates(h, c, "create_index", x) => x \in file'[c].indexes
  BY <1>1, <1>4 DEF Creates
<1>8. VersionIsLast'
  BY <1>1, <1>6, <1>7, <1>0, StillLast DEF h
<1>9. TodoFits'
  BY <1>1, TodoGoesOn DEF SchemaInv
<1> QED BY <1>5, <1>8, <1>9 DEF SchemaInv

(* An index is made.                                                       *)
LEMMA CreateIndexFits ==
  ASSUME SchemaInv, CreateIndex
  PROVE  SchemaInv'
<1> DEFINE h == Head(todo)
<1>0. PICK c \in Coin : c = h.coin
  BY RunsOn DEF CreateIndex, Now
<1>1. /\ todo # <<>> /\ h.do = "create_index" /\ todo' = Tail(todo) /\ cutReset' = cutReset
      /\ file' = [file EXCEPT ![c].indexes = @ \cup {h.name}]
  BY <1>0 DEF CreateIndex, Now
<1>2. /\ StatementFits(h) /\ c \in Coin /\ c \in DOMAIN file
      /\ file[c] = [version |-> file[c].version, tables |-> file[c].tables,
                    indexes |-> file[c].indexes]
      /\ file[c].tables \subseteq AllTables /\ file[c].indexes \subseteq ToSet(Indexes)
      /\ file[c].version \in 0 .. CurrentVersion /\ DOMAIN file = Coin
  BY <1>0, <1>1, RunsOn DEF SchemaInv, FilesFit
<1>3. h.name \in ToSet(Indexes)
  BY <1>1, <1>2 DEF StatementFits
<1> HIDE DEF h
<1>4. /\ file'[c] = [version |-> file[c].version, tables |-> file[c].tables,
                     indexes |-> file[c].indexes \cup {h.name}]
      /\ DOMAIN file' = DOMAIN file /\ \A x \in Coin \ {c} : file'[x] = file[x]
  BY <1>1, <1>2
<1>5. FilesFit'
  <2>1. c \in cutReset' \/ HasTables(c)'
    BY <1>1, <1>2, <1>4 DEF SchemaInv, FilesFit, HasTables
  <2> QED BY <1>1, <1>2, <1>3, <1>4, <2>1, OneFileFits
<1>6. \A x \in Coin : file[x].tables \subseteq file'[x].tables
                      /\ file[x].indexes \subseteq file'[x].indexes
  BY <1>4
<1>7. \A x : /\ Creates(h, c, "create_table", x) => x \in file'[c].tables
             /\ Creates(h, c, "create_index", x) => x \in file'[c].indexes
  BY <1>1, <1>4 DEF Creates
<1>8. VersionIsLast'
  BY <1>1, <1>6, <1>7, <1>0, StillLast DEF h
<1>9. TodoFits'
  BY <1>1, TodoGoesOn DEF SchemaInv
<1> QED BY <1>5, <1>8, <1>9 DEF SchemaInv

(* A call whose first statement is of a reset has no other ones.           *)
LEMMA AllOfReset ==
  ASSUME SchemaInv, todo # <<>>, OfReset(Head(todo)), todo' = Tail(todo)
  PROVE  TodoFits' /\ VersionIsLast'
<1>1. \A n \in 1 .. Len(todo) : OfReset(todo[n])
  BY RunsOn DEF SchemaInv, TodoFits
<1>2. \A n \in 1 .. Len(todo') : OfReset(todo'[n])
  BY <1>1, PopTodo DEF SchemaInv
<1>3. VersionIsLast'
  BY <1>2 DEF VersionIsLast, OfReset
<1> QED BY <1>3, TodoGoesOn DEF SchemaInv

(* A table is dropped, and its coin is one of a reset that is not over.     *)
LEMMA DropTableFits ==
  ASSUME SchemaInv, DropTable
  PROVE  SchemaInv'
<1> DEFINE h == Head(todo)
<1>0. PICK c \in Coin : c = h.coin
  BY RunsOn DEF DropTable, Now
<1> DEFINE t == file[c].tables \ {h.name}
           i == {x \in file[c].indexes : TableOf[x] # h.name}
<1>1. /\ todo # <<>> /\ h.do = "drop_table" /\ todo' = Tail(todo)
      /\ cutReset' = cutReset \cup {c}
      /\ file' = [file EXCEPT ![c].tables = @ \ {h.name},
                              ![c].indexes = {x \in @ : TableOf[x] # h.name}]
  BY <1>0 DEF DropTable, Now
<1>2. /\ c \in Coin /\ c \in DOMAIN file
      /\ file[c] = [version |-> file[c].version, tables |-> file[c].tables,
                    indexes |-> file[c].indexes]
      /\ file[c].tables \subseteq AllTables /\ file[c].indexes \subseteq ToSet(Indexes)
      /\ file[c].version \in 0 .. CurrentVersion
  BY <1>0, <1>1, RunsOn DEF SchemaInv, FilesFit
<1>3. t \in SUBSET AllTables /\ i \in SUBSET ToSet(Indexes)
  BY <1>2
<1>4. file'[c] = [version |-> file[c].version, tables |-> t, indexes |-> i]
      /\ DOMAIN file' = DOMAIN file /\ \A x \in Coin \ {c} : file'[x] = file[x]
  <2> DEFINE one == [file EXCEPT ![c].tables = t]
  <2>1. one[c] = [version |-> file[c].version, tables |-> t, indexes |-> file[c].indexes]
        /\ DOMAIN one = DOMAIN file /\ \A x \in Coin \ {c} : one[x] = file[x]
    BY <1>2
  <2>2. file' = [one EXCEPT ![c].indexes = {x \in @ : TableOf[x] # h.name}]
    BY <1>1
  <2>3. i = {x \in one[c].indexes : TableOf[x] # h.name}
    BY <2>1
  <2> HIDE DEF one, i, t
  <2>4. file' = [one EXCEPT ![c].indexes = i]
    BY <2>2, <2>3
  <2> QED BY <1>2, <2>1, <2>4
<1> HIDE DEF t, i
<1>5. FilesFit'
  BY <1>1, <1>2, <1>3, <1>4, OneFileFits
<1>6. TodoFits' /\ VersionIsLast'
  BY <1>1, AllOfReset DEF OfReset
<1> QED BY <1>5, <1>6 DEF SchemaInv

(* The version is the last thing that is written, and the first that is    *)
(* taken back only of a file that has been dropped already.                *)
LEMMA VersionFits ==
  ASSUME SchemaInv, UpdateSchemaVersion
  PROVE  SchemaInv'
<1> DEFINE h == Head(todo)
           v == h.version
<1>0. PICK c \in Coin : c = h.coin
  BY RunsOn DEF UpdateSchemaVersion, Now
<1>1. /\ todo # <<>> /\ h.do = "set_version" /\ todo' = Tail(todo)
      /\ cutReset' = IF v = 0 THEN cutReset \ {c} ELSE cutReset
      /\ file' = [file EXCEPT ![c].version = v]
  BY <1>0 DEF UpdateSchemaVersion, Now
<1>2. /\ h = todo[1] /\ 1 \in 1 .. Len(todo) /\ StatementFits(h) /\ c \in Coin /\ c \in DOMAIN file
      /\ file[c] = [version |-> file[c].version, tables |-> file[c].tables,
                    indexes |-> file[c].indexes]
      /\ file[c].tables \subseteq AllTables /\ file[c].indexes \subseteq ToSet(Indexes)
  BY <1>0, <1>1, RunsOn
<1>3. v \in {0, 3} /\ v \in 0 .. CurrentVersion
  BY <1>1, <1>2 DEF StatementFits, CurrentVersion
<1>4. file'[c] = [version |-> v, tables |-> file[c].tables, indexes |-> file[c].indexes]
      /\ DOMAIN file' = DOMAIN file /\ \A x \in Coin \ {c} : file'[x] = file[x]
  BY <1>1, <1>2
<1>5. CASE v = 0
  <2>1. HasTables(c)'
    BY <1>4, <1>5 DEF HasTables, CurrentVersion
  <2>2. cutReset \ {c} \subseteq cutReset'
    BY <1>1
  <2>3. FilesFit'
    <3> HIDE DEF h, v
    <3> QED BY <1>2, <1>3, <1>4, <2>1, <2>2, OneFileFits
  <2>4. TodoFits' /\ VersionIsLast'
    BY <1>1, <1>5, AllOfReset DEF OfReset
  <2> QED BY <2>3, <2>4 DEF SchemaInv
<1>6. CASE v # 0
  <2>1. c \in cutReset \/ (AllTables \subseteq file[c].tables /\ ToSet(Indexes) \subseteq file[c].indexes)
    <3>1. \A x : ~Before(1, c, "create_table", x) /\ ~Before(1, c, "create_index", x)
      BY DEF Before
    <3>2. todo[1].do = "set_version" /\ todo[1].version # 0 /\ todo[1].coin = c
      BY <1>0, <1>1, <1>2, <1>6
    <3>3. \/ c \in cutReset
          \/ /\ \A t \in AllTables \ file[c].tables : Before(1, c, "create_table", t)
             /\ \A i \in ToSet(Indexes) \ file[c].indexes : Before(1, c, "create_index", i)
      <4> HIDE DEF h, v
      <4> QED BY <1>2, <3>2 DEF SchemaInv, VersionIsLast
    <3> QED BY <3>1, <3>3
  <2>2. cutReset' = cutReset
    BY <1>1, <1>6
  <2>3. c \in cutReset' \/ HasTables(c)'
    BY <1>4, <2>1, <2>2 DEF HasTables, AllTables
  <2>4. FilesFit'
    <3> HIDE DEF h, v
    <3> QED BY <1>2, <1>3, <1>4, <2>2, <2>3, OneFileFits
  <2>5. \A x \in Coin : file[x].tables \subseteq file'[x].tables
                        /\ file[x].indexes \subseteq file'[x].indexes
    BY <1>4
  <2>6. \A x : ~Creates(h, c, "create_table", x) /\ ~Creates(h, c, "create_index", x)
    BY <1>1 DEF Creates
  <2>7. VersionIsLast'
    BY <1>0, <1>1, <2>2, <2>5, <2>6, StillLast
  <2>8. TodoFits'
    BY <1>1, TodoGoesOn DEF SchemaInv
  <2> QED BY <2>4, <2>7, <2>8 DEF SchemaInv
<1> QED BY <1>5, <1>6

(* What is left after an error: nothing, or the coins that follow.         *)
LEMMA ErrorFits ==
  ASSUME SchemaInv, StatementError
  PROVE  SchemaInv'
<1>1. file' = file /\ cutReset' = cutReset
  BY DEF StatementError
<1>2. FilesFit'
  BY <1>1 DEF SchemaInv, FilesFit, HasTables
<1>3. CASE todo' = <<>>
  BY <1>2, <1>3, EmptySeq DEF SchemaInv, TodoFits, VersionIsLast, IsList
<1>4. CASE todo' # <<>>
  <2>1. PICK k \in DOMAIN todo : todo[k].do = "open" /\ todo' = SubSeq(todo, k + 1, Len(todo))
    BY <1>4 DEF StatementError
  <2>2. PICK S : todo \in Seq(S)
    BY DEF SchemaInv, TodoFits, IsList
  <2> DEFINE l == Len(todo)
             s == SubSeq(todo, k + 1, l)
  <2>3. l \in Nat /\ k \in 1 .. l
    BY <2>1, <2>2, LenProperties
  <2>4. s \in Seq(S) /\ Len(s) = l - k /\ \A n \in 1 .. l - k : s[n] = todo[k + n]
    <3>1. \A n \in k + 1 .. l : todo[n] \in S
      BY <2>2, <2>3, ElementOfSeq
    <3>2. PICK m \in Int : m = k + 1
      BY <2>3
    <3> DEFINE r == SubSeq(todo, m, l)
    <3>3. /\ r \in Seq(S) /\ Len(r) = IF m <= l THEN l - m + 1 ELSE 0
          /\ \A n \in 1 .. l - m + 1 : r[n] = todo[m + n - 1]
      <4>1. l \in Int /\ \A n \in m .. l : todo[n] \in S
        BY <2>3, <3>1, <3>2
      <4> HIDE DEF l
      <4> QED BY <4>1, SubSeqProperties
    <3>4. s = r
      BY <3>2
    <3> HIDE DEF r, s, l
    <3>5. \A n \in 1 .. l - k : n \in 1 .. l - m + 1 /\ m + n - 1 = k + n
      BY <2>3, <3>2
    <3> QED BY <2>3, <3>2, <3>3, <3>4, <3>5
  <2> HIDE DEF s
  <2>5. ASSUME NEW n \in 1 .. Len(s)
        PROVE  StatementFits(s[n]) /\ s[n].do = "init" /\ ~OfReset(s[n])
    <3>1. k + n \in 1 .. l /\ k \in 1 .. (k + n) - 1 /\ s[n] = todo[k + n]
      BY <2>3, <2>4
    <3>2. todo[k + n].do = "init" /\ StatementFits(todo[k + n])
      BY <2>1, <3>1 DEF SchemaInv, TodoFits
    <3> QED BY <3>1, <3>2 DEF OfReset
  <2>6. todo' = s
    BY <2>1 DEF s
  <2>7. TodoFits'
    BY <2>4, <2>5, <2>6 DEF TodoFits, IsList
  <2>8. VersionIsLast'
    BY <2>5, <2>6 DEF VersionIsLast
  <2> QED BY <1>2, <2>7, <2>8 DEF SchemaInv
<1> QED BY <1>3, <1>4

(* Whatever calls are made, errors come and crashes cut them short, a file *)
(* that carries the current version is complete, unless a reset of it has  *)
(* been cut short (migration.rs:23-33, 43-178).                            *)
THEOREM VersionIsPromise == SchemaSpec => []VersionMeansComplete
<1>1. SchemaInv /\ [SchemaNext]_schemaVars => SchemaInv'
  <2> SUFFICES ASSUME SchemaInv, [SchemaNext]_schemaVars PROVE SchemaInv'
    OBVIOUS
  <2>1. CASE InitWallet \/ ResetApp
    BY <2>1, CallFits DEF InitWallet, ResetApp
  <2>2. CASE BeginInit
    BY <2>2, BeginInitFits
  <2>3. CASE BeginReset
    BY <2>3, BeginResetFits
  <2>4. CASE CreateTable
    BY <2>4, CreateTableFits
  <2>5. CASE CreateIndex
    BY <2>5, CreateIndexFits
  <2>6. CASE DropTable
    BY <2>6, DropTableFits
  <2>7. CASE UpdateSchemaVersion
    BY <2>7, VersionFits
  <2>8. CASE OpenCoin
    <3>1. /\ todo # <<>> /\ Head(todo).do = "open" /\ todo' = Tail(todo)
          /\ file' = file /\ cutReset' = cutReset
      BY <2>8 DEF OpenCoin, Now
    <3>2. FilesFit'
      BY <3>1 DEF SchemaInv, FilesFit, HasTables
    <3>3. \A x : /\ ~Creates(Head(todo), Head(todo).coin, "create_table", x)
                 /\ ~Creates(Head(todo), Head(todo).coin, "create_index", x)
      BY <3>1 DEF Creates
    <3>4. VersionIsLast'
      BY <3>1, <3>3, StillLast
    <3> QED BY <3>1, <3>2, <3>4, TodoGoesOn DEF SchemaInv
  <2>9. CASE StatementError
    BY <2>9, ErrorFits
  <2>10. CASE EndOfProcess
    <3>1. todo' = <<>> /\ file' = file /\ cutReset' = cutReset
      BY <2>10 DEF EndOfProcess
    <3>2. TodoFits' /\ VersionIsLast'
      BY <3>1, EmptySeq DEF TodoFits, VersionIsLast, IsList
    <3> QED BY <3>1, <3>2 DEF SchemaInv, FilesFit, HasTables
  <2>11. CASE UNCHANGED schemaVars
    <3>1. todo' = todo /\ file' = file /\ cutReset' = cutReset
      BY <2>11 DEF schemaVars
    <3>2. TodoFits' /\ VersionIsLast'
      BY <3>1 DEF SchemaInv, TodoFits, VersionIsLast, Before
    <3> QED BY <3>1, <3>2 DEF SchemaInv, FilesFit, HasTables
  <2> QED BY <2>1, <2>2, <2>3, <2>4, <2>5, <2>6, <2>7, <2>8, <2>9, <2>10, <2>11 DEF SchemaNext
<1>2. SchemaInv => VersionMeansComplete
  BY DEF SchemaInv, FilesFit, HasTables, VersionMeansComplete, CurrentVersion
<1> QED BY <1>1, <1>2, SchemaInvInit, PTL DEF SchemaSpec

-----------------------------------------------------------------------------
(***************************************************************************)
(* Every quote of a call is stored: no day of a request is there already.  *)
(***************************************************************************)
PricesInv ==
    /\ now \in Nat
    /\ \E b \in Nat : quotes \subseteq 0 .. b
    /\ QuotesStored

(* Numbers below a bound have a greatest one.                              *)
LEMMA GreatestOf ==
  ASSUME NEW S, S \subseteq Int, S # {}, NEW b \in Int, \A x \in S : x <= b
  PROVE  Max(S) \in S /\ \A x \in S : x <= Max(S)
<1> DEFINE T == {b - x : x \in S}
           R == OpToRel(<, Nat)
<1>1. T \subseteq Nat
  OBVIOUS
<1>2. PICK x \in S : TRUE
  OBVIOUS
<1>3. b - x \in T
  BY <1>2
<1>4. PICK t \in T : \A u \in T : ~ (<<u, t>> \in R)
  <2>1. IsWellFoundedOn(R, Nat)
    BY NatLessThanWellFounded
  <2> HIDE DEF R, T
  <2> QED BY <1>1, <1>3, <2>1, WFMin
<1>5. \A u \in T : t <= u
  <2> SUFFICES ASSUME NEW u \in T PROVE t <= u
    OBVIOUS
  <2>1. u \in Nat /\ t \in Nat
    BY <1>1
  <2>2. ~(u < t)
    BY <1>4, <2>1 DEF OpToRel
  <2> QED BY <2>1, <2>2
<1>6. PICK m \in S : t = b - m
  OBVIOUS
<1>7. \A y \in S : m >= y
  <2> SUFFICES ASSUME NEW y \in S PROVE m >= y
    OBVIOUS
  <2>1. t <= b - y
    BY <1>5
  <2> QED BY <1>6, <2>1
<1>8. Max(S) \in S /\ \A y \in S : Max(S) >= y
  BY <1>6, <1>7 DEF Max
<1>9. Max(S) \in Int
  BY <1>8
<1> QED BY <1>8, <1>9

(* The times of a request are of days that are not stored.                 *)
LEMMA AskedIsNew ==
  ASSUME PricesAssumption, PricesInv, NEW days \in Nat
  PROVE  /\ Today \in Nat
         /\ \A t \in Asked(days) : t \in Int /\ t \div DaySec \in Nat
                                   /\ t \div DaySec \notin quotes /\ t \div DaySec <= Today
<1>1. DaySec \in Nat \ {0} /\ now \in Nat
  BY DEF PricesAssumption, PricesInv
<1>2. Today \in Nat
  BY <1>1 DEF Today
<1>3. PICK b \in Nat : quotes \subseteq 0 .. b
  BY DEF PricesInv
<1> DEFINE S == {0, Today - days} \cup quotes
           l == LatestDay(days)
<1>4. l \in S /\ \A x \in S : x <= l
  <2>1. S \subseteq Int /\ S # {} /\ b + Today \in Int /\ \A x \in S : x <= b + Today
    BY <1>2, <1>3
  <2> HIDE DEF S
  <2>2. Max(S) \in S /\ \A x \in S : x <= Max(S)
    BY <2>1, GreatestOf
  <2> QED BY <2>2 DEF LatestDay, S
<1>5. l \in Nat /\ \A q \in quotes : q <= l
  <2> HIDE DEF l
  <2>1. l \in Int
    BY <1>2, <1>3, <1>4
  <2>2. 0 <= l /\ \A q \in quotes : q <= l
    BY <1>4
  <2> QED BY <2>1, <2>2
<1>6. Asked(days) = (l + 1) * DaySec .. Today * DaySec
  BY DEF Asked
<1> HIDE DEF l, S
<1>7. ASSUME NEW t \in (l + 1) * DaySec .. Today * DaySec
      PROVE  t \in Int /\ t \div DaySec \in Int /\ t \div DaySec >= l + 1 /\ t \div DaySec <= Today
  <2> DEFINE d == t \div DaySec
  <2>1. t \in Int /\ (l + 1) * DaySec <= t /\ t <= Today * DaySec
    <3>1. (l + 1) * DaySec \in Int /\ Today * DaySec \in Int
      BY <1>1, <1>2, <1>5
    <3> QED BY <3>1
  <2>2. d \in Int /\ DaySec * d <= t /\ t < DaySec * d + DaySec
    BY <1>1, <2>1
  <2> HIDE DEF d
  <2>3. d >= l + 1
    <3> SUFFICES ASSUME d + 1 <= l + 1 PROVE FALSE
      BY <1>5, <2>2
    <3>1. (d + 1) * DaySec <= (l + 1) * DaySec
      BY <1>1, <1>5, <2>2
    <3>2. DaySec * d + DaySec = (d + 1) * DaySec
      BY <1>1, <2>2
    <3> QED BY <1>1, <1>5, <2>1, <2>2, <3>1, <3>2
  <2>4. d <= Today
    <3> SUFFICES ASSUME Today + 1 <= d PROVE FALSE
      BY <1>2, <2>2
    <3>1. (Today + 1) * DaySec <= d * DaySec
      BY <1>1, <1>2, <2>2
    <3>2. (Today + 1) * DaySec = Today * DaySec + DaySec /\ d * DaySec = DaySec * d
      BY <1>1, <1>2, <2>2
    <3>3. Today * DaySec \in Int
      BY <1>1, <1>2
    <3> QED BY <1>1, <2>1, <2>2, <3>1, <3>2, <3>3
  <2> QED BY <2>1, <2>2, <2>3, <2>4 DEF d
<1>8. ASSUME NEW t \in Asked(days)
      PROVE  t \in Int /\ t \div DaySec \in Nat /\ t \div DaySec \notin quotes /\ t \div DaySec <= Today
  <2>1. t \in Int /\ t \div DaySec \in Int /\ t \div DaySec >= l + 1 /\ t \div DaySec <= Today
    BY <1>6, <1>7
  <2> DEFINE d == t \div DaySec
  <2> HIDE DEF d
  <2>2. d \in Int /\ d >= l + 1 => d \in Nat /\ d \notin quotes
    BY <1>5
  <2> QED BY <2>1, <2>2 DEF d
<1> QED BY <1>2, <1>8

(* The first prices of the days of a reply are of different days.          *)
LEMMA DaysDiffer ==
  ASSUME PricesAssumption, NEW times \in SUBSET Int, NEW reply \in PriceReplies(times),
         NEW n \in Daily(reply), NEW m \in Daily(reply), m < n
  PROVE  Day(reply, m) # Day(reply, n)
<1>1. PICK k \in Nat : reply \in [1 .. k -> times]
                       /\ \A i, j \in 1 .. k : i < j => reply[i] < reply[j]
  BY DEF PriceReplies
<1>2. n \in 1 .. k /\ m \in 1 .. k /\ n - 1 \in 1 .. k /\ m <= n - 1 /\ n # 1
  BY <1>1 DEF Daily
<1>3. Day(reply, n) # Day(reply, n - 1)
  BY <1>2 DEF Daily
<1>4. reply[m] <= reply[n - 1] /\ reply[n - 1] <= reply[n]
      /\ reply[m] \in Int /\ reply[n - 1] \in Int /\ reply[n] \in Int
  <2>1. reply[m] \in Int /\ reply[n - 1] \in Int /\ reply[n] \in Int
    BY <1>1, <1>2
  <2>2. reply[n - 1] < reply[n]
    BY <1>1, <1>2
  <2>3. m = n - 1 \/ reply[m] < reply[n - 1]
    BY <1>1, <1>2
  <2> QED BY <2>1, <2>2, <2>3
<1>5. ASSUME NEW x \in Int, NEW y \in Int, x <= y
      PROVE  x \div DaySec \in Int /\ y \div DaySec \in Int /\ x \div DaySec <= y \div DaySec
  <2> DEFINE a == x \div DaySec
             c == y \div DaySec
  <2>1. DaySec \in Nat \ {0}
    BY DEF PricesAssumption
  <2>2. a \in Int /\ c \in Int /\ DaySec * a <= x /\ y < DaySec * c + DaySec
    BY <2>1
  <2> HIDE DEF a, c
  <2>3. a <= c
    <3> SUFFICES ASSUME c + 1 <= a PROVE FALSE
      BY <2>2
    <3>1. DaySec * (c + 1) <= DaySec * a
      BY <2>1, <2>2
    <3>2. DaySec * (c + 1) = DaySec * c + DaySec
      BY <2>1, <2>2
    <3> QED BY <1>5, <2>1, <2>2, <3>1, <3>2
  <2> QED BY <2>2, <2>3 DEF a, c
<1>6. Day(reply, m) <= Day(reply, n - 1) /\ Day(reply, n - 1) <= Day(reply, n)
      /\ Day(reply, m) \in Int /\ Day(reply, n - 1) \in Int /\ Day(reply, n) \in Int
  BY <1>4, <1>5 DEF Day
<1> QED BY <1>3, <1>6

(* What a call gets is new, and kept.                                      *)
LEMMA FetchKeeps ==
  ASSUME PricesAssumption, PricesInv, NEW days \in Windows, SyncHistoricalPrices(days)
  PROVE  PricesInv'
<1>1. days \in Nat /\ now' = now /\ now \in Nat
  BY DEF PricesAssumption, PricesInv, SyncHistoricalPrices
<1>2. PICK b \in Nat : quotes \subseteq 0 .. b
  BY DEF PricesInv
<1>3. CASE LatestDay(days) < Today
  <2> DEFINE times == Asked(days)
  <2>1. PICK reply \in PriceReplies(times) : Store(reply)
    BY <1>3 DEF SyncHistoricalPrices
  <2>2. Today \in Nat
        /\ \A t \in times : t \in Int /\ t \div DaySec \in Nat
                            /\ t \div DaySec \notin quotes /\ t \div DaySec <= Today
    BY <1>1, AskedIsNew
  <2>3. PICK k \in Nat : reply \in [1 .. k -> times]
    BY DEF PriceReplies
  <2> HIDE DEF times
  <2>4. \A n \in Daily(reply) : Day(reply, n) \in Nat /\ Day(reply, n) \notin quotes
                                /\ Day(reply, n) <= Today
    BY <2>2, <2>3 DEF Daily, Day
  <2>5. \A n, m \in Daily(reply) : m < n => Day(reply, m) # Day(reply, n)
    <3>1. times \in SUBSET Int
      BY <2>2
    <3> QED BY <3>1, DaysDiffer
  <2>6. quotes' = quotes \cup {Day(reply, n) : n \in Daily(reply)} /\ lastStored' = TRUE
    BY <2>1, <2>4, <2>5 DEF Store
  <2>7. quotes' \subseteq 0 .. b + Today /\ b + Today \in Nat
    <3>1. b + Today \in Nat /\ \A q \in quotes : q \in 0 .. b + Today
      BY <1>2, <2>2
    <3>2. \A n \in Daily(reply) : Day(reply, n) \in 0 .. b + Today
      BY <1>2, <2>2, <2>4
    <3> QED BY <2>6, <3>1, <3>2
  <2> QED BY <1>1, <2>6, <2>7 DEF PricesInv, QuotesStored
<1>4. CASE ~(LatestDay(days) < Today)
  <2>1. Store(<<>>)
    BY <1>4 DEF SyncHistoricalPrices
  <2>2. Daily(<<>>) = {}
    BY DEF Daily
  <2>3. quotes' = quotes /\ lastStored' = TRUE
    BY <2>1, <2>2 DEF Store
  <2> QED BY <1>1, <1>2, <2>3 DEF PricesInv, QuotesStored
<1> QED BY <1>3, <1>4

(* No call asks for a day that it has, or keeps one twice, whatever windows *)
(* and clocks the calls before it had (prices.rs:21-34, 54-60).            *)
THEOREM QuotesAreStored == PricesSpec => []QuotesStored
<1>1. PricesInit => PricesInv
  BY PricesAssumption DEF PricesAssumption, PricesInit, PricesInv, QuotesStored
<1>2. PricesInv /\ [PricesNext]_priceVars => PricesInv'
  <2> SUFFICES ASSUME PricesInv, [PricesNext]_priceVars PROVE PricesInv'
    OBVIOUS
  <2>1. CASE \E days \in Windows : SyncHistoricalPrices(days)
    BY <2>1, FetchKeeps, PricesAssumption
  <2>2. CASE \E t \in DaySec .. MaxDay * DaySec : ClockMoves(t)
    BY <2>2, PricesAssumption DEF ClockMoves, PricesInv, QuotesStored, PricesAssumption
  <2>3. CASE UNCHANGED priceVars
    BY <2>3 DEF priceVars, PricesInv, QuotesStored
  <2> QED BY <2>1, <2>2, <2>3 DEF PricesNext
<1>3. PricesInv => QuotesStored
  BY DEF PricesInv
<1> QED BY <1>1, <1>2, <1>3, PTL DEF PricesSpec

-----------------------------------------------------------------------------
(***************************************************************************)
(* The accounts: what the statements of a call that is cut short can leave *)
(* behind, and what a backup restores.                                     *)
(***************************************************************************)

(* Sequences of any elements.                                              *)
IsSeq(s) == s \in Seq(ToSet(s))

LEMMA TypedIsSeq ==
  ASSUME NEW S, NEW s \in Seq(S)
  PROVE  IsSeq(s)
BY SeqOfRange DEF IsSeq, ToSet, Range

LEMMA PopSeq ==
  ASSUME NEW s, IsSeq(s), s # <<>>
  PROVE  /\ IsSeq(Tail(s)) /\ Len(s) \in Nat /\ Len(s) >= 1
         /\ Len(Tail(s)) = Len(s) - 1 /\ Head(s) = s[1]
         /\ \A n \in 1 .. Len(Tail(s)) : n + 1 \in 1 .. Len(s) /\ Tail(s)[n] = s[n + 1]
<1>1. s \in Seq(ToSet(s))
  BY DEF IsSeq
<1>2. Tail(s) \in Seq(ToSet(s)) /\ Len(Tail(s)) = Len(s) - 1
      /\ \A n \in 1 .. Len(Tail(s)) : Tail(s)[n] = s[n + 1]
  BY <1>1, HeadTailProperties
<1>3. Len(s) \in Nat /\ Len(s) >= 1 /\ Head(s) = s[1]
  BY <1>1, EmptySeq
<1>4. IsSeq(Tail(s))
  BY <1>2, TypedIsSeq
<1>5. \A n \in 1 .. Len(Tail(s)) : n + 1 \in 1 .. Len(s)
  BY <1>2, <1>3
<1> QED BY <1>2, <1>3, <1>4, <1>5

LEMMA PushSeq ==
  ASSUME NEW s, IsSeq(s), NEW x
  PROVE  /\ IsSeq(<<x>> \o s) /\ <<x>> \o s # <<>> /\ Len(s) \in Nat
         /\ Len(<<x>> \o s) = Len(s) + 1 /\ (<<x>> \o s)[1] = x
         /\ \A n \in 1 .. Len(s) : (<<x>> \o s)[n + 1] = s[n]
<1> DEFINE S == ToSet(s) \cup {x}
<1>1. s \in Seq(S) /\ <<x>> \in Seq(S) /\ Len(s) \in Nat
  BY DEF IsSeq
<1> HIDE DEF S
<1>2. <<x>> \o s \in Seq(S) /\ Len(<<x>> \o s) = Len(s) + 1 /\ (<<x>> \o s)[1] = x
      /\ \A n \in 1 .. Len(s) : (<<x>> \o s)[n + 1] = s[n]
  BY <1>1
<1>3. <<x>> \o s # <<>>
  BY <1>1, <1>2
<1>4. IsSeq(<<x>> \o s)
  BY <1>2, TypedIsSeq
<1> QED BY <1>1, <1>2, <1>3, <1>4

LEMMA SeqLen ==
  ASSUME NEW s, IsSeq(s)
  PROVE  Len(s) \in Nat /\ (s # <<>> => 1 \in 1 .. Len(s))
<1> DEFINE n == Len(s)
<1>1. s \in Seq(ToSet(s))
  BY DEF IsSeq
<1>2. n \in Nat /\ (s # <<>> => n # 0)
  BY <1>1, EmptySeq
<1> HIDE DEF n
<1>3. n \in Nat /\ (s # <<>> => 1 \in 1 .. n)
  BY <1>2
<1> QED BY <1>3 DEF n

LEMMA NotFirst == \A k \in Nat : \A n \in 2 .. k : n \in 1 .. k
OBVIOUS

LEMMA EmptyIsSeq == IsSeq(<<>>) /\ Len(<<>>) = 0
BY DEF IsSeq, ToSet

LEMMA OneIsSeq ==
  ASSUME NEW x
  PROVE  IsSeq(<<x>>) /\ Len(<<x>>) = 1 /\ <<x>>[1] = x /\ <<x>> # <<>>
<1>1. <<x>> \in Seq({x})
  OBVIOUS
<1> QED BY <1>1, TypedIsSeq

LEMMA TableIsSeq ==
  ASSUME NEW k \in Nat, NEW f, DOMAIN f = 1 .. k, f = [n \in 1 .. k |-> f[n]]
  PROVE  IsSeq(f) /\ Len(f) = k
<1>1. f \in Seq({f[n] : n \in 1 .. k})
  OBVIOUS
<1>2. IsSeq(f)
  BY <1>1, TypedIsSeq
<1> QED BY <1>1, <1>2

(* What holds of the only statement, or of none, holds of all.             *)
LEMMA OnlyOne == \A n \in 1 .. 1 : n = 1
OBVIOUS
LEMMA NotAny == \A n \in 1 .. 0 : FALSE
OBVIOUS

(* The id that SQLite chooses is free.                                     *)
LEMMA NewIdIsFree ==
  ASSUME AccountsAssumption, DOMAIN accounts \subseteq 1 .. MaxAccountId
  PROVE  NewId \in Nat \ {0} /\ NewId \notin DOMAIN accounts
<1> DEFINE S == {0} \cup DOMAIN accounts
           T == {MaxAccountId - x : x \in S}
<1>1. MaxAccountId \in Nat /\ S \subseteq 0 .. MaxAccountId
  BY DEF AccountsAssumption
<1>2. T \subseteq Nat /\ MaxAccountId \in T
  BY <1>1
<1> DEFINE R == {p \in Nat \X Nat : p[1] < p[2]}
<1>a. IsWellFoundedOn(R, Nat)
  BY NatLessThanWellFounded DEF OpToRel
<1>3. PICK t \in T : \A u \in T : ~ (<<u, t>> \in R)
  <2> HIDE DEF R
  <2> QED BY <1>2, <1>a, WFMin
<1>4. \A u \in T : t <= u
  <2> SUFFICES ASSUME NEW u \in T PROVE t <= u
    OBVIOUS
  <2>1. u \in Nat /\ t \in Nat
    BY <1>2
  <2>2. ~ (u < t)
    BY <1>3, <2>1
  <2> QED BY <2>1, <2>2
<1>5. \E x \in S : \A y \in S : x >= y
  <2>1. PICK x \in S : t = MaxAccountId - x
    OBVIOUS
  <2>2. \A y \in S : MaxAccountId - x <= MaxAccountId - y
    BY <1>4, <2>1
  <2> QED BY <1>1, <2>1, <2>2
<1>6. Max(S) \in S /\ \A y \in S : Max(S) >= y
  BY <1>5 DEF Max
<1> DEFINE m == Max(S)
<1> HIDE DEF S, m
<1>7. m \in Nat /\ \A y \in S : m >= y
  <2>1. m \in S
    BY <1>6 DEF m
  <2>2. m \in Nat
    BY <1>1, <2>1
  <2>3. \A y \in S : m >= y
    BY <1>6 DEF m
  <2> QED BY <2>2, <2>3
<1>8. m + 1 \in Nat \ {0} /\ m + 1 \notin S
  BY <1>7, <1>1
<1> QED BY <1>8 DEF m, S, NewId
-----------------------------------------------------------------------------
DeleteTables ==
    <<"received_notes", "transactions", "diversifiers", "accounts", "taddrs", "messages",
      "secret_shares">>
OwnedTables == {"received_notes", "transactions", "diversifiers", "messages"}

IdTypes ==
    /\ DOMAIN accounts \subseteq 1 .. MaxAccountId
    /\ \A id \in DOMAIN taddrs :
         taddrs[id] = [of |-> taddrs[id].of, key |-> taddrs[id].key]
    /\ \A r \in owned : r[1] \in OwnedTables
    /\ request = [op |-> request.op, failed |-> request.failed, inserted |-> request.inserted,
                  alone |-> request.alone]
    /\ IsSeq(job) /\ IsSeq(backup)

(* The statement that stores a transparent address comes right after the   *)
(* one that has inserted its account.                                      *)
Pending == job # <<>> /\ job[1].do = "insert_taddr"
PendingFits ==
    /\ Pending =>
         /\ job[1].id \in DOMAIN accounts
         /\ job[1].taddr = [of |-> job[1].taddr.of, key |-> job[1].taddr.key]
         /\ job[1].id \notin torn =>
              accounts[job[1].id].ivk = job[1].taddr.of /\ job[1].id \notin DOMAIN taddrs
    /\ \A n \in 2 .. Len(job) : job[n].do # "insert_taddr"

(* No two accounts have the same key, in the table and in the backup.      *)
KeysFit ==
    /\ \A i, j \in DOMAIN accounts : accounts[i].ivk = accounts[j].ivk => i = j
    /\ \A m, n \in 1 .. Len(backup) : backup[m].row.ivk = backup[n].row.ivk => m = n

(* What a backup, or the statement that restores a row of it, says of the  *)
(* transparent address.                                                    *)
EntryFits(e) ==
    /\ e.taddr = [of |-> e.taddr.of, key |-> e.taddr.key]
    /\ ~e.torn => e.taddr = NoTaddr \/ e.taddr.of = e.row.ivk
BackupFits ==
    /\ \A n \in 1 .. Len(backup) : EntryFits(backup[n])
    /\ \A n \in 1 .. Len(job) : job[n].do = "restore" => EntryFits(job[n])

(* A delete runs through the tables in order; what it has passed is empty, *)
(* unless a sync that has the key writes beside it.                        *)
DeleteOf(id, table) == [do |-> "delete", id |-> id, table |-> table]
DeleteAt(id, k) ==
    /\ Len(job) = 8 - k
    /\ \A n \in 1 .. Len(job) : job[n] = DeleteOf(id, DeleteTables[k + n - 1])
Passed(id, k) ==
    /\ syncKeys = <<>>
    /\ \A r \in owned : r[2] = id => \A j \in 1 .. k - 1 : r[1] # DeleteTables[j]
    /\ k > 4 => id \notin DOMAIN accounts
    /\ k > 5 => id \notin DOMAIN taddrs
Deleting == job # <<>> /\ job[1].do = "delete"
DeleteFits ==
    /\ Deleting => /\ request.op # "restore_full_backup"
                   /\ \E id \in 1 .. MaxAccountId, k \in 1 .. 7 :
                        /\ DeleteAt(id, k)
                        /\ request.alone => Passed(id, k)
    /\ ~Deleting => \A n \in 1 .. Len(job) : job[n].do # "delete"

(* A restore in progress: what is left of the backup, and what of it the   *)
(* wallet has.                                                             *)
First == IF Pending THEN 1 ELSE 0
Ahead == Len(job) - First
Behind == Len(backup) - Ahead
Restored(n) ==
    \E id \in IdsOf(backup[n].row.ivk) :
        /\ Pending => id # job[1].id
        /\ id \in request.inserted \ torn => TaddrOf(id) = backup[n].taddr
Halfway(n) ==
    /\ Pending /\ n = Behind
    /\ job[1].id \in IdsOf(backup[n].row.ivk) /\ job[1].taddr = backup[n].taddr
RestoreOf(e) == [do |-> "restore", row |-> e.row, taddr |-> e.taddr, torn |-> e.torn]
Restoring ==
    request.op = "restore_full_backup" /\ ~request.failed =>
        /\ Behind >= 0
        /\ \A n \in 1 .. Ahead : job[First + n] = RestoreOf(backup[Behind + n])
        /\ \A n \in 1 .. Behind : Restored(n) \/ Halfway(n)
        /\ \A id \in request.inserted : \E n \in 1 .. Behind : id \in IdsOf(backup[n].row.ivk)

AInv == IdTypes /\ RowsAreOwned /\ PendingFits /\ KeysFit /\ BackupFits /\ DeleteFits /\ Restoring

LEMMA AInvInit == AccountsInit => AInv
<1> SUFFICES ASSUME AccountsInit PROVE AInv
  OBVIOUS
<1>1. accounts = <<>> /\ taddrs = <<>> /\ owned = {} /\ job = <<>> /\ backup = <<>>
      /\ request = [op |-> "none", failed |-> FALSE, inserted |-> {}, alone |-> TRUE]
  BY DEF AccountsInit, NoRequest
<1>2. IdTypes
  <2>1. DOMAIN accounts = {} /\ DOMAIN taddrs = {}
    BY <1>1
  <2>2. request = [op |-> request.op, failed |-> request.failed, inserted |-> request.inserted,
                   alone |-> request.alone]
    BY <1>1
  <2> QED BY <1>1, <2>1, <2>2, EmptyIsSeq DEF IdTypes
<1>3. Len(job) = 0 /\ Len(backup) = 0 /\ DOMAIN accounts = {}
  BY <1>1
<1> QED BY <1>1, <1>2, <1>3 DEF AInv, RowsAreOwned, PendingFits, Pending, KeysFit, BackupFits,
                                 DeleteFits, Deleting, Restoring

(* A call that restores nothing: it lays out its statements.               *)
LEMMA CallKeeps ==
  ASSUME AInv, NEW op, NEW statements, Locked(op, statements), IsSeq(statements),
         op # "restore_full_backup", DeleteFits',
         \A n \in 1 .. Len(statements) : statements[n].do \notin {"insert_taddr", "restore"},
         UNCHANGED <<accounts, taddrs, owned, syncKeys, backup, torn>>
  PROVE  AInv'
<1>1. job' = statements /\ Len(job') \in Nat /\ (job' # <<>> => 1 \in 1 .. Len(job'))
  BY SeqLen DEF Locked
<1>2. /\ request' = [op |-> request'.op, failed |-> request'.failed,
                     inserted |-> request'.inserted, alone |-> request'.alone]
      /\ request'.op = op
  BY DEF Locked
<1>3. IdTypes'
  BY <1>1, <1>2 DEF AInv, IdTypes
<1>4. RowsAreOwned' /\ KeysFit'
  BY DEF AInv, RowsAreOwned, KeysFit
<1>5. ~Pending'
  BY <1>1 DEF Pending
<1>6. PendingFits'
  <2>1. \A n \in 2 .. Len(job') : n \in 1 .. Len(job')
    BY <1>1, NotFirst
  <2> QED BY <1>1, <1>5, <2>1 DEF PendingFits
<1>7. BackupFits'
  BY <1>1 DEF AInv, BackupFits, EntryFits
<1>8. Restoring'
  BY <1>2 DEF Restoring
<1> QED BY <1>3, <1>4, <1>6, <1>7, <1>8 DEF AInv

(* One that deletes nothing either.                                        *)
LEMMA OtherCallKeeps ==
  ASSUME AInv, NEW op, NEW statements, Locked(op, statements), IsSeq(statements),
         op # "restore_full_backup",
         \A n \in 1 .. Len(statements) :
           statements[n].do \notin {"insert_taddr", "restore", "delete"},
         UNCHANGED <<accounts, taddrs, owned, syncKeys, backup, torn>>
  PROVE  AInv'
<1>1. job' = statements /\ (job' # <<>> => 1 \in 1 .. Len(job'))
  BY SeqLen DEF Locked
<1>2. DeleteFits'
  BY <1>1 DEF DeleteFits, Deleting
<1> QED BY <1>2, CallKeeps

LEMMA OneStatementKeeps ==
  ASSUME AInv, NEW op, NEW x, Locked(op, <<x>>), op # "restore_full_backup",
         x.do \in {"store_account", "update_taddr"},
         UNCHANGED <<accounts, taddrs, owned, syncKeys, backup, torn>>
  PROVE  AInv'
<1> DEFINE st == <<x>>
<1>1. IsSeq(st) /\ \A n \in 1 .. Len(st) : st[n].do \notin {"insert_taddr", "restore", "delete"}
  BY OneIsSeq, OnlyOne
<1>2. Locked(op, st)
  OBVIOUS
<1> HIDE DEF st
<1> QED BY <1>1, <1>2, OtherCallKeeps

(* The calls whose statements store, update or truncate.                   *)
LEMMA CallsKeep ==
  ASSUME AInv,
         \/ \E key, i : NewAccount(key, i)
         \/ \E a, i : NewSubAccount(a, i, 2)
         \/ NextSubAccount
         \/ \E k, l : ImportFromZwl(<<k, l>>)
         \/ \E a, id : ImportTransparentKey(a, id)
         \/ \E id : ImportTransparentSecretKey(id)
         \/ TruncateData
  PROVE  AInv'
<1> DEFINE Others(st) ==
      \A n \in 1 .. Len(st) : st[n].do \notin {"insert_taddr", "restore", "delete"}
<1>1. ASSUME NEW key, NEW i, NewAccount(key, i) PROVE AInv'
  <2> DEFINE x == [do |-> "store_account", row |-> DecodeKey(key, i), taddr |-> TRUE]
  <2>1. x.do = "store_account"
    OBVIOUS
  <2>2. Locked("new_account", <<x>>)
        /\ UNCHANGED <<accounts, taddrs, owned, syncKeys, backup, torn>>
    BY <1>1 DEF NewAccount, Open, StoreAccount
  <2> HIDE DEF x
  <2> QED BY <2>1, <2>2, OneStatementKeeps
<1>2. ASSUME NEW a, NEW i, NewSubAccount(a, i, 2) PROVE AInv'
  <2>1. Locked("new_sub_account", <<>>)
        /\ UNCHANGED <<accounts, taddrs, owned, syncKeys, backup, torn>>
    BY <1>2 DEF NewSubAccount, Open
  <2>2. Others(<<>>)
    BY EmptyIsSeq, NotAny
  <2> QED BY <2>1, <2>2, OtherCallKeeps, EmptyIsSeq
<1>3. ASSUME NextSubAccount PROVE AInv'
  <2> DEFINE x == [do |-> "store_account", taddr |-> TRUE,
                   row |-> DecodeKey([kind |-> "phrase", seed |-> subs.seed], subs.index)]
  <2>1. x.do = "store_account"
    OBVIOUS
  <2>2. Locked("new_sub_account", <<x>>)
        /\ UNCHANGED <<accounts, taddrs, owned, syncKeys, backup, torn>>
    BY <1>3 DEF NextSubAccount, StoreAccount
  <2> HIDE DEF x
  <2> QED BY <2>1, <2>2, OneStatementKeeps
<1>4. ASSUME NEW k, NEW l, ImportFromZwl(<<k, l>>) PROVE AInv'
  <2> DEFINE keys == <<k, l>>
             st == [n \in DOMAIN keys |->
                      StoreAccount(DecodeKey([kind |-> "sk", ivk |-> keys[n]], 0), FALSE)[1]]
  <2>1. DOMAIN keys = 1 .. 2
    OBVIOUS
  <2>2. IsSeq(st) /\ Len(st) = 2
    BY <2>1, TableIsSeq
  <2>3. Others(st)
    BY <2>1, <2>2 DEF StoreAccount
  <2>4. Locked("import_from_zwl", st)
        /\ UNCHANGED <<accounts, taddrs, owned, syncKeys, backup, torn>>
    BY <1>4 DEF ImportFromZwl, Open
  <2> HIDE DEF st
  <2> QED BY <2>2, <2>3, <2>4, OtherCallKeeps
<1>5. ASSUME NEW a, NEW id, ImportTransparentKey(a, id) PROVE AInv'
  <2> DEFINE x == [do |-> "update_taddr", id |-> id, key |-> TransparentKey(accounts[a].seed, NoIndex)]
  <2>1. x.do = "update_taddr"
    OBVIOUS
  <2>2. Locked("import_transparent_key", <<x>>)
        /\ UNCHANGED <<accounts, taddrs, owned, syncKeys, backup, torn>>
    BY <1>5 DEF ImportTransparentKey, Open
  <2> HIDE DEF x
  <2> QED BY <2>1, <2>2, OneStatementKeeps
<1>6. ASSUME NEW id, ImportTransparentSecretKey(id) PROVE AInv'
  <2> DEFINE x == [do |-> "update_taddr", id |-> id, key |-> TransparentKey(Imported, NoIndex)]
  <2>1. x.do = "update_taddr"
    OBVIOUS
  <2>2. Locked("import_transparent_secret_key", <<x>>)
        /\ UNCHANGED <<accounts, taddrs, owned, syncKeys, backup, torn>>
    BY <1>6 DEF ImportTransparentSecretKey, Open
  <2> HIDE DEF x
  <2> QED BY <2>1, <2>2, OneStatementKeeps
<1>7. ASSUME TruncateData PROVE AInv'
  <2> DEFINE st == [n \in 1 .. 4 |->
            [do |-> "truncate",
             table |-> <<"diversifiers", "received_notes", "transactions", "messages">>[n]]]
  <2>1. IsSeq(st) /\ Len(st) = 4
    BY TableIsSeq
  <2>2. Others(st)
    BY <2>1
  <2>3. Locked("truncate_data", st) /\ UNCHANGED <<accounts, taddrs, owned, syncKeys, backup, torn>>
    BY <1>7 DEF TruncateData, Open
  <2> HIDE DEF st
  <2> QED BY <2>1, <2>2, <2>3, OtherCallKeeps
<1> QED BY <1>1, <1>2, <1>3, <1>4, <1>5, <1>6, <1>7

LEMMA DeleteCallKeeps ==
  ASSUME AInv, NEW id \in 1 .. MaxAccountId, DeleteAccount(id)
  PROVE  AInv'
<1> DEFINE st == [n \in 1 .. 7 |->
            [do |-> "delete", id |-> id,
             table |-> <<"received_notes", "transactions", "diversifiers", "accounts",
                         "taddrs", "messages", "secret_shares">>[n]]]
<1>1. IsSeq(st) /\ Len(st) = 7
  BY TableIsSeq
<1>2. \A n \in 1 .. 7 : st[n] = DeleteOf(id, DeleteTables[1 + n - 1])
  BY DEF DeleteTables, DeleteOf
<1>3. Locked("delete_account", st) /\ UNCHANGED <<accounts, taddrs, owned, syncKeys, backup, torn>>
  BY DEF DeleteAccount, Open
<1>4. \A n \in 1 .. Len(st) : st[n].do = "delete"
  BY <1>1
<1> HIDE DEF st
<1>5. DeleteFits'
  <2>1. job' = st /\ request'.op # "restore_full_backup" /\ (request'.alone => syncKeys' = <<>>)
    BY <1>3 DEF Locked
  <2>2. Deleting'
    <3>1. 1 \in 1 .. Len(st) /\ st # <<>>
      BY <1>1, EmptyIsSeq
    <3> QED BY <2>1, <3>1, <1>4 DEF Deleting
  <2>3. DeleteAt(id, 1)'
    <3>1. \A n \in 1 .. Len(job') : job'[n] = DeleteOf(id, DeleteTables[1 + n - 1])
      BY <1>1, <1>2, <2>1
    <3>2. Len(job') = 8 - 1
      BY <1>1, <2>1
    <3> QED BY <3>1, <3>2 DEF DeleteAt, DeleteOf, DeleteTables
  <2>4. (request.alone)' => Passed(id, 1)'
    BY <2>1 DEF Passed
  <2>5. 1 \in 1 .. 7
    OBVIOUS
  <2> QED BY <2>1, <2>2, <2>3, <2>4, <2>5 DEF DeleteFits
<1> QED BY <1>1, <1>3, <1>4, <1>5, CallKeeps

LEMMA RestoreCallKeeps ==
  ASSUME AInv, RestoreFullBackup
  PROVE  AInv'
<1> DEFINE st == [n \in DOMAIN backup |->
            [do |-> "restore", row |-> backup[n].row, taddr |-> backup[n].taddr,
             torn |-> backup[n].torn]]
<1>1. Len(backup) \in Nat /\ DOMAIN backup = 1 .. Len(backup)
  BY DEF AInv, IdTypes, IsSeq
<1>2. IsSeq(st) /\ Len(st) = Len(backup)
  BY <1>1, TableIsSeq
<1>3. \A n \in 1 .. Len(st) :
        /\ st[n] = [do |-> "restore", row |-> backup[n].row, taddr |-> backup[n].taddr,
                    torn |-> backup[n].torn]
        /\ st[n].do = "restore" /\ st[n].row = backup[n].row
        /\ st[n].taddr = backup[n].taddr /\ st[n].torn = backup[n].torn
  BY <1>1, <1>2
<1>4. /\ job' = st
      /\ request' = [op |-> "restore_full_backup", failed |-> FALSE, inserted |-> {},
                     alone |-> syncKeys = <<>>]
      /\ UNCHANGED <<accounts, taddrs, owned, syncKeys, backup, torn>>
  BY DEF RestoreFullBackup, Open, Locked
<1> HIDE DEF st
<1>5. IdTypes'
  BY <1>2, <1>4 DEF AInv, IdTypes
<1>6. ~Pending' /\ ~Deleting'
  BY <1>2, <1>3, <1>4, SeqLen DEF Pending, Deleting
<1>7. PendingFits'
  <2>1. \A n \in 2 .. Len(job') : n \in 1 .. Len(job')
    BY <1>1, <1>2, <1>4, NotFirst
  <2> QED BY <1>3, <1>4, <1>6, <2>1 DEF PendingFits
<1>8. RowsAreOwned' /\ KeysFit'
  BY <1>4 DEF AInv, RowsAreOwned, KeysFit
<1>9. BackupFits'
  <2>1. \A n \in 1 .. Len(backup) : EntryFits(backup[n])
    BY DEF AInv, BackupFits
  <2>3. \A n \in 1 .. Len(st) : EntryFits(st[n])
    BY <1>2, <1>3, <2>1 DEF EntryFits
  <2>4. \A n \in 1 .. Len(backup') : EntryFits(backup'[n])
    BY <1>4, <2>1
  <2>5. \A n \in 1 .. Len(job') : EntryFits(job'[n])
    BY <1>4, <2>3
  <2> QED BY <2>4, <2>5 DEF BackupFits, EntryFits
<1>10. DeleteFits'
  BY <1>3, <1>4, <1>6 DEF DeleteFits
<1>11. Restoring'
  <2>1. First' = 0
    BY <1>6 DEF First
  <2>2. Ahead' = Len(backup) /\ Behind' = 0
    BY <1>1, <1>2, <1>4, <2>1 DEF Ahead, Behind
  <2>3. \A n \in 1 .. Len(backup) : 0 + n = n
    BY <1>1
  <2>4. Behind' >= 0
    BY <2>2
  <2> QED BY <1>2, <1>3, <1>4, <2>1, <2>2, <2>3, <2>4, NotAny DEF Restoring, RestoreOf
<1> QED BY <1>5, <1>7, <1>8, <1>9, <1>10, <1>11 DEF AInv

LEMMA DiversifierKeeps ==
  ASSUME AInv, NEW a \in DOMAIN accounts, NewDiversifiedAddress(a)
  PROVE  AInv'
<1>1. /\ job = <<>> /\ job' = <<>>
      /\ request' = [op |-> "new_diversified_address", failed |-> FALSE, inserted |-> {},
                     alone |-> syncKeys = <<>>]
      /\ owned' = owned \cup {<<"diversifiers", a, accounts[a].ivk>>}
      /\ UNCHANGED <<accounts, taddrs, subs, syncKeys, backup, torn>>
  BY DEF NewDiversifiedAddress, Open, Locked, DiversifierRow
<1>2. IdTypes'
  BY <1>1 DEF AInv, IdTypes, OwnedTables
<1>3. RowsAreOwned' /\ KeysFit'
  BY <1>1 DEF AInv, RowsAreOwned, KeysFit
<1>4. Len(job') = 0
  BY <1>1
<1> QED BY <1>1, <1>2, <1>3, <1>4 DEF AInv, PendingFits, Pending, BackupFits, EntryFits,
                                     DeleteFits, Deleting, Restoring

LEMMA BackupKeeps ==
  ASSUME AInv, AccountsAssumption, GetFullBackup
  PROVE  AInv'
<1>1. PICK ids \in [1 .. Cardinality(DOMAIN accounts) -> DOMAIN accounts] :
        /\ \A n \in DOMAIN ids : \A m \in 1 .. n - 1 : ids[m] < ids[n]
        /\ backup' = [n \in DOMAIN ids |->
             [row |-> accounts[ids[n]], taddr |-> TaddrOf(ids[n]), torn |-> ids[n] \in torn]]
  BY DEF GetFullBackup
<1>2. /\ job = <<>> /\ job' = <<>>
      /\ request' = [op |-> "get_full_backup", failed |-> FALSE, inserted |-> {},
                     alone |-> syncKeys = <<>>]
      /\ UNCHANGED <<accounts, taddrs, owned, syncKeys, torn>>
  BY DEF GetFullBackup, Open, Locked
<1>3. Cardinality(DOMAIN accounts) \in Nat
  <2>1. IsFiniteSet(1 .. MaxAccountId)
    BY AccountsAssumption, FS_Interval DEF AccountsAssumption
  <2>2. IsFiniteSet(DOMAIN accounts)
    BY <2>1, FS_Subset DEF AInv, IdTypes
  <2> QED BY <2>2, FS_CardinalityType
<1>4. DOMAIN backup' = 1 .. Cardinality(DOMAIN accounts)
  BY <1>1
<1>5. IsSeq(backup') /\ Len(backup') = Cardinality(DOMAIN accounts)
  BY <1>1, <1>3, <1>4, TableIsSeq
<1>6. \A n \in 1 .. Len(backup') :
        /\ ids[n] \in DOMAIN accounts /\ ids[n] \in Int
        /\ backup'[n].row = accounts[ids[n]] /\ backup'[n].taddr = TaddrOf(ids[n])
        /\ backup'[n].torn = (ids[n] \in torn)
  BY <1>1, <1>5 DEF AInv, IdTypes
<1>7. \A n \in 1 .. Len(backup') : EntryFits(backup'[n])
  <2> SUFFICES ASSUME NEW n \in 1 .. Len(backup') PROVE EntryFits(backup'[n])
    OBVIOUS
  <2>1. TaddrOf(ids[n]) = [of |-> TaddrOf(ids[n]).of, key |-> TaddrOf(ids[n]).key]
    BY DEF TaddrOf, NoTaddr, AInv, IdTypes
  <2>2. ids[n] \notin torn => TaddrOf(ids[n]) = NoTaddr \/ TaddrOf(ids[n]).of = accounts[ids[n]].ivk
    BY <1>6 DEF TaddrOf, AInv, RowsAreOwned
  <2> QED BY <1>6, <2>1, <2>2 DEF EntryFits
<1>8. KeysFit'
  <2>1. \A m, n \in 1 .. Len(backup') : m < n => ids[m] < ids[n]
    BY <1>1, <1>3, <1>5
  <2>2. \A m, n \in 1 .. Len(backup') : ids[m] = ids[n] => m = n
    BY <2>1, <1>3, <1>5, <1>6
  <2>3. \A m, n \in 1 .. Len(backup') : backup'[m].row.ivk = backup'[n].row.ivk => m = n
    BY <2>2, <1>6 DEF AInv, KeysFit
  <2> QED BY <1>2, <2>3 DEF AInv, KeysFit
<1>9. Len(job') = 0
  BY <1>2
<1>10. IdTypes'
  BY <1>2, <1>5 DEF AInv, IdTypes
<1>11. RowsAreOwned'
  BY <1>2 DEF AInv, RowsAreOwned
<1> QED BY <1>2, <1>7, <1>8, <1>9, <1>10, <1>11
           DEF AInv, PendingFits, Pending, BackupFits, DeleteFits, Deleting, Restoring

-----------------------------------------------------------------------------
(* What is left when the first statement is done: no address is pending,   *)
(* and nothing is deleted unless a delete is under way.                    *)
LEMMA PopJob ==
  ASSUME AInv, job # <<>>
  PROVE  /\ IsSeq(Tail(job)) /\ Len(job) \in Nat /\ Len(job) >= 1 /\ Head(job) = job[1]
         /\ Len(Tail(job)) = Len(job) - 1
         /\ \A n \in 1 .. Len(Tail(job)) :
              n + 1 \in 1 .. Len(job) /\ n + 1 \in 2 .. Len(job) /\ Tail(job)[n] = job[n + 1]
         /\ Tail(job) # <<>> => 1 \in 1 .. Len(Tail(job))
<1>1. IsSeq(job)
  BY DEF AInv, IdTypes
<1>2. /\ IsSeq(Tail(job)) /\ Len(job) \in Nat /\ Len(job) >= 1 /\ Head(job) = job[1]
      /\ Len(Tail(job)) = Len(job) - 1
      /\ \A n \in 1 .. Len(Tail(job)) : n + 1 \in 1 .. Len(job) /\ Tail(job)[n] = job[n + 1]
  BY <1>1, PopSeq
<1>3. Tail(job) # <<>> => 1 \in 1 .. Len(Tail(job))
  BY <1>2, SeqLen
<1>4. \A n \in 1 .. Len(Tail(job)) : n + 1 \in 2 .. Len(job)
  <2> DEFINE a == Len(job)
             b == Len(Tail(job))
  <2>1. a \in Nat /\ b = a - 1
    BY <1>2
  <2> HIDE DEF a, b
  <2>2. \A n \in 1 .. b : n + 1 \in 2 .. a
    BY <2>1
  <2> QED BY <2>2 DEF a, b
<1> QED BY <1>2, <1>3, <1>4

LEMMA PopKeeps ==
  ASSUME AInv, job # <<>>, job' = Tail(job), backup' = backup
  PROVE  /\ IsSeq(job') /\ ~Pending' /\ PendingFits' /\ BackupFits'
         /\ ~Deleting => DeleteFits'
<1> DEFINE rest == Tail(job)
<1>1. /\ \A n \in 1 .. Len(rest) :
           n + 1 \in 1 .. Len(job) /\ n + 1 \in 2 .. Len(job) /\ rest[n] = job[n + 1]
      /\ rest # <<>> => 1 \in 1 .. Len(rest)
      /\ IsSeq(rest) /\ Len(rest) \in Nat
  BY PopJob, SeqLen
<1> HIDE DEF rest
<1>2. job' = rest
  BY DEF rest
<1>3. \A n \in 1 .. Len(rest) : rest[n].do # "insert_taddr"
  BY <1>1 DEF AInv, PendingFits
<1>4. \A n \in 2 .. Len(rest) : rest[n].do # "insert_taddr"
  BY <1>1, <1>3, NotFirst
<1>5. ~Pending' /\ PendingFits'
  BY <1>1, <1>2, <1>3, <1>4 DEF Pending, PendingFits
<1>6. BackupFits'
  <2>1. \A n \in 1 .. Len(rest) : rest[n].do = "restore" => EntryFits(rest[n])
    BY <1>1 DEF AInv, BackupFits
  <2>2. \A n \in 1 .. Len(job') : job'[n].do = "restore" => EntryFits(job'[n])
    BY <1>2, <2>1
  <2>3. \A n \in 1 .. Len(backup') : EntryFits(backup'[n])
    BY DEF AInv, BackupFits
  <2> QED BY <2>2, <2>3 DEF BackupFits, EntryFits
<1>7. ~Deleting => DeleteFits'
  <2>1. ~Deleting => \A n \in 1 .. Len(rest) : rest[n].do # "delete"
    BY <1>1 DEF AInv, DeleteFits
  <2> QED BY <1>1, <1>2, <2>1 DEF DeleteFits, Deleting
<1> QED BY <1>1, <1>2, <1>5, <1>6, <1>7

LEMMA RestoreFields ==
  ASSUME NEW e
  PROVE  /\ RestoreOf(e).do = "restore" /\ RestoreOf(e).row = e.row
         /\ RestoreOf(e).taddr = e.taddr /\ RestoreOf(e).torn = e.torn
BY DEF RestoreOf

(* A statement of another kind is not one of a restore.                    *)
LEMMA NotRestoring ==
  ASSUME AInv, job # <<>>, job[1].do \notin {"insert_taddr", "restore"}
  PROVE  ~ (request.op = "restore_full_backup" /\ ~request.failed)
<1>1. First = 0 /\ Len(job) \in Nat /\ Len(job) >= 1
  BY PopJob DEF First, Pending
<1> DEFINE l == Len(job)
           f == First
           a == Ahead
<1>2. l \in Nat /\ l >= 1 /\ f = 0 /\ a = l - f
  BY <1>1 DEF Ahead
<1> HIDE DEF l, f, a
<1>3. 1 \in 1 .. a /\ f + 1 = 1
  BY <1>2
<1>4. job[f + 1] = job[1]
  BY <1>3
<1> SUFFICES ASSUME request.op = "restore_full_backup", ~request.failed PROVE FALSE
  OBVIOUS
<1>5. job[f + 1] = RestoreOf(backup[Behind + 1])
  BY <1>3 DEF AInv, Restoring, f, a
<1> QED BY <1>4, <1>5, RestoreFields

LEMMA UpdateKeeps ==
  ASSUME AInv, ExecUpdateTaddr
  PROVE  AInv'
<1>1. /\ job # <<>> /\ Head(job).do = "update_taddr" /\ job' = Tail(job)
      /\ taddrs' = IF Head(job).id \in DOMAIN taddrs
                   THEN [taddrs EXCEPT ![Head(job).id].key = Head(job).key] ELSE taddrs
      /\ UNCHANGED <<accounts, owned, request, syncKeys, backup, torn>>
  BY DEF ExecUpdateTaddr, Doing
<1>2. job[1].do = "update_taddr"
  BY <1>1, PopJob
<1>3. /\ IsSeq(job') /\ ~Pending' /\ PendingFits' /\ BackupFits' /\ DeleteFits'
  BY <1>1, <1>2, PopKeeps DEF Deleting
<1>4. /\ DOMAIN taddrs' = DOMAIN taddrs
      /\ \A id \in DOMAIN taddrs : taddrs'[id].of = taddrs[id].of
      /\ \A id \in DOMAIN taddrs : taddrs'[id] = [of |-> taddrs'[id].of, key |-> taddrs'[id].key]
  <2> DEFINE i == Head(job).id
             k == Head(job).key
  <2>1. \A id \in DOMAIN taddrs : taddrs[id] = [of |-> taddrs[id].of, key |-> taddrs[id].key]
    BY DEF AInv, IdTypes
  <2>2. taddrs' = IF i \in DOMAIN taddrs THEN [taddrs EXCEPT ![i].key = k] ELSE taddrs
    BY <1>1
  <2> HIDE DEF i, k
  <2>3. i \in DOMAIN taddrs => taddrs'[i] = [of |-> taddrs[i].of, key |-> k]
    BY <2>1, <2>2
  <2>4. DOMAIN taddrs' = DOMAIN taddrs /\ \A id \in DOMAIN taddrs \ {i} : taddrs'[id] = taddrs[id]
    BY <2>2
  <2> QED BY <2>1, <2>3, <2>4
<1>5. IdTypes'
  BY <1>1, <1>3, <1>4 DEF AInv, IdTypes
<1>6. RowsAreOwned' /\ KeysFit'
  BY <1>1, <1>4 DEF AInv, RowsAreOwned, KeysFit
<1>7. Restoring'
  BY <1>1, <1>2, NotRestoring DEF Restoring
<1> QED BY <1>3, <1>5, <1>6, <1>7 DEF AInv

LEMMA TruncateKeeps ==
  ASSUME AInv, ExecTruncate
  PROVE  AInv'
<1>1. /\ job # <<>> /\ Head(job).do = "truncate" /\ job' = Tail(job) /\ owned' \subseteq owned
      /\ UNCHANGED <<accounts, taddrs, request, syncKeys, backup, torn>>
  BY DEF ExecTruncate, Doing
<1>2. job[1].do = "truncate"
  BY <1>1, PopJob
<1>3. /\ IsSeq(job') /\ ~Pending' /\ PendingFits' /\ BackupFits' /\ DeleteFits'
  BY <1>1, <1>2, PopKeeps DEF Deleting
<1>4. IdTypes'
  BY <1>1, <1>3 DEF AInv, IdTypes
<1>5. RowsAreOwned' /\ KeysFit'
  BY <1>1 DEF AInv, RowsAreOwned, KeysFit
<1>6. Restoring'
  BY <1>1, <1>2, NotRestoring DEF Restoring
<1> QED BY <1>3, <1>4, <1>5, <1>6 DEF AInv

-----------------------------------------------------------------------------
(* A new account gets a free id, of which no table has a row unless the id *)
(* is torn, and a key that no other account has.                           *)
LEMMA InsertingKeeps ==
  ASSUME AInv, AccountsAssumption, NEW row, Inserting(row), IdsOf(row.ivk) = {},
         UNCHANGED <<taddrs, owned, backup>>, torn \subseteq torn'
  PROVE  /\ NewId \notin DOMAIN accounts /\ NewId \in 1 .. MaxAccountId
         /\ DOMAIN accounts' = DOMAIN accounts \cup {NewId} /\ accounts'[NewId] = row
         /\ \A id \in DOMAIN accounts : accounts'[id] = accounts[id]
         /\ NewId \notin torn => NewId \notin DOMAIN taddrs
         /\ request' = [op |-> request.op, failed |-> request.failed,
                        inserted |-> request.inserted \cup {NewId}, alone |-> request.alone]
         /\ RowsAreOwned' /\ KeysFit'
<1>1. DOMAIN accounts \subseteq 1 .. MaxAccountId /\ MaxAccountId \in Nat
  BY DEF AInv, IdTypes, AccountsAssumption
<1>2. NewId \in Nat \ {0} /\ NewId \notin DOMAIN accounts
  BY <1>1, NewIdIsFree
<1>3. NewId <= MaxAccountId /\ accounts' = With(accounts, NewId, row)
      /\ request' = [request EXCEPT !.inserted = @ \cup {NewId}]
  BY DEF Inserting
<1> DEFINE new == NewId
<1>4. new \in 1 .. MaxAccountId
  BY <1>1, <1>2, <1>3
<1>5. new \notin DOMAIN accounts /\ accounts' = With(accounts, new, row)
  BY <1>2, <1>3
<1> HIDE DEF new
<1>6. /\ DOMAIN accounts' = DOMAIN accounts \cup {new} /\ accounts'[new] = row
      /\ \A id \in DOMAIN accounts : accounts'[id] = accounts[id]
  BY <1>5 DEF With
<1>7. request' = [op |-> request.op, failed |-> request.failed,
                  inserted |-> request.inserted \cup {new}, alone |-> request.alone]
  <2>1. request = [op |-> request.op, failed |-> request.failed, inserted |-> request.inserted,
                   alone |-> request.alone]
    BY DEF AInv, IdTypes
  <2>2. request' = [request EXCEPT !.inserted = request.inserted \cup {new}]
    BY <1>3 DEF new
  <2> QED BY <2>1, <2>2
<1>8. new \notin torn => new \notin DOMAIN taddrs
  BY <1>5 DEF AInv, RowsAreOwned
<1>9. RowsAreOwned'
  BY <1>6 DEF AInv, RowsAreOwned
<1>10. KeysFit'
  <2>1. \A id \in DOMAIN accounts : accounts[id].ivk # row.ivk
    BY DEF IdsOf
  <2> QED BY <1>6, <2>1 DEF AInv, KeysFit
<1> QED BY <1>4, <1>5, <1>6, <1>7, <1>8, <1>9, <1>10 DEF new

(* The statement that stores its address comes first.                      *)
InsertingWith(row, of, key) ==
  /\ Inserting(row) /\ IdsOf(row.ivk) = {}
  /\ job' = InsertTaddr(NewId, of, key) \o Tail(job)
  /\ torn \subseteq torn' /\ (NewId \notin torn' => of = row.ivk)
  /\ UNCHANGED <<taddrs, owned, backup>>

LEMMA PushKeeps ==
  ASSUME AInv, AccountsAssumption, job # <<>>, ~Pending, ~Deleting, NEW row, NEW of, NEW key,
         InsertingWith(row, of, key)
  PROVE  /\ IsSeq(job') /\ Pending' /\ PendingFits' /\ BackupFits' /\ DeleteFits'
         /\ Len(job') = Len(job)
         /\ \A n \in 1 .. Len(Tail(job)) : job'[n + 1] = job[n + 1]
         /\ job'[1].id = NewId /\ job'[1].taddr = [of |-> of, key |-> key]
<1> DEFINE rest == Tail(job)
           x == [do |-> "insert_taddr", id |-> NewId, taddr |-> [of |-> of, key |-> key]]
           l == Len(rest)
<1>0. /\ Inserting(row) /\ IdsOf(row.ivk) = {}
      /\ job' = InsertTaddr(NewId, of, key) \o Tail(job)
      /\ torn \subseteq torn' /\ (NewId \notin torn' => of = row.ivk)
      /\ UNCHANGED <<taddrs, owned, backup>>
  BY DEF InsertingWith
<1>1. /\ \A n \in 1 .. Len(rest) :
           n + 1 \in 1 .. Len(job) /\ n + 1 \in 2 .. Len(job) /\ rest[n] = job[n + 1]
      /\ IsSeq(rest) /\ Len(rest) \in Nat /\ Len(job) = Len(rest) + 1
  <2> DEFINE a == Len(job)
             b == Len(Tail(job))
  <2>1. a \in Nat /\ b \in Nat /\ b = a - 1
    BY PopJob, SeqLen
  <2> HIDE DEF a, b
  <2>2. a = b + 1
    BY <2>1
  <2> QED BY PopJob, SeqLen, <2>2 DEF a, b
<1>2. x.do = "insert_taddr" /\ x.id = NewId /\ x.taddr = [of |-> of, key |-> key]
  OBVIOUS
<1>3. job' = <<x>> \o rest
  BY <1>0 DEF InsertTaddr
<1> HIDE DEF rest, x
<1>4. /\ IsSeq(job') /\ job' # <<>> /\ l \in Nat /\ Len(job') = l + 1 /\ job'[1] = x
      /\ \A n \in 1 .. l : job'[n + 1] = rest[n]
  <2>1. /\ IsSeq(<<x>> \o rest) /\ <<x>> \o rest # <<>> /\ Len(rest) \in Nat
        /\ Len(<<x>> \o rest) = Len(rest) + 1 /\ (<<x>> \o rest)[1] = x
        /\ \A n \in 1 .. Len(rest) : (<<x>> \o rest)[n + 1] = rest[n]
    <3>1. IsSeq(rest)
      BY <1>1
    <3> QED BY <3>1, PushSeq
  <2> QED BY <1>3, <2>1
<1>5. \A n \in 1 .. l : job'[n + 1] = job[n + 1]
  BY <1>1, <1>4
<1>6. Pending'
  BY <1>2, <1>4 DEF Pending
<1>7. \A n \in 2 .. Len(job') : n \in 2 .. Len(job) /\ n \in 1 .. Len(job) /\ job'[n] = job[n]
  <2>0. Len(job) = l + 1 /\ Len(job') = l + 1 /\ l \in Nat
    BY <1>1, <1>4
  <2> HIDE DEF l
  <2> SUFFICES ASSUME NEW n \in 2 .. l + 1
               PROVE  n \in 2 .. l + 1 /\ n \in 1 .. l + 1 /\ job'[n] = job[n]
    BY <2>0
  <2>1. PICK m \in 1 .. l : n = m + 1
    <3>1. n - 1 \in 1 .. l /\ n = (n - 1) + 1
      BY <2>0
    <3> QED BY <3>1
  <2>2. job'[m + 1] = job[m + 1]
    BY <1>5
  <2>3. n \in 1 .. l + 1
    BY <2>0
  <2> QED BY <2>1, <2>2, <2>3
<1>8. PendingFits'
  <2>1. \A n \in 2 .. Len(job') : job'[n].do # "insert_taddr"
    BY <1>7 DEF AInv, PendingFits
  <2>2. job'[1].id \in DOMAIN accounts' /\ accounts'[job'[1].id] = row
    BY <1>0, <1>2, <1>4, InsertingKeeps
  <2>3. NewId \notin torn' => NewId \notin DOMAIN taddrs'
    BY <1>0, InsertingKeeps
  <2>4. /\ job'[1].taddr = [of |-> job'[1].taddr.of, key |-> job'[1].taddr.key]
        /\ job'[1].taddr.of = of
    BY <1>2, <1>4
  <2> QED BY <1>0, <1>2, <1>4, <2>1, <2>2, <2>3, <2>4 DEF PendingFits
<1>9. BackupFits'
  <2>1. \A n \in 1 .. Len(job') : n = 1 \/ n \in 2 .. Len(job')
    <3>1. Len(job') = l + 1 /\ l \in Nat
      BY <1>4
    <3> HIDE DEF l
    <3>2. \A n \in 1 .. l + 1 : n = 1 \/ n \in 2 .. l + 1
      BY <3>1
    <3> QED BY <3>1, <3>2
  <2>2. \A n \in 2 .. Len(job') : job'[n].do = "restore" => EntryFits(job'[n])
    BY <1>7 DEF AInv, BackupFits
  <2>3. job'[1].do # "restore"
    BY <1>2, <1>4
  <2>4. \A n \in 1 .. Len(job') : job'[n].do = "restore" => EntryFits(job'[n])
    BY <2>1, <2>2, <2>3
  <2>5. \A n \in 1 .. Len(backup') : EntryFits(backup'[n])
    BY <1>0 DEF AInv, BackupFits
  <2> QED BY <2>4, <2>5 DEF BackupFits, EntryFits
<1>10. DeleteFits'
  <2>1. \A n \in 1 .. Len(job') : n = 1 \/ n \in 2 .. Len(job')
    <3>1. Len(job') = l + 1 /\ l \in Nat
      BY <1>4
    <3> HIDE DEF l
    <3>2. \A n \in 1 .. l + 1 : n = 1 \/ n \in 2 .. l + 1
      BY <3>1
    <3> QED BY <3>1, <3>2
  <2>2. \A n \in 2 .. Len(job') : job'[n].do # "delete"
    BY <1>7 DEF AInv, DeleteFits
  <2>3. job'[1].do # "delete"
    BY <1>2, <1>4
  <2> QED BY <2>1, <2>2, <2>3 DEF DeleteFits, Deleting
<1>11. Len(job') = Len(job)
  BY <1>1, <1>4
<1> QED BY <1>2, <1>4, <1>5, <1>6, <1>8, <1>9, <1>10, <1>11 DEF rest

LEMMA EmptyAppend ==
  ASSUME NEW s, IsSeq(s)
  PROVE  <<>> \o s = s
BY DEF IsSeq

LEMMA StoreKeeps ==
  ASSUME AInv, AccountsAssumption, ExecStoreAccount
  PROVE  AInv'
<1> DEFINE row == Head(job).row
<1>1. job # <<>> /\ job[1].do = "store_account" /\ ~Pending /\ ~Deleting
  BY PopJob DEF ExecStoreAccount, Doing, Pending, Deleting
<1>2. UNCHANGED <<taddrs, owned, subs, syncKeys, backup, accountCalls, torn>>
  BY DEF ExecStoreAccount
<1>3. ~ (request.op = "restore_full_backup" /\ ~request.failed)
  BY <1>1, NotRestoring
<1>4. IsSeq(Tail(job)) /\ <<>> \o Tail(job) = Tail(job)
  BY <1>1, PopJob, EmptyAppend
<1>5. CASE IdsOf(row.ivk) # {}
  <2>1. UNCHANGED <<accounts, request>> /\ job' = Tail(job)
    BY <1>5 DEF ExecStoreAccount
  <2>2. IsSeq(job') /\ PendingFits' /\ BackupFits' /\ DeleteFits'
    BY <1>1, <1>2, <2>1, PopKeeps
  <2>3. IdTypes'
    BY <1>2, <2>1, <2>2 DEF AInv, IdTypes
  <2>4. RowsAreOwned' /\ KeysFit'
    BY <1>2, <2>1 DEF AInv, RowsAreOwned, KeysFit
  <2>5. Restoring'
    BY <1>3, <2>1 DEF Restoring
  <2> QED BY <2>2, <2>3, <2>4, <2>5 DEF AInv
<1>6. CASE IdsOf(row.ivk) = {}
  <2>1. /\ Inserting(row)
        /\ job' = (IF Head(job).taddr /\ row.seed # NoSeed
                   THEN InsertTaddr(NewId, row.ivk, TransparentKey(row.seed, row.index)) ELSE <<>>)
                  \o Tail(job)
    BY <1>6 DEF ExecStoreAccount
  <2> HIDE DEF row
  <2>2. /\ DOMAIN accounts' = DOMAIN accounts \cup {NewId} /\ NewId \in 1 .. MaxAccountId
        /\ request' = [op |-> request.op, failed |-> request.failed,
                       inserted |-> request.inserted \cup {NewId}, alone |-> request.alone]
        /\ RowsAreOwned' /\ KeysFit'
    BY <1>2, <1>6, <2>1, InsertingKeeps
  <2>3. IsSeq(job') /\ PendingFits' /\ BackupFits' /\ DeleteFits'
    <3>1. CASE job' = InsertTaddr(NewId, row.ivk, TransparentKey(row.seed, row.index)) \o Tail(job)
      <4>1. InsertingWith(row, row.ivk, TransparentKey(row.seed, row.index))
        BY <1>2, <1>6, <2>1, <3>1 DEF InsertingWith
      <4> QED BY <1>1, <4>1, PushKeeps
    <3>2. CASE job' = Tail(job)
      BY <1>1, <1>2, <3>2, PopKeeps
    <3> QED BY <1>4, <2>1, <3>1, <3>2
  <2>4. /\ request'.op = request.op /\ request'.failed = request.failed
        /\ request' = [op |-> request'.op, failed |-> request'.failed,
                       inserted |-> request'.inserted, alone |-> request'.alone]
    BY <2>2
  <2>5. IdTypes'
    BY <1>2, <2>2, <2>3, <2>4 DEF AInv, IdTypes
  <2>6. Restoring'
    BY <1>3, <2>4 DEF Restoring
  <2> QED BY <2>2, <2>3, <2>5, <2>6 DEF AInv
<1> QED BY <1>5, <1>6
-----------------------------------------------------------------------------
(* A restore that no failure has cut short, with no address pending: the   *)
(* next statement is that of the next account of the backup.               *)
Underway == request.op = "restore_full_backup" /\ ~request.failed

LEMMA NextEntry ==
  ASSUME AInv, Underway, job # <<>>, ~Pending
  PROVE  /\ Behind \in Nat /\ Behind + 1 \in 1 .. Len(backup)
         /\ job[1] = RestoreOf(backup[Behind + 1])
         /\ \A n \in 1 .. Len(Tail(job)) : job[n + 1] = RestoreOf(backup[Behind + 1 + n])
         /\ \A n \in 1 .. Behind : Restored(n)
         /\ \A id \in request.inserted : \E n \in 1 .. Behind : id \in IdsOf(backup[n].row.ivk)
<1> DEFINE l == Len(job)
           b == Len(backup)
           t == Len(Tail(job))
           k == Behind
           a == Ahead
<1>1. l \in Nat /\ l >= 1 /\ b \in Nat /\ t = l - 1 /\ a = l /\ k = b - l /\ First = 0
  <2>1. l \in Nat /\ l >= 1 /\ t = l - 1
    BY PopJob
  <2>2. b \in Nat
    BY SeqLen DEF AInv, IdTypes
  <2>3. First = 0
    BY DEF First
  <2>4. a = l
    BY <2>1, <2>3 DEF Ahead
  <2> QED BY <2>1, <2>2, <2>3, <2>4 DEF Behind
<1>2. /\ k >= 0
      /\ \A n \in 1 .. a : job[0 + n] = RestoreOf(backup[k + n])
      /\ \A n \in 1 .. k : Restored(n)
      /\ \A id \in request.inserted : \E n \in 1 .. k : id \in IdsOf(backup[n].row.ivk)
  <2>1. \A n \in 1 .. k : ~Halfway(n)
    BY DEF Halfway
  <2>2. Restoring
    BY DEF AInv
  <2> HIDE DEF a, k
  <2> QED BY <1>1, <2>1, <2>2 DEF Restoring, Underway, a, k
<1> HIDE DEF l, b, t, k, a
<1>3. k \in Nat /\ k + 1 \in 1 .. b /\ 1 \in 1 .. a
      /\ \A n \in 1 .. t : n + 1 \in 1 .. a /\ 0 + (n + 1) = n + 1 /\ k + (n + 1) = k + 1 + n
  BY <1>1, <1>2
<1>4. job[1] = RestoreOf(backup[k + 1])
  <2>1. job[0 + 1] = RestoreOf(backup[k + 1])
    BY <1>2, <1>3
  <2> QED BY <2>1
<1>5. \A n \in 1 .. t : job[n + 1] = RestoreOf(backup[k + 1 + n])
  <2> SUFFICES ASSUME NEW n \in 1 .. t PROVE job[n + 1] = RestoreOf(backup[k + 1 + n])
    OBVIOUS
  <2>1. job[0 + (n + 1)] = RestoreOf(backup[k + (n + 1)])
    BY <1>2, <1>3
  <2> QED BY <1>3, <2>1
<1> QED BY <1>2, <1>3, <1>4, <1>5 DEF k, b, t

(* The next account has been passed.                                       *)
LEMMA EntryPassed ==
  ASSUME AInv, Underway, job # <<>>, ~Pending, backup' = backup,
         \/ ~Pending' /\ job' = Tail(job)
         \/ Pending' /\ Len(job') = Len(job)
            /\ \A n \in 1 .. Len(Tail(job)) : job'[n + 1] = job[n + 1]
  PROVE  /\ Behind' = Behind + 1
         /\ \A n \in 1 .. Ahead' : job'[First' + n] = RestoreOf(backup[Behind' + n])
<1> DEFINE l == Len(job)
           l1 == Len(job')
           b == Len(backup)
           t == Len(Tail(job))
           k == Behind
           a == Ahead
           a1 == Ahead'
           f1 == First'
           k1 == Behind'
<1>1. l \in Nat /\ l >= 1 /\ b \in Nat /\ t = l - 1 /\ a = l /\ k = b - l
  <2>1. l \in Nat /\ l >= 1 /\ t = l - 1
    BY PopJob
  <2>2. b \in Nat
    BY SeqLen DEF AInv, IdTypes
  <2>3. First = 0
    BY DEF First
  <2>4. a = l
    BY <2>1, <2>3 DEF Ahead
  <2> QED BY <2>1, <2>2, <2>4 DEF Behind
<1>2. a1 = l1 - f1 /\ k1 = b - a1
  BY DEF Ahead, Behind
<1>3. \/ f1 = 0 /\ l1 = t /\ ~Pending' /\ job' = Tail(job)
      \/ f1 = 1 /\ l1 = l /\ \A n \in 1 .. t : job'[n + 1] = job[n + 1]
  BY DEF First
<1>4. \A n \in 1 .. t : /\ job[n + 1] = RestoreOf(backup[k + 1 + n])
                        /\ Tail(job)[n] = job[n + 1]
  BY NextEntry, PopJob
<1> HIDE DEF l, l1, b, t, k, a, a1, f1, k1
<1>5. a1 = t /\ k1 = k + 1
  BY <1>1, <1>2, <1>3
<1>6. \A n \in 1 .. t : job'[f1 + n] = RestoreOf(backup[k + 1 + n])
  <2> SUFFICES ASSUME NEW n \in 1 .. t PROVE job'[f1 + n] = RestoreOf(backup[k + 1 + n])
    OBVIOUS
  <2>0. n \in Int
    OBVIOUS
  <2>1. CASE f1 = 0 /\ job' = Tail(job)
    <3>1. f1 + n = n
      BY <2>0, <2>1
    <3> QED BY <1>4, <2>1, <3>1
  <2>2. CASE f1 = 1 /\ \A m \in 1 .. t : job'[m + 1] = job[m + 1]
    <3>1. f1 + n = n + 1
      BY <2>0, <2>2
    <3> QED BY <1>4, <2>2, <3>1
  <2> QED BY <1>3, <2>1, <2>2
<1> QED BY <1>5, <1>6 DEF k, k1, a1, f1

LEMMA RestoreKeeps ==
  ASSUME AInv, AccountsAssumption, ExecRestore
  PROVE  AInv'
<1> PICK e : e = Head(job)
  OBVIOUS
<1> PICK k : k = Behind
  OBVIOUS
<1> PICK new : new = NewId
  OBVIOUS
<1>1. job # <<>> /\ e = job[1] /\ e.do = "restore" /\ ~Pending /\ ~Deleting
      /\ IsSeq(Tail(job)) /\ <<>> \o Tail(job) = Tail(job)
  BY PopJob, EmptyAppend DEF ExecRestore, Doing, Pending, Deleting
<1>2. UNCHANGED <<taddrs, owned, subs, syncKeys, backup, accountCalls>>
  BY DEF ExecRestore
<1>3. EntryFits(e)
  <2>1. \A n \in 1 .. Len(job) : job[n].do = "restore" => EntryFits(job[n])
    BY DEF AInv, BackupFits
  <2>2. 1 \in 1 .. Len(job)
    BY <1>1, SeqLen DEF AInv, IdTypes
  <2> QED BY <1>1, <2>1, <2>2
<1>4. Underway =>
        /\ k \in Nat /\ k + 1 \in 1 .. Len(backup) /\ e = RestoreOf(backup[k + 1])
        /\ \A n \in 1 .. k : Restored(n)
        /\ \A id \in request.inserted : \E n \in 1 .. k : id \in IdsOf(backup[n].row.ivk)
  BY <1>1, NextEntry
<1>5. Underway => e.row = backup[k + 1].row /\ e.taddr = backup[k + 1].taddr
  BY <1>4, RestoreFields
<1>6. Underway => \A n \in 1 .. k : n \in 1 .. Len(backup) /\ n # k + 1
  <2> DEFINE b == Len(backup)
  <2>1. b \in Nat
    BY SeqLen DEF AInv, IdTypes
  <2>2. Underway => k \in Nat /\ k + 1 \in 1 .. b
    BY <1>4
  <2> HIDE DEF b
  <2>3. Underway => \A n \in 1 .. k : n \in 1 .. b /\ n # k + 1
    BY <2>1, <2>2
  <2> QED BY <2>3 DEF b
\* What is left to show of the restore, once its statement has been done.
<1>7. ASSUME Underway, Underway', Restored(k + 1)' \/ (Pending' /\ Halfway(k + 1)'),
             \A n \in 1 .. k : Restored(n)',
             \A id \in request'.inserted :
               \E n \in 1 .. k + 1 : id \in {a \in DOMAIN accounts' : accounts'[a].ivk = backup[n].row.ivk},
             Behind' = k + 1,
             \A n \in 1 .. Ahead' : job'[First' + n] = RestoreOf(backup[Behind' + n])
      PROVE  Restoring'
  <2>1. k \in Nat
    BY <1>4, <1>7
  <2>2. k + 1 >= 0 /\ \A n \in 1 .. k + 1 : n \in 1 .. k \/ n = k + 1
    BY <2>1
  <2>3. \A n \in 1 .. k + 1 : Restored(n)' \/ Halfway(n)'
    BY <1>7, <2>2
  <2> QED BY <1>2, <1>7, <2>2, <2>3 DEF Restoring, RestoreOf, IdsOf
<1>8. CASE IdsOf(e.row.ivk) # {}
  <2>1. UNCHANGED <<accounts, request, torn>> /\ job' = Tail(job)
    BY <1>8 DEF ExecRestore
  <2>2. IsSeq(job') /\ ~Pending' /\ PendingFits' /\ BackupFits' /\ DeleteFits'
    BY <1>1, <1>2, <2>1, PopKeeps
  <2>3. IdTypes'
    BY <1>2, <2>1, <2>2 DEF AInv, IdTypes
  <2>4. RowsAreOwned' /\ KeysFit'
    BY <1>2, <2>1 DEF AInv, RowsAreOwned, KeysFit
  <2>5. Restoring'
    <3> SUFFICES ASSUME Underway' PROVE Restoring'
      BY DEF Restoring, Underway
    <3>1. Underway
      BY <2>1 DEF Underway
    <3>2. /\ Behind' = k + 1
          /\ \A n \in 1 .. Ahead' : job'[First' + n] = RestoreOf(backup[Behind' + n])
      BY <1>1, <1>2, <2>1, <2>2, <3>1, EntryPassed
    <3>3. \A n \in 1 .. k : Restored(n)'
      BY <1>2, <1>4, <2>1, <2>2, <3>1 DEF Restored, IdsOf, TaddrOf
    <3>4. Restored(k + 1)'
      <4>1. PICK id \in IdsOf(e.row.ivk) : TRUE
        BY <1>8
      <4>2. id \notin request.inserted
        <5> SUFFICES ASSUME id \in request.inserted PROVE FALSE
          OBVIOUS
        <5>1. PICK n \in 1 .. k : id \in IdsOf(backup[n].row.ivk)
          BY <1>4, <3>1
        <5>2. backup[n].row.ivk = backup[k + 1].row.ivk
          BY <1>5, <3>1, <4>1, <5>1 DEF IdsOf
        <5>3. n = k + 1
          BY <1>4, <1>6, <3>1, <5>2 DEF AInv, KeysFit
        <5> QED BY <1>6, <3>1, <5>3
      <4>3. id \in IdsOf(backup[k + 1].row.ivk)
        BY <1>5, <3>1, <4>1
      <4> QED BY <1>2, <2>1, <2>2, <4>2, <4>3 DEF Restored, IdsOf
    <3>5. \A id \in request'.inserted :
            \E n \in 1 .. k + 1 : id \in {a \in DOMAIN accounts' : accounts'[a].ivk = backup[n].row.ivk}
      <4>1. \A n \in 1 .. k : n \in 1 .. k + 1
        BY <1>4, <3>1
      <4> QED BY <1>4, <2>1, <3>1, <4>1 DEF IdsOf
    <3> QED BY <1>7, <3>1, <3>2, <3>3, <3>4, <3>5
  <2> QED BY <2>2, <2>3, <2>4, <2>5 DEF AInv
<1>9. CASE IdsOf(e.row.ivk) = {}
  <2>1. /\ Inserting(e.row) /\ torn' = TornAfterRestore(e)
        /\ job' = (IF e.taddr # NoTaddr THEN InsertTaddr(new, e.taddr.of, e.taddr.key) ELSE <<>>)
                  \o Tail(job)
    BY <1>9 DEF ExecRestore
  <2>2. torn \subseteq torn' /\ (new \notin torn' => ~e.torn)
    BY <2>1 DEF TornAfterRestore
  <2>3. /\ new \notin DOMAIN accounts /\ new \in 1 .. MaxAccountId
        /\ DOMAIN accounts' = DOMAIN accounts \cup {new} /\ accounts'[new] = e.row
        /\ \A id \in DOMAIN accounts : accounts'[id] = accounts[id]
        /\ new \notin torn => new \notin DOMAIN taddrs
        /\ request' = [op |-> request.op, failed |-> request.failed,
                       inserted |-> request.inserted \cup {new}, alone |-> request.alone]
        /\ RowsAreOwned' /\ KeysFit'
    BY <1>2, <1>9, <2>1, <2>2, InsertingKeeps
  <2>4. /\ request'.op = request.op /\ request'.failed = request.failed
        /\ request'.inserted = request.inserted \cup {new}
        /\ request' = [op |-> request'.op, failed |-> request'.failed,
                       inserted |-> request'.inserted, alone |-> request'.alone]
    BY <2>3
  <2>5. /\ IsSeq(job') /\ PendingFits' /\ BackupFits' /\ DeleteFits'
        /\ \/ /\ Pending' /\ Len(job') = Len(job) /\ job'[1].id = new /\ job'[1].taddr = e.taddr
              /\ \A n \in 1 .. Len(Tail(job)) : job'[n + 1] = job[n + 1]
           \/ e.taddr = NoTaddr /\ ~Pending' /\ job' = Tail(job)
    <3>1. CASE e.taddr # NoTaddr
      <4>1. job' = InsertTaddr(NewId, e.taddr.of, e.taddr.key) \o Tail(job)
        BY <2>1, <3>1
      <4>2. NewId \notin torn' => e.taddr.of = e.row.ivk
        BY <1>3, <2>2, <3>1 DEF EntryFits
      <4>3. /\ IsSeq(job') /\ Pending' /\ PendingFits' /\ BackupFits' /\ DeleteFits'
            /\ Len(job') = Len(job)
            /\ \A n \in 1 .. Len(Tail(job)) : job'[n + 1] = job[n + 1]
            /\ job'[1].id = NewId /\ job'[1].taddr = [of |-> e.taddr.of, key |-> e.taddr.key]
        <5>1. InsertingWith(e.row, e.taddr.of, e.taddr.key)
          BY <1>2, <1>9, <2>1, <2>2, <4>1, <4>2 DEF InsertingWith
        <5> QED BY <1>1, <5>1, PushKeeps
      <4>4. job'[1].taddr = e.taddr
        BY <1>3, <4>3 DEF EntryFits
      <4> QED BY <4>3, <4>4
    <3>2. CASE e.taddr = NoTaddr
      <4>1. job' = Tail(job)
        BY <1>1, <2>1, <3>2
      <4>2. IsSeq(job') /\ ~Pending' /\ PendingFits' /\ BackupFits' /\ DeleteFits'
        BY <1>1, <1>2, <4>1, PopKeeps
      <4> QED BY <3>2, <4>1, <4>2
    <3> QED BY <3>1, <3>2
  <2>6. IdTypes'
    BY <1>2, <2>3, <2>4, <2>5 DEF AInv, IdTypes
  <2>7. Restoring'
    <3> SUFFICES ASSUME Underway' PROVE Restoring'
      BY DEF Restoring, Underway
    <3>1. Underway
      BY <2>4 DEF Underway
    <3>2. /\ Behind' = k + 1
          /\ \A n \in 1 .. Ahead' : job'[First' + n] = RestoreOf(backup[Behind' + n])
      BY <1>1, <1>2, <2>5, <3>1, EntryPassed
    <3>3. \A n \in 1 .. k : Restored(n)'
      <4> SUFFICES ASSUME NEW n \in 1 .. k PROVE Restored(n)'
        OBVIOUS
      <4>1. PICK id \in IdsOf(backup[n].row.ivk) :
              id \in request.inserted \ torn => TaddrOf(id) = backup[n].taddr
        BY <1>4, <3>1 DEF Restored
      <4>2. id \in DOMAIN accounts /\ id # new /\ (id \in IdsOf(backup[n].row.ivk))'
        BY <1>2, <2>3, <4>1 DEF IdsOf
      <4>3. id \in request'.inserted \ torn' => id \in request.inserted \ torn
        BY <2>2, <2>4, <4>2
      <4>4. TaddrOf(id)' = TaddrOf(id)
        BY <1>2 DEF TaddrOf
      <4> QED BY <1>2, <2>5, <4>1, <4>2, <4>3, <4>4 DEF Restored
    <3>4. (new \in IdsOf(backup[k + 1].row.ivk))'
      BY <1>2, <1>5, <2>3, <3>1 DEF IdsOf
    <3>5. Restored(k + 1)' \/ (Pending' /\ Halfway(k + 1)')
      <4>1. CASE Pending' /\ job'[1].id = new /\ job'[1].taddr = e.taddr
        BY <1>2, <1>5, <3>1, <3>2, <3>4, <4>1 DEF Halfway
      <4>2. CASE e.taddr = NoTaddr /\ ~Pending'
        <5>1. new \in request'.inserted \ torn' => TaddrOf(new)' = backup'[k + 1].taddr
          BY <1>2, <1>5, <2>2, <2>3, <3>1, <4>2 DEF TaddrOf
        <5> QED BY <1>2, <3>4, <4>2, <5>1 DEF Restored
      <4> QED BY <2>5, <4>1, <4>2
    <3>6. \A id \in request'.inserted :
            \E n \in 1 .. k + 1 : id \in {a \in DOMAIN accounts' : accounts'[a].ivk = backup[n].row.ivk}
      <4>1. k + 1 \in 1 .. k + 1 /\ \A n \in 1 .. k : n \in 1 .. k + 1
        BY <1>4, <3>1
      <4>2. new \in {a \in DOMAIN accounts' : accounts'[a].ivk = backup[k + 1].row.ivk}
        BY <1>5, <2>3, <3>1
      <4>3. \A id \in request.inserted : \E n \in 1 .. k :
              id \in {a \in DOMAIN accounts' : accounts'[a].ivk = backup[n].row.ivk}
        BY <1>4, <2>3, <3>1 DEF IdsOf
      <4> QED BY <2>4, <4>1, <4>2, <4>3
    <3> QED BY <1>7, <3>1, <3>2, <3>3, <3>5, <3>6
  <2> QED BY <2>3, <2>5, <2>6, <2>7 DEF AInv
<1> QED BY <1>8, <1>9

(* The pending address is stored, unless the account has one already: then *)
(* its id is torn.                                                         *)
LEMMA InsertTaddrKeeps ==
  ASSUME AInv, ExecInsertTaddr
  PROVE  AInv'
<1> PICK s : s = Head(job)
  OBVIOUS
<1> PICK k : k = Behind
  OBVIOUS
<1>1. job # <<>> /\ s = job[1] /\ s.do = "insert_taddr" /\ Pending /\ ~Deleting
  BY PopJob DEF ExecInsertTaddr, Doing, Pending, Deleting
<1>2. /\ job' = Tail(job)
      /\ taddrs' = (IF s.id \in DOMAIN taddrs THEN taddrs ELSE With(taddrs, s.id, s.taddr))
      /\ UNCHANGED <<accounts, owned, request, syncKeys, backup, torn>>
  BY DEF ExecInsertTaddr
<1>3. IsSeq(job') /\ ~Pending' /\ PendingFits' /\ BackupFits' /\ DeleteFits'
  BY <1>1, <1>2, PopKeeps
<1>4. /\ s.id \in DOMAIN accounts /\ s.taddr = [of |-> s.taddr.of, key |-> s.taddr.key]
      /\ s.id \notin torn => accounts[s.id].ivk = s.taddr.of /\ s.id \notin DOMAIN taddrs
  BY <1>1 DEF AInv, PendingFits
<1>5. /\ DOMAIN taddrs' = DOMAIN taddrs \cup {s.id}
      /\ \A id \in DOMAIN taddrs : taddrs'[id] = taddrs[id]
      /\ s.id \notin DOMAIN taddrs => taddrs'[s.id] = s.taddr
  BY <1>2 DEF With
<1>6. IdTypes'
  <2>1. \A id \in DOMAIN taddrs' : taddrs'[id] = [of |-> taddrs'[id].of, key |-> taddrs'[id].key]
    BY <1>4, <1>5 DEF AInv, IdTypes
  <2> QED BY <1>2, <1>3, <2>1 DEF AInv, IdTypes
<1>7. RowsAreOwned' /\ KeysFit'
  <2>1. \A id \in DOMAIN taddrs' \ torn :
          id \in DOMAIN accounts /\ accounts[id].ivk = taddrs'[id].of
    BY <1>4, <1>5 DEF AInv, RowsAreOwned
  <2> QED BY <1>2, <2>1 DEF AInv, RowsAreOwned, KeysFit
<1>8. Restoring'
  <2> SUFFICES ASSUME Underway' PROVE Restoring'
    BY DEF Restoring, Underway
  <2>1. Underway
    BY <1>2 DEF Underway
  <2> DEFINE l == Len(job)
             b == Len(backup)
             t == Len(Tail(job))
             a == Ahead
             a1 == Ahead'
  <2>2. l \in Nat /\ l >= 1 /\ t = l - 1 /\ b \in Nat /\ First = 1 /\ First' = 0
    BY <1>1, <1>3, PopJob, SeqLen DEF AInv, IdTypes, First
  <2>3. a = t /\ a1 = t /\ k = b - t /\ Behind' = b - t
    <3>1. a = l - 1 /\ a1 = t - 0
      BY <1>2, <2>2 DEF Ahead
    <3>2. k = b - a /\ Behind' = b - a1
      BY <1>2 DEF Behind
    <3> HIDE DEF a, a1, l, b, t
    <3> QED BY <2>2, <3>1, <3>2
  <2>4. /\ k >= 0
        /\ \A n \in 1 .. a : job[1 + n] = RestoreOf(backup[k + n])
        /\ \A n \in 1 .. k : Restored(n) \/ Halfway(n)
        /\ \A id \in request.inserted : \E n \in 1 .. k : id \in IdsOf(backup[n].row.ivk)
    BY <2>1, <2>2 DEF AInv, Restoring, Underway
  <2>5. \A n \in 1 .. t : Tail(job)[n] = job[n + 1]
    BY <1>1, PopJob
  <2>6. k = Behind'
    BY <2>3
  <2> HIDE DEF a, a1, l, b, t
  <2>7. \A n \in 1 .. a1 : job'[0 + n] = RestoreOf(backup[k + n])
    <3> SUFFICES ASSUME NEW n \in 1 .. a1 PROVE job'[0 + n] = RestoreOf(backup[k + n])
      OBVIOUS
    <3>1. n \in Int
      OBVIOUS
    <3>2. 0 + n = n /\ n + 1 = 1 + n
      BY <3>1
    <3> QED BY <1>2, <2>3, <2>4, <2>5, <3>2
  <2>8. \A n \in 1 .. k : Restored(n)'
    <3> SUFFICES ASSUME NEW n \in 1 .. k PROVE Restored(n)'
      OBVIOUS
    <3>1. CASE Restored(n)
      <4>1. PICK id \in IdsOf(backup[n].row.ivk) :
              id # s.id /\ (id \in request.inserted \ torn => TaddrOf(id) = backup[n].taddr)
        BY <1>1, <3>1 DEF Restored
      <4>2. TaddrOf(id)' = TaddrOf(id)
        BY <1>5, <4>1 DEF TaddrOf
      <4> QED BY <1>2, <1>3, <4>1, <4>2 DEF Restored, IdsOf
    <3>2. CASE Halfway(n)
      <4> PICK id : id = s.id
        OBVIOUS
      <4>1. id \in IdsOf(backup[n].row.ivk) /\ s.taddr = backup[n].taddr
        BY <1>1, <3>2 DEF Halfway
      <4>2. id \notin torn => TaddrOf(id)' = backup[n].taddr
        BY <1>4, <1>5, <4>1 DEF TaddrOf
      <4> QED BY <1>2, <1>3, <4>1, <4>2 DEF Restored, IdsOf
    <3> QED BY <2>4, <3>1, <3>2
  <2> QED BY <1>2, <2>2, <2>4, <2>6, <2>7, <2>8 DEF Restoring, RestoreOf, IdsOf, a1
<1> QED BY <1>3, <1>6, <1>7, <1>8 DEF AInv
-----------------------------------------------------------------------------
LEMMA TheTables ==
  /\ \A k \in 1 .. 7 : /\ DeleteTables[k] = "accounts" <=> k = 4
                       /\ DeleteTables[k] = "taddrs" <=> k = 5
                       /\ DeleteTables[k] = "secret_shares" <=> k = 7
  /\ \A t \in OwnedTables : \E j \in 1 .. 6 : DeleteTables[j] = t
<1>1. /\ DeleteTables[1] = "received_notes" /\ DeleteTables[2] = "transactions"
      /\ DeleteTables[3] = "diversifiers" /\ DeleteTables[4] = "accounts"
      /\ DeleteTables[5] = "taddrs" /\ DeleteTables[6] = "messages"
      /\ DeleteTables[7] = "secret_shares"
  BY DEF DeleteTables
<1>2. \A k \in 1 .. 7 : k = 1 \/ k = 2 \/ k = 3 \/ k = 4 \/ k = 5 \/ k = 6 \/ k = 7
  OBVIOUS
<1>3. \A k \in 1 .. 7 : /\ DeleteTables[k] = "accounts" <=> k = 4
                        /\ DeleteTables[k] = "taddrs" <=> k = 5
                        /\ DeleteTables[k] = "secret_shares" <=> k = 7
  BY <1>1, <1>2
<1>4. 1 \in 1 .. 6 /\ 2 \in 1 .. 6 /\ 3 \in 1 .. 6 /\ 6 \in 1 .. 6
  OBVIOUS
<1>5. \A t \in OwnedTables : \E j \in 1 .. 6 : DeleteTables[j] = t
  BY <1>1, <1>4 DEF OwnedTables
<1> QED BY <1>3, <1>5

LEMMA DeleteFields ==
  ASSUME NEW id, NEW table
  PROVE  /\ DeleteOf(id, table).do = "delete" /\ DeleteOf(id, table).id = id
         /\ DeleteOf(id, table).table = table
BY DEF DeleteOf

(* The next table has been cleared, or the delete has ended.               *)
LEMMA DeleteKeeps ==
  ASSUME AInv, ExecDelete
  PROVE  AInv'
<1> PICK s : s = Head(job)
  OBVIOUS
<1>1. job # <<>> /\ s = job[1] /\ s.do = "delete" /\ Deleting
  BY PopJob DEF ExecDelete, Doing, Deleting
<1>2. /\ accounts' = (IF s.table = "accounts" THEN Without(accounts, s.id) ELSE accounts)
      /\ taddrs' = (IF s.table = "taddrs" THEN Without(taddrs, s.id) ELSE taddrs)
      /\ owned' = {r \in owned : ~(r[1] = s.table /\ r[2] = s.id)}
      /\ torn' = (IF s.table = "secret_shares" /\ request.alone
                  THEN torn \ {s.id} ELSE torn \cup {s.id})
      /\ job' = Tail(job)
      /\ UNCHANGED <<request, syncKeys, backup>>
  BY DEF ExecDelete
<1>3. PICK id \in 1 .. MaxAccountId, k \in 1 .. 7 :
        DeleteAt(id, k) /\ (request.alone => Passed(id, k))
  BY <1>1 DEF AInv, DeleteFits
<1>4. IsSeq(job') /\ PendingFits' /\ BackupFits'
  BY <1>1, <1>2, PopKeeps
<1>5. s.id = id /\ s.table = DeleteTables[k]
  <2>1. 1 \in 1 .. Len(job)
    BY <1>1, SeqLen DEF AInv, IdTypes
  <2>2. job[1] = DeleteOf(id, DeleteTables[k + 1 - 1])
    BY <1>3, <2>1 DEF DeleteAt
  <2>3. k + 1 - 1 = k
    OBVIOUS
  <2> QED BY <1>1, <2>2, <2>3, DeleteFields
<1>6. /\ s.table = "accounts" <=> k = 4
      /\ s.table = "taddrs" <=> k = 5
      /\ s.table = "secret_shares" <=> k = 7
  BY <1>5, TheTables
<1>7. /\ DOMAIN accounts' = DOMAIN accounts \ (IF k = 4 THEN {id} ELSE {})
      /\ \A a \in DOMAIN accounts' : accounts'[a] = accounts[a]
      /\ DOMAIN taddrs' = DOMAIN taddrs \ (IF k = 5 THEN {id} ELSE {})
      /\ \A a \in DOMAIN taddrs' : taddrs'[a] = taddrs[a]
      /\ owned' \subseteq owned
  BY <1>2, <1>5, <1>6 DEF Without
<1>8. IdTypes'
  BY <1>2, <1>4, <1>7 DEF AInv, IdTypes
<1>9. KeysFit'
  BY <1>2, <1>7 DEF AInv, KeysFit
<1>10. RowsAreOwned'
  <2>1. CASE k = 7 /\ request.alone
    <3>1. torn' = torn \ {id} /\ accounts' = accounts /\ taddrs' = taddrs
      BY <1>2, <1>5, <1>6, <2>1
    <3>2. Passed(id, 7)
      BY <1>3, <2>1
    <3>3. \A r \in owned : r[2] # id
      <4>1. \A r \in owned : r[2] = id => \A j \in 1 .. 6 : r[1] # DeleteTables[j]
        <5>1. \A r \in owned : r[2] = id => \A j \in 1 .. 7 - 1 : r[1] # DeleteTables[j]
          BY <3>2 DEF Passed
        <5>2. \A j \in 1 .. 6 : j \in 1 .. 7 - 1
          OBVIOUS
        <5> QED BY <5>1, <5>2
      <4>2. \A r \in owned : \E j \in 1 .. 6 : DeleteTables[j] = r[1]
        BY TheTables DEF AInv, IdTypes
      <4> QED BY <4>1, <4>2
    <3>4. id \notin DOMAIN taddrs
      BY <3>2 DEF Passed
    <3> QED BY <1>7, <3>1, <3>3, <3>4 DEF AInv, RowsAreOwned
  <2>2. CASE ~ (k = 7 /\ request.alone)
    <3>1. torn' = torn \cup {id}
      BY <1>2, <1>5, <1>6, <2>2
    <3> QED BY <1>7, <3>1 DEF AInv, RowsAreOwned
  <2> QED BY <2>1, <2>2
<1>11. DeleteFits'
  <2> DEFINE l == Len(job)
             t == Len(Tail(job))
  <2>1. l = 8 - k /\ t = l - 1 /\ t \in Nat
    BY <1>1, <1>2, <1>3, <1>4, PopJob, SeqLen DEF DeleteAt
  <2>2. \A n \in 1 .. t : n + 1 \in 1 .. l /\ Tail(job)[n] = job[n + 1]
    BY <1>1, PopJob
  <2>3. \A n \in 1 .. l : job[n] = DeleteOf(id, DeleteTables[k + n - 1])
    BY <1>3 DEF DeleteAt
  <2>4. Tail(job) # <<>> => 1 \in 1 .. t
    BY <1>1, PopJob
  <2> HIDE DEF l, t
  <2>5. \A n \in 1 .. t :
          Tail(job)[n] = DeleteOf(id, DeleteTables[k + 1 + n - 1])
    <3> SUFFICES ASSUME NEW n \in 1 .. t
                 PROVE  Tail(job)[n] = DeleteOf(id, DeleteTables[k + 1 + n - 1])
      OBVIOUS
    <3>1. k + (n + 1) - 1 = k + 1 + n - 1
      OBVIOUS
    <3> QED BY <2>2, <2>3, <3>1
  <2>6. request.op # "restore_full_backup"
    BY <1>1 DEF AInv, DeleteFits
  <2>7. CASE k = 7
    <3>1. \A n \in 1 .. t : FALSE
      BY <2>1, <2>7
    <3>2. Tail(job) = <<>>
      BY <2>4, <3>1
    <3> QED BY <1>2, <3>1, <3>2 DEF DeleteFits, Deleting, t
  <2>8. CASE k # 7
    <3>1. k + 1 \in 1 .. 7
      BY <2>8
    <3>2. t = 8 - (k + 1)
      BY <2>1
    <3>3. DeleteAt(id, k + 1)'
      <4>1. Len(job') = 8 - (k + 1)
        BY <1>2, <3>2 DEF t
      <4>2. \A n \in 1 .. Len(job') :
              job'[n] = DeleteOf(id, DeleteTables[k + 1 + n - 1])
        BY <1>2, <2>5 DEF t
      <4> QED BY <4>1, <4>2 DEF DeleteAt, DeleteOf, DeleteTables
    <3>4. request.alone => Passed(id, k + 1)'
      <4> SUFFICES ASSUME request.alone PROVE Passed(id, k + 1)'
        OBVIOUS
      <4>1. Passed(id, k)
        BY <1>3
      <4>2. \A r \in owned' : r[2] = id => \A j \in 1 .. k + 1 - 1 : r[1] # DeleteTables[j]
        <5>1. \A j \in 1 .. k + 1 - 1 : j \in 1 .. k - 1 \/ j = k
          OBVIOUS
        <5>2. \A r \in owned' : r[2] = id => r[1] # DeleteTables[k]
          BY <1>2, <1>5
        <5> QED BY <1>7, <4>1, <5>1, <5>2 DEF Passed
      <4>3. (k + 1 > 4 => k = 4 \/ k > 4) /\ (k + 1 > 5 => k = 5 \/ k > 5)
        OBVIOUS
      <4>4. k + 1 > 4 => id \notin DOMAIN accounts'
        BY <1>7, <4>1, <4>3 DEF Passed
      <4>5. k + 1 > 5 => id \notin DOMAIN taddrs'
        BY <1>7, <4>1, <4>3 DEF Passed
      <4> QED BY <1>2, <4>1, <4>2, <4>4, <4>5 DEF Passed, DeleteTables
    <3>5. Deleting'
      <4>1. 1 \in 1 .. t
        BY <2>1, <2>8
      <4>2. Tail(job)[1].do = "delete"
        <5>1. Tail(job)[1] = DeleteOf(id, DeleteTables[k + 1 + 1 - 1])
          BY <2>5, <4>1
        <5>2. DeleteOf(id, DeleteTables[k + 1 + 1 - 1]).do = "delete"
          BY DeleteFields
        <5> QED BY <5>1, <5>2
      <4>3. Tail(job) # <<>>
        BY <4>1, EmptyIsSeq, NotAny DEF t
      <4> QED BY <1>2, <4>2, <4>3 DEF Deleting
    <3> QED BY <1>2, <2>6, <3>1, <3>3, <3>4, <3>5 DEF DeleteFits
  <2> QED BY <2>7, <2>8
<1>12. Restoring'
  <2>1. ~Underway
    BY <1>1, NotRestoring DEF Underway
  <2> QED BY <1>2, <2>1 DEF Restoring, Underway
<1> QED BY <1>4, <1>8, <1>9, <1>10, <1>11, <1>12 DEF AInv

-----------------------------------------------------------------------------
(* An error, a crash, another device, and the sync.                        *)
LEMMA FailsKeeps ==
  ASSUME AInv, StatementFails
  PROVE  AInv'
<1>1. /\ job # <<>>
      /\ job' = (IF request.op = "restore_full_backup" THEN Tail(job) ELSE <<>>)
      /\ request' = [request EXCEPT !.failed = TRUE]
      /\ UNCHANGED <<accounts, taddrs, owned, syncKeys, backup, torn>>
  BY DEF StatementFails
<1>2. /\ request'.failed = TRUE
      /\ request' = [op |-> request'.op, failed |-> request'.failed,
                     inserted |-> request'.inserted, alone |-> request'.alone]
  <2>1. request = [op |-> request.op, failed |-> request.failed, inserted |-> request.inserted,
                   alone |-> request.alone]
    BY DEF AInv, IdTypes
  <2> QED BY <1>1, <2>1
<1>3. IsSeq(job') /\ PendingFits' /\ BackupFits' /\ DeleteFits'
  <2>1. CASE request.op = "restore_full_backup"
    <3>1. ~Deleting /\ job' = Tail(job)
      BY <1>1, <2>1 DEF AInv, DeleteFits
    <3> QED BY <1>1, <3>1, PopKeeps
  <2>2. CASE request.op # "restore_full_backup"
    <3>1. job' = <<>> /\ Len(job') = 0 /\ IsSeq(job')
      BY <1>1, <2>2, EmptyIsSeq
    <3> QED BY <1>1, <3>1 DEF AInv, PendingFits, Pending, BackupFits, EntryFits, DeleteFits, Deleting
  <2> QED BY <2>1, <2>2
<1>4. IdTypes'
  BY <1>1, <1>2, <1>3 DEF AInv, IdTypes
<1>5. RowsAreOwned' /\ KeysFit'
  BY <1>1 DEF AInv, RowsAreOwned, KeysFit
<1>6. Restoring'
  BY <1>2 DEF Restoring
<1> QED BY <1>3, <1>4, <1>5, <1>6 DEF AInv

LEMMA CrashKeeps ==
  ASSUME AInv, Crash
  PROVE  AInv'
<1>1. /\ job' = <<>> /\ request' = [request EXCEPT !.failed = TRUE]
      /\ UNCHANGED <<accounts, taddrs, owned, backup, torn>>
  BY DEF Crash
<1>2. /\ request'.failed = TRUE
      /\ request' = [op |-> request'.op, failed |-> request'.failed,
                     inserted |-> request'.inserted, alone |-> request'.alone]
  <2>1. request = [op |-> request.op, failed |-> request.failed, inserted |-> request.inserted,
                   alone |-> request.alone]
    BY DEF AInv, IdTypes
  <2> QED BY <1>1, <2>1
<1>3. Len(job') = 0 /\ IsSeq(job')
  BY <1>1, EmptyIsSeq
<1>4. IdTypes'
  BY <1>1, <1>2, <1>3 DEF AInv, IdTypes
<1>5. RowsAreOwned' /\ KeysFit'
  BY <1>1 DEF AInv, RowsAreOwned, KeysFit
<1>6. Restoring'
  BY <1>2 DEF Restoring
<1>7. PendingFits' /\ BackupFits' /\ DeleteFits'
  BY <1>1, <1>3 DEF AInv, PendingFits, Pending, BackupFits, EntryFits, DeleteFits, Deleting
<1> QED BY <1>4, <1>5, <1>6, <1>7 DEF AInv

LEMMA NewDeviceKeeps ==
  ASSUME AInv, NewDevice
  PROVE  AInv'
<1>1. /\ job = <<>> /\ job' = <<>> /\ accounts' = <<>> /\ taddrs' = <<>> /\ owned' = {}
      /\ request' = [op |-> "none", failed |-> FALSE, inserted |-> {}, alone |-> TRUE]
      /\ backup' = backup
  BY DEF NewDevice, NoRequest
<1>2. Len(job') = 0 /\ IsSeq(job') /\ DOMAIN accounts' = {} /\ DOMAIN taddrs' = {}
  BY <1>1, EmptyIsSeq
<1>3. request' = [op |-> request'.op, failed |-> request'.failed,
                  inserted |-> request'.inserted, alone |-> request'.alone]
  BY <1>1
<1>4. IdTypes'
  BY <1>1, <1>2, <1>3 DEF AInv, IdTypes
<1>5. RowsAreOwned' /\ KeysFit'
  BY <1>1, <1>2 DEF AInv, RowsAreOwned, KeysFit
<1>6. Restoring'
  BY <1>1 DEF Restoring
<1>7. PendingFits' /\ BackupFits' /\ DeleteFits'
  BY <1>1, <1>2 DEF AInv, PendingFits, Pending, BackupFits, EntryFits, DeleteFits, Deleting
<1> QED BY <1>4, <1>5, <1>6, <1>7 DEF AInv

(* The sync marks the id torn when it stores rows of another key, and no   *)
(* delete that runs beside it counts as complete.                          *)
Beside ==
  /\ UNCHANGED <<accounts, taddrs, job, backup>> /\ torn \subseteq torn'
  /\ request' = request \/ request' = [request EXCEPT !.alone = FALSE]
  /\ \A r \in owned' \ owned :
       r[1] \in OwnedTables
       /\ (r[2] \notin torn' => r[2] \in DOMAIN accounts /\ accounts[r[2]].ivk = r[3])
  /\ \/ ~request'.alone
     \/ request' = request /\ syncKeys' = <<>> /\ owned' = owned
     \/ request' = request /\ syncKeys' = syncKeys /\ syncKeys # <<>>

LEMMA RequestOf ==
  ASSUME AInv
  PROVE  request = [op |-> request.op, failed |-> request.failed, inserted |-> request.inserted,
                    alone |-> request.alone]
BY DEF AInv, IdTypes

LEMMA SyncIsBeside ==
  ASSUME AInv, LoadKeys \/ (\E i \in DOMAIN syncKeys : Receive(i)) \/ SyncEnds
  PROVE  Beside
<1>1. CASE LoadKeys
  <2>1. request' = [request EXCEPT !.alone = FALSE]
        /\ UNCHANGED <<accounts, taddrs, owned, job, subs, backup, torn>>
    BY <1>1 DEF LoadKeys
  <2>2. ~request'.alone
    BY <2>1, RequestOf
  <2> QED BY <2>1, <2>2 DEF Beside
<1>2. ASSUME NEW i \in DOMAIN syncKeys, Receive(i) PROVE Beside
  <2>1. /\ owned' = owned \cup {<<t, i, syncKeys[i]>> :
                                   t \in {"received_notes", "transactions", "messages"}}
        /\ torn' = (IF i \in DOMAIN accounts /\ accounts[i].ivk = syncKeys[i]
                    THEN torn ELSE torn \cup {i})
        /\ UNCHANGED <<accounts, taddrs, job, request, subs, syncKeys, backup, accountCalls>>
    BY <1>2 DEF Receive
  <2>2. \A r \in owned' \ owned : r[1] \in OwnedTables /\ r[2] = i /\ r[3] = syncKeys[i]
    BY <2>1 DEF OwnedTables
  <2>3. syncKeys # <<>>
    BY <1>2
  <2>4. i \notin torn' => i \in DOMAIN accounts /\ accounts[i].ivk = syncKeys[i]
    BY <2>1
  <2> QED BY <2>1, <2>2, <2>3, <2>4 DEF Beside
<1>3. CASE SyncEnds
  BY <1>3 DEF SyncEnds, Beside
<1> QED BY <1>1, <1>2, <1>3

LEMMA SyncKeeps ==
  ASSUME AInv, Beside
  PROVE  AInv'
<1>1. /\ UNCHANGED <<accounts, taddrs, job, backup>> /\ torn \subseteq torn'
      /\ \A r \in owned' \ owned :
           r[1] \in OwnedTables
           /\ (r[2] \notin torn' => r[2] \in DOMAIN accounts /\ accounts[r[2]].ivk = r[3])
  BY DEF Beside
<1>2. /\ request'.op = request.op /\ request'.failed = request.failed
      /\ request'.inserted = request.inserted
      /\ request' = [op |-> request'.op, failed |-> request'.failed,
                     inserted |-> request'.inserted, alone |-> request'.alone]
  BY RequestOf DEF Beside
<1>3. IdTypes'
  BY <1>1, <1>2 DEF AInv, IdTypes, OwnedTables
<1>4. RowsAreOwned' /\ KeysFit'
  BY <1>1 DEF AInv, RowsAreOwned, KeysFit
<1>5. PendingFits'
  BY <1>1 DEF AInv, PendingFits, Pending
<1>6. BackupFits'
  BY <1>1 DEF AInv, BackupFits, EntryFits
<1>7. DeleteFits'
  <2>1. CASE Deleting
    <3>1. request.op # "restore_full_backup"
      BY <2>1 DEF AInv, DeleteFits
    <3>2. PICK id \in 1 .. MaxAccountId, k \in 1 .. 7 :
            DeleteAt(id, k) /\ (request.alone => Passed(id, k))
      BY <2>1 DEF AInv, DeleteFits
    <3>3. DeleteAt(id, k)'
      BY <1>1, <3>2 DEF DeleteAt, DeleteOf, DeleteTables
    <3>4. request'.alone => Passed(id, k)'
      <4> SUFFICES ASSUME request'.alone PROVE Passed(id, k)'
        OBVIOUS
      <4>1. request' = request
        BY DEF Beside
      <4>2. Passed(id, k)
        BY <3>2, <4>1
      <4>3. syncKeys = <<>>
        BY <4>2 DEF Passed
      <4>4. syncKeys' = <<>> /\ owned' = owned
        BY <4>3 DEF Beside
      <4> QED BY <1>1, <4>2, <4>4 DEF Passed, DeleteTables
    <3>5. Deleting'
      BY <1>1, <2>1 DEF Deleting
    <3> QED BY <1>2, <3>1, <3>2, <3>3, <3>4, <3>5 DEF DeleteFits
  <2>2. CASE ~Deleting
    BY <1>1, <2>2 DEF AInv, DeleteFits, Deleting
  <2> QED BY <2>1, <2>2
<1>8. Restoring'
  <2> SUFFICES ASSUME Underway' PROVE Restoring'
    BY DEF Restoring, Underway
  <2>1. Underway
    BY <1>2 DEF Underway
  <2>2. /\ Behind >= 0
        /\ \A n \in 1 .. Ahead : job[First + n] = RestoreOf(backup[Behind + n])
        /\ \A n \in 1 .. Behind : Restored(n) \/ Halfway(n)
        /\ \A id \in request.inserted : \E n \in 1 .. Behind : id \in IdsOf(backup[n].row.ivk)
    BY <2>1 DEF AInv, Restoring, Underway
  <2>3. First' = First /\ Ahead' = Ahead /\ Behind' = Behind
    BY <1>1 DEF First, Pending, Ahead, Behind
  <2>4. \A n \in 1 .. Behind : Restored(n) => Restored(n)'
    BY <1>1, <1>2 DEF Restored, IdsOf, TaddrOf, Pending
  <2>5. \A n \in 1 .. Behind : Halfway(n) => Halfway(n)'
    BY <1>1, <2>3 DEF Halfway, IdsOf, Pending
  <2> QED BY <1>1, <1>2, <2>2, <2>3, <2>4, <2>5 DEF Restoring, RestoreOf, IdsOf
<1> QED BY <1>3, <1>4, <1>5, <1>6, <1>7, <1>8 DEF AInv
-----------------------------------------------------------------------------
LEMMA AInvNext == AccountsAssumption /\ AInv /\ [AccountsNext]_accountVars => AInv'
<1> SUFFICES ASSUME AccountsAssumption, AInv, [AccountsNext]_accountVars PROVE AInv'
  OBVIOUS
<1>1. CASE UNCHANGED accountVars
  <2>1. UNCHANGED <<accounts, taddrs, owned, job, request, syncKeys, backup, torn>>
    BY <1>1 DEF accountVars
  <2>2. Beside
    BY <2>1 DEF Beside
  <2> QED BY <2>2, SyncKeeps
<1>2. ASSUME NEW key, NEW i, NewAccount(key, i) PROVE AInv'
  BY <1>2, CallsKeep
<1>3. ASSUME NEW a \in DOMAIN accounts,
             \/ \E i : NewSubAccount(a, i, 2)
             \/ NewDiversifiedAddress(a)
             \/ \E id : ImportTransparentKey(a, id)
      PROVE  AInv'
  BY <1>3, CallsKeep, DiversifierKeeps
<1>4. CASE \/ NextSubAccount \/ TruncateData \/ (\E k, l : ImportFromZwl(<<k, l>>))
           \/ \E id : ImportTransparentSecretKey(id)
  BY <1>4, CallsKeep
<1>5. ASSUME NEW id \in 1 .. MaxAccountId, DeleteAccount(id) PROVE AInv'
  BY <1>5, DeleteCallKeeps
<1>6. CASE GetFullBackup \/ RestoreFullBackup \/ NewDevice
  BY <1>6, BackupKeeps, RestoreCallKeeps, NewDeviceKeeps
<1>7. CASE ExecStoreAccount \/ ExecRestore \/ ExecInsertTaddr \/ ExecUpdateTaddr
  BY <1>7, StoreKeeps, RestoreKeeps, InsertTaddrKeeps, UpdateKeeps
<1>8. CASE ExecDelete \/ ExecTruncate \/ StatementFails \/ Crash
  BY <1>8, DeleteKeeps, TruncateKeeps, FailsKeeps, CrashKeeps
<1>9. CASE LoadKeys \/ (\E id \in DOMAIN syncKeys : Receive(id)) \/ SyncEnds
  BY <1>9, SyncIsBeside, SyncKeeps
<1> QED BY <1>1, <1>2, <1>3, <1>4, <1>5, <1>6, <1>7, <1>8, <1>9 DEF AccountsNext

(* No call, statement, failure, crash or sync leaves a row under the id of *)
(* an account it was not made for, but on the ids a delete that was cut    *)
(* short has left rows of, whatever the phrases and bounds (db.rs:823-849).*)
THEOREM RowsOwned == AccountsSpec => []RowsAreOwned
<1>1. AccountsInit => AInv
  BY AInvInit
<1>2. AInv /\ [AccountsNext]_accountVars => AInv'
  BY AInvNext, AccountsAssumption
<1>3. AInv => RowsAreOwned
  BY DEF AInv
<1> QED BY <1>1, <1>2, <1>3, PTL DEF AccountsSpec

LEMMA RestoredWhenDone == AInv => BackupRestored
<1> SUFFICES ASSUME AInv, request.op = "restore_full_backup", job = <<>>, ~request.failed,
                    NEW n \in DOMAIN backup
             PROVE  \E id \in IdsOf(backup[n].row.ivk) :
                      id \in request.inserted \ torn => TaddrOf(id) = backup[n].taddr
  BY DEF BackupRestored
<1> DEFINE b == Len(backup)
<1>1. b \in Nat /\ n \in 1 .. b
  BY SeqLen DEF AInv, IdTypes, IsSeq
<1>2. Behind = b
  <2>1. Len(job) = 0 /\ First = 0
    BY DEF First, Pending
  <2>2. Ahead = 0
    BY <2>1 DEF Ahead
  <2>3. Behind = b - 0
    BY <2>2 DEF Behind
  <2> HIDE DEF b
  <2> QED BY <1>1, <2>3
<1>3. Restored(n) \/ Halfway(n)
  BY <1>1, <1>2 DEF AInv, Restoring
<1>4. ~Pending
  BY DEF Pending
<1> QED BY <1>3, <1>4 DEF Restored, Halfway

(* A restore that no failure has cut short has put every account of the    *)
(* backup in the wallet, with its transparent address, whatever was there  *)
(* before and whatever the backup (db.rs:888-912).                         *)
THEOREM BackupIsRestored == AccountsSpec => []BackupRestored
<1>1. AccountsInit => AInv
  BY AInvInit
<1>2. AInv /\ [AccountsNext]_accountVars => AInv'
  BY AInvNext, AccountsAssumption
<1>3. AInv => BackupRestored
  BY RestoredWhenDone
<1> QED BY <1>1, <1>2, <1>3, PTL DEF AccountsSpec

=============================================================================
