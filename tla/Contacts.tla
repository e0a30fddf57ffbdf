------------------------------ MODULE Contacts ------------------------------
(***************************************************************************)
(* The address book.  It is backed up on the chain: an edit marks its      *)
(* contact dirty, a commit pays nothing to the wallet's own address with   *)
(* all dirty contacts in the memos, and sync, when it reads the            *)
(* transaction back, stores them as clean.  A commit changes nothing in    *)
(* the database, so one that is never mined leaves its contacts dirty.     *)
(***************************************************************************)
EXTENDS Integers, FiniteSets, FiniteSetsExt, Sequences, SequencesExt

CONSTANTS
    Version,        \* what a contact can say: a name with an address
    ChunkIndexes,   \* indices a memo can carry: 2^8 in the code
    MaxContacts,    \* bound: contacts
    MaxEdits,       \* bound: edits
    MaxCommits      \* bound: commits

VARIABLES
    contacts,       \* id -> [version, dirty]
    sent,           \* commits accepted by the network, not mined yet
    chain,          \* commits that were mined, oldest first
    readTo,         \* how far sync has read them
    unread,         \* those whose request failed: never asked for again
    edits, commits

contactVars == <<contacts, sent, chain, readTo, unread, edits, commits>>

Dirty(cs) == {id \in DOMAIN cs : cs[id].dirty}
Put(id, version, dirty) ==
    [i \in DOMAIN contacts \cup {id} |->
        IF i = id THEN [version |-> version, dirty |-> dirty] ELSE contacts[i]]

ContactsInit ==
    /\ contacts = <<>> /\ sent = {} /\ chain = <<>>
    /\ readTo = 0 /\ unread = {} /\ edits = 0 /\ commits = 0

----------------------------------------------------------------------------
(* The codec.  A commit is a list of contacts, cut into chunks; here one   *)
(* contact is one chunk.  Each chunk travels in an output of its own, with *)
(* its index, and the outputs are shuffled, so they are a set.             *)

Payload(cs) ==
    LET ids == SetToSortSeq(Dirty(cs), <)
    IN  [n \in DOMAIN ids |-> [id |-> ids[n], version |-> cs[ids[n]].version]]

SerializeContacts(payload) ==
    {[n |-> (k - 1) % ChunkIndexes, data |-> payload[k]] : k \in DOMAIN payload}

\* The decoder keeps one chunk per index, the last it meets; the list is
\* malformed when chunks are missing.
Decoded(memos) ==
    IF Cardinality({m.n : m \in memos}) < Cardinality(memos)
    THEN {}
    ELSE {m.data : m \in memos}

----------------------------------------------------------------------------

\* store_contact of the user: id 0 asks for a new row.
StoreContact(id, version) ==
    /\ edits < MaxEdits /\ edits' = edits + 1
    /\ LET row == IF id = 0 THEN Max({0} \cup DOMAIN contacts) + 1 ELSE id
       IN  row <= MaxContacts /\ contacts' = Put(row, version, TRUE)
    /\ UNCHANGED <<sent, chain, readTo, unread, commits>>

\* A mutant: the commit takes the contacts for saved.
CommitAndClean ==
    /\ commits < MaxCommits /\ commits' = commits + 1
    /\ sent' = sent \cup {[no |-> commits, memos |-> SerializeContacts(Payload(contacts))]}
    /\ contacts' = [id \in DOMAIN contacts |-> [contacts[id] EXCEPT !.dirty = FALSE]]
    /\ UNCHANGED <<chain, readTo, unread, edits>>

\* The payment may also fail, which changes nothing; one of no contacts is sent
\* all the same.
CommitUnsavedContacts ==
    /\ commits < MaxCommits /\ commits' = commits + 1
    /\ sent' = sent \cup {[no |-> commits, memos |-> SerializeContacts(Payload(contacts))]}
    /\ UNCHANGED <<contacts, chain, readTo, unread, edits>>

MineCommit(c) ==
    /\ sent' = sent \ {c} /\ chain' = Append(chain, c.memos)
    /\ UNCHANGED <<contacts, readTo, unread, edits, commits>>

ExpireCommit(c) ==
    /\ sent' = sent \ {c}
    /\ UNCHANGED <<contacts, chain, readTo, unread, edits, commits>>

\* Sync reads the next transaction; its contacts overwrite the rows, whatever
\* has been edited since.
ReadBack ==
    /\ readTo < Len(chain) /\ readTo' = readTo + 1
    /\ LET found == Decoded(chain[readTo + 1]) IN
       contacts' = [id \in DOMAIN contacts \cup {d.id : d \in found} |->
                       IF \E d \in found : d.id = id
                       THEN [version |-> (CHOOSE d \in found : d.id = id).version, dirty |-> FALSE]
                       ELSE contacts[id]]
    /\ unread' = unread \ {readTo + 1}
    /\ UNCHANGED <<sent, chain, edits, commits>>

ReadFails ==
    /\ readTo < Len(chain) /\ readTo' = readTo + 1
    /\ unread' = unread \cup {readTo + 1}
    /\ UNCHANGED <<contacts, sent, chain, edits, commits>>

\* A rewind reads transactions again; it leaves the contacts alone.
RewindContacts(to) ==
    /\ to < readTo /\ readTo' = to
    /\ UNCHANGED <<contacts, sent, chain, unread, edits, commits>>

\* truncate_data, or the same keys on another device.
ForgetContacts ==
    /\ readTo > 0 /\ readTo' = 0 /\ contacts' = <<>> /\ unread' = {}
    /\ UNCHANGED <<sent, chain, edits, commits>>

ContactsNext ==
    \/ \E id \in {0} \cup DOMAIN contacts, v \in Version : StoreContact(id, v)
    \/ CommitUnsavedContacts
    \/ \E c \in sent : MineCommit(c) \/ ExpireCommit(c)
    \/ ReadBack \/ ReadFails
    \/ \E to \in 0 .. Len(chain) : RewindContacts(to)
    \/ ForgetContacts

ContactsSpec == ContactsInit /\ [][ContactsNext]_contactVars

----------------------------------------------------------------------------
(* Properties.                                                             *)

CommitsOf(id) == {i \in DOMAIN chain : \E d \in Decoded(chain[i]) : d.id = id}
VersionAt(i, id) == (CHOOSE d \in Decoded(chain[i]) : d.id = id).version

\* A contact is clean only if the chain can give it back: a commit that was
\* mined holds this version, and once sync has read them all it is the last
\* one, unless that one could not be read.  An edit made between a commit and
\* its reading back is lost all the same (db.rs:566-572): the rule protects
\* what the wallet calls clean.
CleanMeansOnChain ==
    \A id \in DOMAIN contacts \ Dirty(contacts) :
        /\ \E i \in CommitsOf(id) : VersionAt(i, id) = contacts[id].version
        /\ readTo = Len(chain) =>
             \/ Max(CommitsOf(id)) \in unread
             \/ VersionAt(Max(CommitsOf(id)), id) = contacts[id].version
=============================================================================
