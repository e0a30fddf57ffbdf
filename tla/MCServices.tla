----------------------------- MODULE MCServices -----------------------------
(***************************************************************************)
(* The services around the synchronization, one scene each.  They share no *)
(* state in the model, and each has questions of its own; the scene says   *)
(* which one runs, from the first state on, and the others stay where they *)
(* start.                                                                  *)
(***************************************************************************)
EXTENDS Mempool, Accounts, Contacts, Schema, TxPlan, HardwareSigner, Fountain, Prices, BlockSearch

VARIABLE scene

servicesVars == <<poolVars, accountVars, contactVars, schemaVars, planVars, hwVars,
                  fountainVars, priceVars, searchVars, scene>>

----------------------------------------------------------------------------
(* The memory pool: t1 spends a note of a, with change for a and a payment *)
(* to b; t2 spends the change.  Their hashes share a first byte.           *)
MCOwnerOf == [n1 |-> "a", n2 |-> "a", n3 |-> "b"]
MCValueOf == [n1 |-> 5, n2 |-> 3, n3 |-> 2]
MCSpendsOf == [t1 |-> {"n1"}, t2 |-> {"n2"}]
MCCreatesOf == [t1 |-> {"n2", "n3"}, t2 |-> {}]
MCHashOf == [t1 |-> <<0, 0>>, t2 |-> <<0, 1>>]

(* Plans: enough and not enough notes, with and without utxos, and two     *)
(* recipients of one address.                                              *)
MCSpendable == [a |-> {"n1", "n2", "n3"}, b |-> {"n4"}]
MCUtxos == [a |-> {"u1", "u2"}, b |-> {"u3"}]
MCZats == [n1 |-> 5, n2 |-> 3, n3 |-> 1, n4 |-> 9, u1 |-> 2, u2 |-> 1, u3 |-> 1]
Pay(to, amount, max, reply) == [to |-> to, amount |-> amount, max |-> max, reply |-> reply]
MCRequests ==
    {<<>>, <<Pay("z", 5, 2, TRUE)>>, <<Pay("t", 1, 0, TRUE), Pay("z", 0, 3, FALSE)>>,
     <<Pay("z", 4, 2, TRUE), Pay("t", 3, 1, FALSE)>>,
     <<Pay("z", 3, 2, TRUE), Pay("z", 1, 0, FALSE)>>}

(* For the device: a description of one chunk, of several, one whose count *)
(* does not fit, and one that costs more than it has.                      *)
To(to, amount) == [to |-> to, amount |-> amount]
MCHwPlans ==
    {[inputs |-> <<5, 3>>, outputs |-> <<To("x", 4)>>, change |-> "me"],
     [inputs |-> <<3>>, outputs |-> <<To("x", 1), To("y", 1)>>, change |-> "me"],
     [inputs |-> <<9>>, outputs |-> <<To("x", 1), To("y", 1), To("x", 2)>>, change |-> "me"],
     [inputs |-> <<2>>, outputs |-> <<To("x", 4)>>, change |-> "me"]}

(* Fountain codes: an id of its own, the id 0, and one id for two payloads. *)
MCIdOf == [p |-> 7, z |-> 0, r |-> 9, s |-> 9]

(* Dates with gaps and repetitions.                                        *)
MCDate == [h \in 3 .. 12 |-> (h * h) \div 9]

----------------------------------------------------------------------------

\* Where several first states are possible, a scene that rests has one of them.
Resting ==
    /\ scene # "mempool"  => idAccount = "a"
    /\ scene # "schema"   => \A c \in Coin : file[c].version = 0
    /\ scene # "plan"     => active = "a"
    /\ scene # "hardware" => hwTx.inputs = <<3>>
    /\ scene # "prices"   => now = DaySec
    /\ scene # "search"   => time = 0

ServicesInit ==
    /\ MempoolInit /\ AccountsInit /\ ContactsInit /\ SchemaInit /\ PlanInit
    /\ HwInit /\ FountainInit /\ PricesInit /\ SearchInit
    /\ scene \in {"mempool", "accounts", "contacts", "schema", "plan",
                  "hardware", "fountain", "prices", "search"}
    /\ Resting

Rest(name) ==
    /\ name # "mempool"  => UNCHANGED poolVars
    /\ name # "accounts" => UNCHANGED accountVars
    /\ name # "contacts" => UNCHANGED contactVars
    /\ name # "schema"   => UNCHANGED schemaVars
    /\ name # "plan"     => UNCHANGED planVars
    /\ name # "hardware" => UNCHANGED hwVars
    /\ name # "fountain" => UNCHANGED fountainVars
    /\ name # "prices"   => UNCHANGED priceVars
    /\ name # "search"   => UNCHANGED searchVars
    /\ UNCHANGED scene

ServicesNext ==
    \/ scene = "mempool"  /\ MempoolNext  /\ Rest("mempool")
    \/ scene = "accounts" /\ AccountsNext /\ Rest("accounts")
    \/ scene = "contacts" /\ ContactsNext /\ Rest("contacts")
    \/ scene = "schema"   /\ SchemaNext   /\ Rest("schema")
    \/ scene = "plan"     /\ PlanNext     /\ Rest("plan")
    \/ scene = "hardware" /\ HwNext       /\ Rest("hardware")
    \/ scene = "fountain" /\ FountainNext /\ Rest("fountain")
    \/ scene = "prices"   /\ PricesNext   /\ Rest("prices")
    \/ scene = "search"   /\ SearchNext   /\ Rest("search")

ServicesSpec == ServicesInit /\ [][ServicesNext]_servicesVars /\ MempoolFairness
=============================================================================
