------------------------------- MODULE Prices -------------------------------
(***************************************************************************)
(* The daily quotes of a currency.  A call asks for the days after the     *)
(* last one stored, rounds what it gets to days, and inserts it in one     *)
(* transaction: a day that is already there fails the insert and loses     *)
(* all of them.  The lock of the database is held during the request, so   *)
(* calls follow each other; the clock goes on, or back, between them.      *)
(***************************************************************************)
EXTENDS Integers, FiniteSetsExt

CONSTANTS
    DaySec,         \* units of a day
    MaxDay,         \* bound: the last day of the clock
    Windows,        \* days that a caller may ask for
    MaxReply        \* bound: prices of a reply

ASSUME PricesAssumption == DaySec \in Nat \ {0} /\ Windows \subseteq Nat

VARIABLES
    quotes,         \* the days that are stored
    now,            \* what the caller takes for the time
    lastStored      \* what the last call got was stored

priceVars == <<quotes, now, lastStored>>

PricesInit == quotes = {} /\ now \in DaySec .. 2 * DaySec - 1 /\ lastStored = TRUE

----------------------------------------------------------------------------

Today == now \div DaySec
LatestDay(days) == Max({0, Today - days} \cup quotes)

\* A mutant: the last day that is stored is asked for again.
AskedAgain(days) == LatestDay(days) * DaySec .. Today * DaySec

\* The times of the request: from the day after the last one to today.
Asked(days) == (LatestDay(days) + 1) * DaySec .. Today * DaySec

\* The service: prices at some of these times, oldest first, as many a day as
\* it likes.
PriceReplies(times) ==
    {reply \in UNION {[1 .. k -> times] : k \in 0 .. MaxReply} :
        \A n, m \in DOMAIN reply : n < m => reply[n] < reply[m]}

Day(reply, n) == reply[n] \div DaySec

\* The first price of each day: a day that repeats the one before is left out.
Daily(reply) == {n \in DOMAIN reply : n = 1 \/ Day(reply, n) # Day(reply, n - 1)}

\* store_historical_prices: one row for each of these.
Store(reply) ==
    IF \A n \in Daily(reply) :
         /\ Day(reply, n) \notin quotes
         /\ \A m \in Daily(reply) : m < n => Day(reply, m) # Day(reply, n)
    THEN quotes' = quotes \cup {Day(reply, n) : n \in Daily(reply)} /\ lastStored' = TRUE
    ELSE quotes' = quotes /\ lastStored' = FALSE

SyncHistoricalPrices(days) ==
    /\ IF LatestDay(days) < Today
       THEN \E reply \in PriceReplies(Asked(days)) : Store(reply)
       ELSE Store(<<>>)
    /\ UNCHANGED now

ClockMoves(t) ==
    /\ now' = t /\ t # now
    /\ UNCHANGED <<quotes, lastStored>>

PricesNext ==
    \/ \E days \in Windows : SyncHistoricalPrices(days)
    \/ \E t \in DaySec .. MaxDay * DaySec : ClockMoves(t)

PricesSpec == PricesInit /\ [][PricesNext]_priceVars

----------------------------------------------------------------------------
(* Properties.                                                             *)

\* No call asks for what it has or keeps a day twice, whatever windows and
\* clocks the calls before it had: an insert that failed would fail the same
\* way at every later call (prices.rs:29-33, 54-60, db.rs:752-764).
QuotesStored == lastStored
=============================================================================
