------------------------------- MODULE SiteData -------------------------------
(***************************************************************************)
(* What the pages of the site read: the tables the workers fill, joined by *)
(* category into one row per token, and the moderator's list.              *)
(*                                                                         *)
(* A name, a word or a symbol is a small value with an order; amounts,     *)
(* prices and shares are small numbers, a Gini coefficient a percentage.   *)
(* A venue row always has a price: no worker writes one without.           *)
(***************************************************************************)
EXTENDS Integers, Sequences, FiniteSets, Functions

CONSTANTS
  Category,      \* token ids; small numbers, in the order of their bytes
  Hour, Day,     \* in ticks
  MaxTime        \* bound on the clock

VARIABLES
  now,
  rows,          \* category -> its row
  hidden         \* token_moderation: category -> when it was hidden, or Never

data == <<now, rows, hidden>>

Null == -1
Never == -1
NoPool == [listed |-> FALSE, price |-> Null, tvl |-> Null]
NoCrc20 == [detected |-> FALSE, symbol |-> Null, canonical |-> FALSE]
NoState == [verified |-> Never, burned |-> FALSE, minting |-> FALSE, supply |-> Null,
            holders |-> Null, gini |-> Null, nfts |-> Null]
NoProfile == [total |-> 0, verified |-> 0, versions |-> 0, first |-> Null, changed |-> Null,
              moved |-> Null, pulled |-> FALSE]

(* A NULL sorts after everything, in either direction.                     *)
NullsLastDesc(x) == IF x = Null THEN 1000 ELSE -x
NullsLastAsc(x) == IF x = Null THEN 1000 ELSE x

(* Keys are compared column by column.                                     *)
Before(a, b) ==
  \E i \in DOMAIN a : a[i] < b[i] /\ \A j \in 1..(i - 1) : a[j] = b[j]

(* The place of c among the rows that have a key.                          *)
Place(c, key) == 1 + Cardinality({d \in DOMAIN key : Before(key[d], key[c])})

(* The first n of the rows that have a key, which is total, in order.      *)
Top(key, n) ==
  LET all == Cardinality(DOMAIN key)
  IN [i \in 1..(IF all < n THEN all ELSE n) |-> CHOOSE c \in DOMAIN key : Place(c, key) = i]

Tracked == {c \in Category : rows[c].tracked}

(* Mutant: the clause is left out of one read.                             *)
VisibleOrNot == Tracked

Visible == {c \in Tracked : hidden[c] = Never}

Age(c) == rows[c].age + now
OnCauldron(c) == rows[c].cauldron.listed
OnFex(c) == rows[c].fex.listed
OnTapswap(c) == rows[c].offers # <<>>
Count(S, P(_)) == Cardinality({c \in S : P(c)})
Total(S, F(_)) == SumFunction([x \in S |-> F(x)])
Larger(a, b) == IF a >= b THEN a ELSE b
===============================================================================
