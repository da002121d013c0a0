---------------------------- MODULE PriceAlerts ----------------------------
(***************************************************************************)
(* What one user watches and is told of drops: the watch list of           *)
(* api/db.py, the readers that show drops and acknowledge them later (the  *)
(* phone: PriceWatchService.cs, the account page: web/me.html), and the    *)
(* mail pass of alerts.py, whose every step may be its last.               *)
(*                                                                         *)
(* A watch is for a product or for a query, which any product may meet; a  *)
(* pair is a watch and a product that it is about.  What the user was told *)
(* of is remembered per pair: last_notified_kop of a product's watch,      *)
(* alert_sent of a query's.                                                *)
(***************************************************************************)
EXTENDS Integers, FiniteSets

CONSTANTS
  Product,
  ProductWatch,    \* rows of watchlist of kind store_product
  QueryWatch,      \* ... of kind query
  ProductOf,       \* ProductWatch -> Product
  Price,           \* prices of snapshots
  Reader,          \* the user's phones and open account pages
  Pass,            \* runs of alerts.py that may overlap
  MinHours,        \* MIN_HOURS
  MaxItems         \* MAX_ITEMS

Watch == ProductWatch \cup QueryWatch
Pair == {<<w, ProductOf[w]>> : w \in ProductWatch} \cup QueryWatch \X Product
ProductPair == {i \in Pair : i[1] \in ProductWatch}

ASSUME AlertsAssumption ==
  /\ ProductOf \in [ProductWatch -> Product]
  /\ ProductWatch \cap QueryWatch = {}
  /\ Price \subseteq Nat \ {0} /\ Price # {}
  /\ MinHours \in Nat \ {0} /\ MaxItems \in Nat \ {0}

None == 0            \* no price: the column is NULL, or there is no row

VARIABLES
  price,       \* Product -> price of its last snapshot
  watch,       \* table watchlist
  memory,      \* what was told: a price, and how long ago it was recorded
  consent,     \* email_alerts
  reader,      \* Reader -> what it shows and has not acknowledged
  mail,        \* Pass -> how far it is with the user's letter
  told,        \* history: lowest price that the user was told of, per pair
  kept,        \* history: lowest such price that was then recorded
  raced,       \* history: pairs whose record is not the lowest price told
  sinceMail,   \* history: time since the last letter
  witness      \* history: pairs that record the last letter

vars == <<price, watch, memory, consent, reader, mail, told, kept, raced, sinceMail, witness>>

-----------------------------------------------------------------------------
There(i) == watch[i[1]].there

Lower(a, b) == IF a = None \/ (b # None /\ b < a) THEN b ELSE a

\* coalesce(last_notified_kop, price_at_add_kop).  Slip: the price at adding.
BaselineAtAdd(i) == watch[i[1]].add
Baseline(i) == IF memory[i].price # None THEN memory[i].price ELSE watch[i[1]].add

TargetMet(i) == watch[i[1]].target = None \/ price[i[2]] <= watch[i[1]].target

\* list_price_drops: cheaper than what the user was told, or than when added.
Drops == {i \in ProductPair : There(i) /\ TargetMet(i) /\ price[i[2]] < Baseline(i)}

\* query_watch_hits: at the target, and not told of at this price.
Hits == {i \in Pair \ ProductPair :
           /\ There(i) /\ watch[i[1]].target # None /\ TargetMet(i)
           /\ memory[i].price = None \/ price[i[2]] < memory[i].price}

DropOf(i) == Baseline(i) - price[i[2]]

\* The letter lists the deepest drops first, then hits, MAX_ITEMS in all.
Letters ==
  LET n == Cardinality(Drops \cup Hits)
  IN  {K \in SUBSET (Drops \cup Hits) :
         /\ Cardinality(K) = IF n < MaxItems THEN n ELSE MaxItems
         /\ \A i \in Drops \ K : K \subseteq Drops /\ \A j \in K : DropOf(j) >= DropOf(i)}

\* _recent_alert.  Slip: it looks at alert_sent only.
RecentHit == \E i \in Pair \ ProductPair : There(i) /\ memory[i].since < MinHours
Recent == \E i \in Pair : There(i) /\ memory[i].since < MinHours

Priced(K) == [i \in K |-> price[i[2]]]

\* The user reads the prices of s.
Tell(s) ==
  told' = [i \in Pair |-> IF i \in DOMAIN s THEN Lower(told[i], s[i]) ELSE told[i]]

\* ack_price_drops records the price of now, mark_alert_sent the price shown.
Recorded(i, s) == IF i \in ProductPair THEN price[i[2]] ELSE s[i]

\* The rows that an acknowledgement of s is for.  Slip: all that dropped.
AckedAny(s) == (DOMAIN s \cup Drops) \cap {i \in Pair : There(i)}
Acked(s) == DOMAIN s \cap {i \in Pair : There(i)}

Record(s) ==
  /\ memory' = [i \in Pair |-> IF i \in Acked(s)
                                 THEN [price |-> Recorded(i, s), since |-> 0] ELSE memory[i]]
  /\ kept' = [i \in Pair |-> IF i \in Acked(s) \cap DOMAIN s
                               THEN Lower(kept[i], s[i]) ELSE kept[i]]
  /\ raced' = {i \in Pair : IF i \in Acked(s) \cap DOMAIN s
                              THEN Recorded(i, s) # told[i] ELSE i \in raced}

Nothing == [i \in {} |-> None]
NoLetter == [step |-> "idle", items |-> Nothing, broken |-> FALSE]
NoMemory == [price |-> None, since |-> MinHours]
NoWatch == [there |-> FALSE, add |-> None, target |-> None]

IsHitOf(w, s) == w \in QueryWatch /\ \E i \in DOMAIN s : i[1] = w

\* Acknowledgements name rows by ids, which are not used again.
Without(s, w) == [i \in {j \in DOMAIN s : j[1] # w} |-> s[i]]

-----------------------------------------------------------------------------
Init ==
  /\ price \in [Product -> Price]
  /\ watch = [w \in Watch |-> NoWatch]
  /\ memory = [i \in Pair |-> NoMemory]
  /\ consent = TRUE
  /\ reader = [r \in Reader |-> Nothing]
  /\ mail = [p \in Pass |-> NoLetter]
  /\ told = [i \in Pair |-> None] /\ kept = [i \in Pair |-> None] /\ raced = {}
  /\ sinceMail = MinHours /\ witness = {}

\* A new snapshot.
Move(p) ==
  /\ price' \in {[price EXCEPT ![p] = v] : v \in Price \ {price[p]}}
  /\ UNCHANGED <<watch, memory, consent, reader, mail, told, kept, raced, sinceMail, witness>>

Hour ==
  /\ memory' = [i \in Pair |-> [memory[i] EXCEPT !.since = IF @ < MinHours THEN @ + 1 ELSE @]]
  /\ sinceMail' = IF sinceMail < MinHours THEN sinceMail + 1 ELSE sinceMail
  /\ UNCHANGED <<price, watch, consent, reader, mail, told, kept, raced, witness>>

\* POST /api/me/watchlist; a watch that is there is returned as it is.  A
\* query's needs a target.
Add(w) ==
  /\ ~watch[w].there
  /\ \E target \in Price \cup IF w \in ProductWatch THEN {None} ELSE {} :
       watch' = [watch EXCEPT ![w] =
         [there |-> TRUE, target |-> target,
          add |-> IF w \in ProductWatch THEN price[ProductOf[w]] ELSE None]]
  /\ UNCHANGED <<price, memory, consent, reader, mail, told, kept, raced, sinceMail, witness>>

\* PATCH: another target, or (null) none.
Retarget(w) ==
  /\ watch[w].there
  /\ \E target \in (Price \cup {None}) \ {watch[w].target} :
       watch' = [watch EXCEPT ![w].target = target]
  /\ UNCHANGED <<price, memory, consent, reader, mail, told, kept, raced, sinceMail, witness>>

\* DELETE takes alert_sent along.  Acknowledgements of the row match nothing
\* from now on; a letter that has a hit of it cannot be recorded.
Remove(w) ==
  /\ watch[w].there
  /\ watch' = [watch EXCEPT ![w] = NoWatch]
  /\ memory' = [i \in Pair |-> IF i[1] = w THEN NoMemory ELSE memory[i]]
  /\ reader' = [r \in Reader |-> Without(reader[r], w)]
  /\ mail' = [p \in Pass |->
       [mail[p] EXCEPT !.items = Without(@, w), !.broken = @ \/ IsHitOf(w, mail[p].items)]]
  /\ told' = [i \in Pair |-> IF i[1] = w THEN None ELSE told[i]]
  /\ kept' = [i \in Pair |-> IF i[1] = w THEN None ELSE kept[i]]
  /\ raced' = {i \in raced : i[1] # w}
  /\ witness' = {i \in witness : i[1] # w}
  /\ UNCHANGED <<price, consent, sinceMail>>

\* POST /api/me/alerts, or the link in a letter.
Consent ==
  /\ consent' = ~consent
  /\ UNCHANGED <<price, watch, memory, reader, mail, told, kept, raced, sinceMail, witness>>

\* GET drops, and shows them; what was shown before is no longer at hand.
Show(r) ==
  /\ Drops # {}
  /\ reader' = [reader EXCEPT ![r] = Priced(Drops)]
  /\ Tell(Priced(Drops))
  /\ UNCHANGED <<price, watch, memory, consent, mail, kept, raced, sinceMail, witness>>

\* POST drops/ack with the rows shown: at once from a phone, when the button
\* is pressed from the page.
Ack(r) ==
  /\ reader[r] # Nothing
  /\ Record(reader[r])
  /\ reader' = [reader EXCEPT ![r] = Nothing]
  /\ UNCHANGED <<price, watch, consent, mail, told, sinceMail, witness>>

\* The page is closed, the phone dies, or the request is lost.
Leave(r) ==
  /\ reader[r] # Nothing
  /\ reader' = [reader EXCEPT ![r] = Nothing]
  /\ UNCHANGED <<price, watch, memory, consent, mail, told, kept, raced, sinceMail, witness>>

\* run comes to the user: not written to recently, and something to say.
Compose(p) ==
  /\ mail[p].step = "idle" /\ consent /\ ~Recent
  /\ \E K \in Letters \ {{}} :
       mail' = [mail EXCEPT ![p] = [step |-> "composed", items |-> Priced(K), broken |-> FALSE]]
  /\ UNCHANGED <<price, watch, memory, consent, reader, told, kept, raced, sinceMail, witness>>

\* The relay takes the letter.
Send(p) ==
  /\ mail[p].step = "composed"
  /\ mail' = [mail EXCEPT ![p].step = "sent"]
  /\ Tell(mail[p].items)
  /\ sinceMail' = 0 /\ witness' = {}
  /\ UNCHANGED <<price, watch, memory, consent, reader, kept, raced>>

\* mark_alert_sent, ack_price_drops, commit.
Note(p) ==
  /\ mail[p].step = "sent" /\ ~mail[p].broken
  /\ Record(mail[p].items)
  /\ mail' = [mail EXCEPT ![p] = NoLetter]
  /\ witness' = DOMAIN mail[p].items
  /\ UNCHANGED <<price, watch, consent, reader, told, sinceMail>>

\* The relay does not take the letter; the pass dies, or is ended by the row
\* of alert_sent that has lost its watch.
Fail(p) ==
  /\ mail[p].step # "idle"
  /\ mail' = [mail EXCEPT ![p] = NoLetter]
  /\ UNCHANGED <<price, watch, memory, consent, reader, told, kept, raced, sinceMail, witness>>

Next ==
  \/ \E p \in Product : Move(p)
  \/ Hour
  \/ \E w \in Watch : Add(w) \/ Retarget(w) \/ Remove(w)
  \/ Consent
  \/ \E r \in Reader : Show(r) \/ Ack(r) \/ Leave(r)
  \/ \E p \in Pass : Compose(p) \/ Send(p) \/ Note(p) \/ Fail(p)

Spec == Init /\ [][Next]_vars

-----------------------------------------------------------------------------
\* Properties.

Shown == [Pair -> Price \cup {None}]

\* Type invariant; what is shown or about to be sent is about rows that exist.
TypeOK ==
  /\ price \in [Product -> Price]
  /\ watch \in [Watch -> [there : BOOLEAN, add : Price \cup {None}, target : Price \cup {None}]]
  /\ memory \in [Pair -> [price : Price \cup {None}, since : 0..MinHours]]
  /\ \A r \in Reader : DOMAIN reader[r] \subseteq {i \in ProductPair : There(i)}
  /\ \A p \in Pass : DOMAIN mail[p].items \subseteq {i \in Pair : There(i)}
  /\ told \in Shown /\ kept \in Shown /\ raced \subseteq Pair
  /\ sinceMail \in 0..MinHours /\ witness \subseteq {i \in Pair : There(i)}

\* Wanted, and cheaper than at adding and than all that the user was told of.
News(i) ==
  /\ There(i) /\ TargetMet(i) /\ (i \in ProductPair \/ watch[i[1]].target # None)
  /\ watch[i[1]].add # None => price[i[2]] < watch[i[1]].add
  /\ told[i] # None => price[i[2]] < told[i]

\* What is news to the user is listed, whichever letters failed, passes died,
\* acknowledgements were lost or rows left over from a full letter - unless an
\* acknowledgement has recorded another price than the lowest one told.
NewsPending == \A i \in Pair \ raced : News(i) => i \in Drops \cup Hits

\* The same without the exception, as the comments have it: a drop does not
\* disappear before the user has seen it.
NothingUnseen == \A i \in Pair : News(i) => i \in Drops \cup Hits

\* A drop that the user was told of, with the record made, is not listed
\* again, with the same exception.
NoRepeat == \A i \in (Drops \cup Hits) \ raced : kept[i] # None => price[i[2]] < kept[i]

\* Two letters are MIN_HOURS apart, unless nothing is left that records the
\* first one: the pass died before it could, another pass is still about to,
\* or the user removed the watches it was about.
MailPause ==
  [][\A p \in Pass : mail[p].step = "composed" /\ mail'[p].step = "sent" /\ witness # {}
                      => sinceMail >= MinHours]_vars
=============================================================================
