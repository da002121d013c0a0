------------------------- MODULE PriceAlertsProofs -------------------------
(***************************************************************************)
(* What a user is told of, and what is kept of it, for any numbers of      *)
(* products, watches, readers and mail passes: no news is lost, nothing is *)
(* said twice, and a single pass keeps its letters apart.                  *)
(***************************************************************************)
EXTENDS PriceAlerts, TLAPS

Money == Price \cup {None}
Items == UNION {[D -> Price] : D \in SUBSET Pair}
WatchRow == [there : BOOLEAN, add : Money, target : Money]
Memory == [price : Money, since : 0..MinHours]
Letter == [step : {"idle", "composed", "sent"}, items : Items, broken : BOOLEAN]

Types ==
  /\ price \in [Product -> Price]
  /\ watch \in [Watch -> WatchRow]
  /\ memory \in [Pair -> Memory]
  /\ consent \in BOOLEAN
  /\ reader \in [Reader -> Items]
  /\ mail \in [Pass -> Letter]
  /\ told \in [Pair -> Money] /\ kept \in [Pair -> Money] /\ raced \subseteq Pair
  /\ sinceMail \in 0..MinHours /\ witness \subseteq Pair

\* Rows that are there: what is shown, about to be sent or remembered is of
\* them, and a product's watch has the price at which it was added.
Rows ==
  /\ \A r \in Reader : \A i \in DOMAIN reader[r] : i \in ProductPair /\ There(i)
  /\ \A p \in Pass : \A i \in DOMAIN mail[p].items : There(i)
  /\ \A i \in witness : There(i)
  /\ \A w \in Watch : watch[w].there => (watch[w].add # None <=> w \in ProductWatch)

\* The user has been told of every price that he was shown or sent, or of a
\* lower one.
ToldOf(i, p) == told[i] # None /\ told[i] <= p

Heard ==
  /\ \A r \in Reader : \A i \in DOMAIN reader[r] : ToldOf(i, reader[r][i])
  /\ \A p \in Pass : mail[p].step = "sent" =>
       \A i \in DOMAIN mail[p].items : ToldOf(i, mail[p].items[i])
  /\ \A i \in Pair : kept[i] # None => ToldOf(i, kept[i])

\* What is remembered of a pair lies between what the user was told and what
\* was recorded of that - if it was the lowest price told that was recorded.
Remembered ==
  \A i \in Pair \ raced :
    /\ memory[i].price # None => ToldOf(i, memory[i].price)
    /\ kept[i] # None => memory[i].price # None /\ memory[i].price <= kept[i]

IInv == Types /\ Rows /\ Heard /\ Remembered

-----------------------------------------------------------------------------
\* A pair is a watch and a product, of which a product's watch has but one.
LEMMA PairTyped ==
  /\ \A i \in Pair : i[1] \in Watch /\ i[2] \in Product
  /\ \A i \in ProductPair : i \in Pair /\ i[1] \in ProductWatch /\ i[2] = ProductOf[i[1]]
  /\ \A i \in Pair \ ProductPair : i[1] \in QueryWatch
  BY AlertsAssumption DEF Pair, ProductPair, Watch

\* Money is numbers, None the one that is no price.
LEMMA MoneyTyped ==
  /\ \A n \in Money : n \in Nat /\ (n # None => n \in Price)
  /\ \A n \in Price : n \in Nat /\ n # None /\ n \in Money
  /\ None \in Money
  BY AlertsAssumption DEF Money, None

LEMMA HoursTyped == MinHours \in Nat \ {0} /\ 0 \in 0..MinHours /\ MinHours \in 0..MinHours
  BY AlertsAssumption

\* The lower of two prices, none of which counts.
LEMMA LowerIsLower ==
  ASSUME NEW a \in Money, NEW b \in Price
  PROVE  /\ Lower(a, b) \in Price /\ Lower(a, b) # None
         /\ Lower(a, b) <= b
         /\ a # None => Lower(a, b) <= a
         /\ Lower(a, b) = a \/ Lower(a, b) = b
  BY MoneyTyped DEF Lower

\* Items are functions of pairs.
LEMMA ItemsTyped ==
  ASSUME NEW s \in Items
  PROVE  DOMAIN s \subseteq Pair /\ \A i \in DOMAIN s : s[i] \in Price
  <1>1. PICK D \in SUBSET Pair : s \in [D -> Price]
    BY DEF Items
  <1> QED BY <1>1

\* What is left of them without a watch's rows.
LEMMA WithoutTyped ==
  ASSUME NEW s \in Items, NEW w
  PROVE  /\ Without(s, w) \in Items
         /\ \A i \in DOMAIN Without(s, w) : i \in DOMAIN s /\ i[1] # w /\ Without(s, w)[i] = s[i]
  <1>1. PICK D \in SUBSET Pair : s \in [D -> Price]
    BY DEF Items
  <1>2. {i \in DOMAIN s : i[1] # w} \in SUBSET Pair
    BY <1>1
  <1>3. Without(s, w) \in [{i \in DOMAIN s : i[1] # w} -> Price]
    BY <1>1 DEF Without
  <1>4. Without(s, w) \in Items
    BY <1>2, <1>3 DEF Items
  <1> QED BY <1>4 DEF Without

LEMMA NothingTyped == Nothing \in Items /\ DOMAIN Nothing = {}
  <1>1. Nothing \in [{} -> Price]
    BY DEF Nothing
  <1> QED BY <1>1 DEF Items, Nothing

\* What is shown or composed is of pairs that dropped, at the prices of now.
LEMMA PricedTyped ==
  ASSUME Types, NEW K \in SUBSET Pair
  PROVE  /\ Priced(K) \in Items /\ DOMAIN Priced(K) = K
         /\ \A i \in K : Priced(K)[i] = price[i[2]] /\ price[i[2]] \in Price
  <1>1. \A i \in K : price[i[2]] \in Price
    BY PairTyped DEF Types
  <1>2. Priced(K) \in [K -> Price]
    BY <1>1 DEF Priced
  <1> QED BY <1>1, <1>2 DEF Items, Priced

-----------------------------------------------------------------------------
\* Reading prices only adds to what the user was told.
LEMMA TellTells ==
  ASSUME Types, NEW s \in Items, Tell(s)
  PROVE  /\ told' \in [Pair -> Money]
         /\ \A i \in DOMAIN s : told'[i] # None /\ told'[i] <= s[i]
         /\ \A i \in Pair, p \in Price : ToldOf(i, p) => ToldOf(i, p)'
  <1>1. DOMAIN s \subseteq Pair /\ \A i \in DOMAIN s : s[i] \in Price
    BY ItemsTyped
  <1>2. ASSUME NEW i \in Pair
        PROVE  /\ told'[i] \in Money
               /\ i \in DOMAIN s => told'[i] # None /\ told'[i] <= s[i]
               /\ told[i] # None => told'[i] # None /\ told'[i] <= told[i]
    <2>1. told'[i] = IF i \in DOMAIN s THEN Lower(told[i], s[i]) ELSE told[i]
      BY DEF Tell
    <2>2. told[i] \in Money /\ told[i] \in Nat
      BY MoneyTyped DEF Types
    <2>3. CASE i \in DOMAIN s
      BY <1>1, <2>1, <2>2, <2>3, LowerIsLower, MoneyTyped
    <2>4. CASE i \notin DOMAIN s
      BY <2>1, <2>2, <2>4
    <2> QED BY <2>3, <2>4
  <1>3. told' \in [Pair -> Money]
    BY <1>2 DEF Tell
  <1>4. \A i \in DOMAIN s : told'[i] # None /\ told'[i] <= s[i]
    BY <1>1, <1>2
  <1>5. \A i \in Pair, p \in Price : ToldOf(i, p) => ToldOf(i, p)'
    <2> SUFFICES ASSUME NEW i \in Pair, NEW p \in Price, ToldOf(i, p)
                 PROVE  told'[i] # None /\ told'[i] <= p
      BY DEF ToldOf
    <2>1. told[i] \in Nat /\ told'[i] \in Nat /\ p \in Nat
      BY <1>2, MoneyTyped DEF Types
    <2> QED BY <1>2, <2>1 DEF ToldOf
  <1> QED BY <1>3, <1>4, <1>5

\* An acknowledgement of prices that the user was told of.
LEMMA RecordRecords ==
  ASSUME IInv, NEW s \in Items, Record(s),
         \A i \in DOMAIN s : ToldOf(i, s[i]),
         UNCHANGED told
  PROVE  /\ memory' \in [Pair -> Memory] /\ kept' \in [Pair -> Money] /\ raced' \subseteq Pair
         /\ \A i \in Pair : kept'[i] # None => ToldOf(i, kept[i])'
         /\ Remembered'
         /\ \A i \in Pair : memory'[i].since = 0 \/ memory'[i] = memory[i]
         /\ \A i \in DOMAIN s : There(i) => memory'[i].since = 0
  <1>1. /\ DOMAIN s \subseteq Pair /\ \A i \in DOMAIN s : s[i] \in Price
        /\ Acked(s) \subseteq DOMAIN s
    BY ItemsTyped DEF Acked
  <1>2. \A i \in Pair : /\ memory[i] \in Memory /\ kept[i] \in Money /\ told[i] \in Money
                        /\ price[i[2]] \in Price
    BY PairTyped DEF IInv, Types
  <1>3. \A n \in Money : n \in Nat
    BY MoneyTyped
  <1>4. ASSUME NEW i \in Acked(s)
        PROVE  /\ memory'[i] \in Memory
               /\ memory'[i].price = Recorded(i, s) /\ memory'[i].since = 0
               /\ kept'[i] = Lower(kept[i], s[i])
               /\ i \in raced' <=> Recorded(i, s) # told[i]
    <2>1. i \in Pair /\ i \in DOMAIN s
      BY <1>1
    <2>2. Recorded(i, s) \in Price
      BY <1>1, <1>2, <2>1 DEF Recorded
    <2>3. memory'[i] = [price |-> Recorded(i, s), since |-> 0]
      BY <2>1 DEF Record
    <2>4. Recorded(i, s) \in Money
      BY <2>2, MoneyTyped
    <2>5. memory'[i] \in Memory
      BY <2>3, <2>4, HoursTyped DEF Memory
    <2>6. kept'[i] = Lower(kept[i], s[i]) /\ (i \in raced' <=> Recorded(i, s) # told[i])
      BY <2>1 DEF Record
    <2> QED BY <2>3, <2>5, <2>6
  <1>5. ASSUME NEW i \in Pair \ Acked(s)
        PROVE  memory'[i] = memory[i] /\ kept'[i] = kept[i] /\ (i \in raced' <=> i \in raced)
    BY DEF Record
  <1>6. ASSUME NEW i \in Acked(s)
        PROVE  /\ memory'[i] \in Memory /\ kept'[i] \in Money
               /\ kept'[i] # None => told'[i] # None /\ told'[i] <= kept'[i]
               /\ i \notin raced' => /\ memory'[i].price # None /\ told'[i] # None
                                     /\ told'[i] <= memory'[i].price
                                     /\ memory'[i].price <= kept'[i]
    <2>1. /\ kept'[i] \in Price /\ kept'[i] # None
          /\ kept'[i] = kept[i] \/ kept'[i] = s[i]
      <3>1. kept[i] \in Money /\ s[i] \in Price /\ kept'[i] = Lower(kept[i], s[i])
        BY <1>1, <1>2, <1>4
      <3> QED BY <3>1, LowerIsLower
    <2>2. told[i] # None /\ told[i] <= s[i]
      BY <1>1 DEF ToldOf
    <2>3. kept[i] # None => told[i] <= kept[i]
      BY <1>1 DEF IInv, Heard, ToldOf
    <2>4. told'[i] = told[i] /\ told[i] \in Nat /\ told[i] <= kept'[i]
      BY <1>1, <1>2, <1>3, <2>1, <2>2, <2>3
    <2>5. memory'[i] \in Memory /\ memory'[i].price = Recorded(i, s)
      BY <1>4
    <2>6. i \notin raced' => Recorded(i, s) = told[i]
      BY <1>4
    <2> QED BY <2>1, <2>2, <2>4, <2>5, <2>6, MoneyTyped, <1>4
  <1>7. ASSUME NEW i \in Pair \ Acked(s)
        PROVE  /\ memory'[i] \in Memory /\ kept'[i] \in Money
               /\ kept'[i] # None => told'[i] # None /\ told'[i] <= kept'[i]
               /\ i \notin raced' =>
                    /\ memory'[i].price # None => told'[i] # None /\ told'[i] <= memory'[i].price
                    /\ kept'[i] # None => /\ memory'[i].price # None
                                          /\ memory'[i].price <= kept'[i]
    BY <1>2, <1>5 DEF IInv, Heard, Remembered, ToldOf
  <1>8. memory' \in [Pair -> Memory] /\ kept' \in [Pair -> Money] /\ raced' \subseteq Pair
    BY <1>6, <1>7 DEF Record
  <1>9. \A i \in Pair : kept'[i] # None => ToldOf(i, kept[i])'
    BY <1>6, <1>7 DEF ToldOf
  <1>10. Remembered'
    BY <1>6, <1>7 DEF Remembered, ToldOf
  <1>11. \A i \in Pair : memory'[i].since = 0 \/ memory'[i] = memory[i]
    BY <1>4, <1>5
  <1>12. \A i \in DOMAIN s : There(i) => memory'[i].since = 0
    BY <1>1, <1>4 DEF Acked
  <1> QED BY <1>8, <1>9, <1>10, <1>11, <1>12

-----------------------------------------------------------------------------
LEMMA InitIInv ==
  ASSUME Init PROVE IInv
  <1>1. NoWatch \in WatchRow /\ ~NoWatch.there
    BY MoneyTyped DEF NoWatch, WatchRow
  <1>2. NoMemory \in Memory /\ NoMemory.price = None
    BY MoneyTyped, HoursTyped DEF NoMemory, Memory
  <1>3. NoLetter \in Letter /\ NoLetter.items = Nothing /\ NoLetter.step = "idle"
    BY NothingTyped DEF NoLetter, Letter
  <1>4. Types
    BY <1>1, <1>2, <1>3, NothingTyped, MoneyTyped, HoursTyped DEF Init, Types
  <1>5. Rows /\ Heard /\ Remembered
    BY <1>1, <1>2, <1>3, NothingTyped, PairTyped DEF Init, Rows, Heard, Remembered, There
  <1> QED BY <1>4, <1>5 DEF IInv

LEMMA MoveIInv ==
  ASSUME IInv, NEW p \in Product, Move(p) PROVE IInv'
  <1>1. price' \in [Product -> Price]
    BY DEF Move, IInv, Types
  <1> QED BY <1>1 DEF Move, IInv, Types, Rows, Heard, Remembered, ToldOf, There

LEMMA HourIInv ==
  ASSUME IInv, Hour
  PROVE  /\ IInv'
         /\ \A i \in Pair : memory[i].since <= sinceMail => memory'[i].since <= sinceMail'
         /\ sinceMail <= sinceMail'
  <1>1. sinceMail \in 0..MinHours /\ sinceMail' \in 0..MinHours
        /\ sinceMail' = IF sinceMail < MinHours THEN sinceMail + 1 ELSE sinceMail
    BY HoursTyped DEF Hour, IInv, Types
  <1>2. ASSUME NEW i \in Pair
        PROVE  /\ memory'[i] \in Memory /\ memory'[i].price = memory[i].price
               /\ memory[i].since <= sinceMail => memory'[i].since <= sinceMail'
    <2>1. memory[i] \in Memory
      BY DEF IInv, Types
    <2>2. memory'[i] = [memory[i] EXCEPT !.since = IF @ < MinHours THEN @ + 1 ELSE @]
      BY DEF Hour
    <2>3. /\ memory'[i].price = memory[i].price
          /\ memory'[i].since = IF memory[i].since < MinHours THEN memory[i].since + 1
                                                              ELSE memory[i].since
      BY <2>1, <2>2 DEF Memory
    <2>4. memory'[i] \in Memory
      BY <2>1, <2>2, HoursTyped DEF Memory
    <2> QED BY <1>1, <2>1, <2>3, <2>4, HoursTyped DEF Memory
  <1>3. memory' \in [Pair -> Memory]
    BY <1>2 DEF Hour
  <1>4. Types' /\ Rows' /\ Heard'
    BY <1>1, <1>3 DEF Hour, IInv, Types, Rows, Heard, ToldOf, There
  <1>5. Remembered'
    BY <1>2 DEF Hour, IInv, Remembered, ToldOf
  <1> QED BY <1>1, <1>2, <1>4, <1>5, HoursTyped DEF IInv

LEMMA AddIInv ==
  ASSUME IInv, NEW w \in Watch, Add(w) PROVE IInv'
  <1>1. PICK target \in Money :
          watch' = [watch EXCEPT ![w] =
            [there |-> TRUE, target |-> target,
             add |-> IF w \in ProductWatch THEN price[ProductOf[w]] ELSE None]]
    BY MoneyTyped DEF Add, Money
  <1>2. w \in ProductWatch => price[ProductOf[w]] \in Price
    BY AlertsAssumption DEF IInv, Types
  <1>3. watch'[w] \in WatchRow /\ watch'[w].there
        /\ (watch'[w].add # None <=> w \in ProductWatch)
    BY <1>1, <1>2, MoneyTyped DEF IInv, Types, WatchRow
  <1>4. watch' \in [Watch -> WatchRow] /\ \A v \in Watch \ {w} : watch'[v] = watch[v]
    BY <1>1, <1>3 DEF IInv, Types
  <1>5. \A i \in Pair : There(i) => There(i)'
    BY <1>3, <1>4, PairTyped DEF There
  <1>6. Types'
    BY <1>4 DEF Add, IInv, Types
  <1>7. Rows'
    BY <1>3, <1>4, <1>5, ItemsTyped, PairTyped DEF Add, IInv, Types, Rows, Letter
  <1> QED BY <1>6, <1>7 DEF Add, IInv, Heard, Remembered, ToldOf

LEMMA RetargetIInv ==
  ASSUME IInv, NEW w \in Watch, Retarget(w) PROVE IInv'
  <1>1. PICK target \in Money : watch' = [watch EXCEPT ![w].target = target]
    BY DEF Retarget, Money
  <1>2. watch'[w] \in WatchRow /\ watch'[w].there = watch[w].there /\ watch'[w].add = watch[w].add
    BY <1>1 DEF IInv, Types, WatchRow
  <1>3. watch' \in [Watch -> WatchRow] /\ \A v \in Watch \ {w} : watch'[v] = watch[v]
    BY <1>1, <1>2 DEF IInv, Types
  <1>4. \A i \in Pair : There(i) => There(i)'
    BY <1>2, <1>3, PairTyped DEF There
  <1>5. Types'
    BY <1>3 DEF Retarget, IInv, Types
  <1>6. Rows'
    BY <1>2, <1>3, <1>4, ItemsTyped, PairTyped DEF Retarget, IInv, Types, Rows, Letter
  <1> QED BY <1>5, <1>6 DEF Retarget, IInv, Heard, Remembered, ToldOf

LEMMA RemoveIInv ==
  ASSUME IInv, NEW w \in Watch, Remove(w)
  PROVE  /\ IInv' /\ witness' \subseteq witness
         /\ \A i \in witness' : memory'[i] = memory[i]
         /\ \A p \in Pass : mail'[p].step = mail[p].step
  <1>1. NoWatch \in WatchRow /\ ~NoWatch.there
    BY MoneyTyped DEF NoWatch, WatchRow
  <1>2. NoMemory \in Memory /\ NoMemory.price = None
    BY MoneyTyped, HoursTyped DEF NoMemory, Memory
  <1>3. watch' \in [Watch -> WatchRow] /\ watch'[w] = NoWatch
        /\ \A v \in Watch \ {w} : watch'[v] = watch[v]
    BY <1>1 DEF Remove, IInv, Types
  <1>4. \A i \in Pair : i[1] # w /\ There(i) => There(i)'
    BY <1>3, PairTyped DEF There
  <1>5. ASSUME NEW r \in Reader
        PROVE  /\ reader'[r] \in Items
               /\ \A i \in DOMAIN reader'[r] : /\ i \in DOMAIN reader[r] /\ i[1] # w
                                               /\ reader'[r][i] = reader[r][i]
    <2>1. reader'[r] = Without(reader[r], w) /\ reader[r] \in Items
      BY DEF Remove, IInv, Types
    <2>2. /\ Without(reader[r], w) \in Items
          /\ \A i \in DOMAIN Without(reader[r], w) :
               /\ i \in DOMAIN reader[r] /\ i[1] # w
               /\ Without(reader[r], w)[i] = reader[r][i]
      BY <2>1, WithoutTyped
    <2> QED BY <2>1, <2>2
  <1>6. ASSUME NEW p \in Pass
        PROVE  /\ mail'[p] \in Letter /\ mail'[p].step = mail[p].step
               /\ \A i \in DOMAIN mail'[p].items :
                    /\ i \in DOMAIN mail[p].items /\ i[1] # w
                    /\ mail'[p].items[i] = mail[p].items[i]
    <2> DEFINE s == mail[p].items
               b == mail[p].broken \/ IsHitOf(w, s)
    <2>1. mail[p] \in Letter /\ s \in Items /\ mail[p].step \in {"idle", "composed", "sent"}
      BY DEF IInv, Types, Letter
    <2>2. mail'[p] = [step |-> mail[p].step, items |-> Without(s, w), broken |-> b]
      BY <2>1 DEF Remove, Letter
    <2>3. /\ Without(s, w) \in Items
          /\ \A i \in DOMAIN Without(s, w) : i \in DOMAIN s /\ i[1] # w /\ Without(s, w)[i] = s[i]
      BY <2>1, WithoutTyped
    <2>4. b \in BOOLEAN
      BY <2>1 DEF Letter
    <2> HIDE DEF b
    <2>5. mail'[p] \in Letter
      BY <2>1, <2>2, <2>3, <2>4 DEF Letter
    <2>6. mail'[p].step = mail[p].step /\ mail'[p].items = Without(s, w)
      BY <2>2
    <2> QED BY <2>3, <2>5, <2>6
  <1>7. ASSUME NEW i \in Pair
        PROVE  /\ i[1] = w => /\ memory'[i] = NoMemory /\ told'[i] = None /\ kept'[i] = None
               /\ i[1] # w => /\ memory'[i] = memory[i] /\ told'[i] = told[i] /\ kept'[i] = kept[i]
                              /\ i \in raced <=> i \in raced'
    BY DEF Remove
  <1>8. Types'
    <2>1. reader' \in [Reader -> Items] /\ mail' \in [Pass -> Letter]
      BY <1>5, <1>6 DEF Remove
    <2>2. memory' \in [Pair -> Memory]
      BY <1>2, <1>7 DEF Remove, IInv, Types
    <2>3. told' \in [Pair -> Money] /\ kept' \in [Pair -> Money]
      BY MoneyTyped, <1>7 DEF Remove, IInv, Types
    <2>4. raced' \subseteq Pair /\ witness' \subseteq Pair
      BY DEF Remove, IInv, Types
    <2> QED BY <1>3, <2>1, <2>2, <2>3, <2>4 DEF Remove, IInv, Types
  <1>9. witness' = {i \in witness : i[1] # w}
    BY DEF Remove
  <1>10. Rows'
    <2>1. \A r \in Reader : \A i \in DOMAIN reader'[r] : i \in ProductPair /\ There(i)'
      BY <1>4, <1>5, PairTyped DEF IInv, Rows
    <2>2. \A p \in Pass : \A i \in DOMAIN mail'[p].items : There(i)'
      BY <1>4, <1>6, ItemsTyped DEF IInv, Rows, Types, Letter
    <2>3. \A i \in witness' : There(i)'
      BY <1>4, <1>9 DEF IInv, Rows, Types
    <2>4. \A v \in Watch : watch'[v].there => (watch'[v].add # None <=> v \in ProductWatch)
      BY <1>1, <1>3 DEF IInv, Rows
    <2> QED BY <2>1, <2>2, <2>3, <2>4 DEF Rows
  <1>11. Heard'
    <2>1. \A r \in Reader : \A i \in DOMAIN reader'[r] : ToldOf(i, reader[r][i])'
      BY <1>5, <1>7, PairTyped DEF IInv, Rows, Heard, ToldOf
    <2>2. \A p \in Pass : mail'[p].step = "sent" =>
            \A i \in DOMAIN mail'[p].items : ToldOf(i, mail[p].items[i])'
      <3> SUFFICES ASSUME NEW p \in Pass, mail'[p].step = "sent", NEW i \in DOMAIN mail'[p].items
                   PROVE  told'[i] # None /\ told'[i] <= mail'[p].items[i]
        BY DEF ToldOf
      <3>1. i \in Pair
        BY <1>6, ItemsTyped DEF IInv, Types, Letter
      <3> QED BY <3>1, <1>6, <1>7 DEF IInv, Heard, ToldOf
    <2>3. \A i \in Pair : kept'[i] # None => ToldOf(i, kept[i])'
      BY <1>7 DEF IInv, Heard, ToldOf
    <2> QED BY <2>1, <2>2, <2>3 DEF Heard
  <1>12. Remembered'
    BY <1>2, <1>7 DEF IInv, Remembered, ToldOf
  <1>13. \A i \in witness' : memory'[i] = memory[i]
    BY <1>7, <1>9 DEF IInv, Types
  <1> QED BY <1>6, <1>8, <1>9, <1>10, <1>11, <1>12, <1>13 DEF IInv

LEMMA ConsentIInv ==
  ASSUME IInv, Consent PROVE IInv'
  BY DEF Consent, IInv, Types, Rows, Heard, Remembered, ToldOf, There

\* Drops and hits are of rows that are there.
LEMMA ListedThere ==
  /\ Drops \subseteq ProductPair /\ \A i \in Drops : i \in Pair /\ There(i)
  /\ Hits \subseteq Pair /\ \A i \in Hits : There(i)
  BY PairTyped DEF Drops, Hits

\* To be told more spoils nothing that was heard or is remembered.
LEMMA HearingMore ==
  ASSUME IInv, NEW s \in Items, Tell(s), UNCHANGED <<memory, kept, raced>>
  PROVE  /\ \A r \in Reader : \A i \in DOMAIN reader[r] :
              told'[i] # None /\ told'[i] <= reader[r][i]
         /\ \A p \in Pass : mail[p].step = "sent" =>
              \A i \in DOMAIN mail[p].items : told'[i] # None /\ told'[i] <= mail[p].items[i]
         /\ \A i \in Pair : kept'[i] # None => ToldOf(i, kept[i])'
         /\ Remembered'
  <1>1. \A i \in Pair, n \in Price : ToldOf(i, n) => told'[i] # None /\ told'[i] <= n
    BY TellTells DEF IInv, ToldOf
  <1>2. ASSUME NEW r \in Reader, NEW i \in DOMAIN reader[r]
        PROVE  told'[i] # None /\ told'[i] <= reader[r][i]
    <2>1. reader[r] \in Items
      BY DEF IInv, Types
    <2>2. i \in Pair /\ reader[r][i] \in Price
      BY <2>1, ItemsTyped
    <2> QED BY <1>1, <2>2 DEF IInv, Heard
  <1>3. ASSUME NEW p \in Pass, mail[p].step = "sent", NEW i \in DOMAIN mail[p].items
        PROVE  told'[i] # None /\ told'[i] <= mail[p].items[i]
    <2>1. mail[p].items \in Items
      BY DEF IInv, Types, Letter
    <2>2. i \in Pair /\ mail[p].items[i] \in Price
      BY <2>1, ItemsTyped
    <2> QED BY <1>1, <1>3, <2>2 DEF IInv, Heard
  <1>4. ASSUME NEW i \in Pair, kept[i] # None
        PROVE  told'[i] # None /\ told'[i] <= kept[i]
    <2>1. kept[i] \in Price
      BY <1>4, MoneyTyped DEF IInv, Types
    <2> QED BY <1>1, <1>4, <2>1 DEF IInv, Heard
  <1>5. ASSUME NEW i \in Pair \ raced, memory[i].price # None
        PROVE  told'[i] # None /\ told'[i] <= memory[i].price
    <2>1. memory[i].price \in Price
      BY <1>5, MoneyTyped DEF IInv, Types, Memory
    <2> QED BY <1>1, <1>5, <2>1 DEF IInv, Remembered
  <1>6. \A i \in Pair : kept'[i] # None => ToldOf(i, kept[i])'
    BY <1>4 DEF ToldOf
  <1>7. Remembered'
    BY <1>5 DEF IInv, Remembered, ToldOf
  <1> QED BY <1>2, <1>3, <1>6, <1>7

LEMMA ShowIInv ==
  ASSUME IInv, NEW r \in Reader, Show(r) PROVE IInv'
  <1> DEFINE s == Priced(Drops)
  <1>1. s \in Items /\ DOMAIN s = Drops
    BY ListedThere, PricedTyped DEF IInv
  <1>2. Tell(s) /\ reader' = [reader EXCEPT ![r] = s]
    BY DEF Show
  <1> HIDE DEF s
  <1>3. reader' \in [Reader -> Items] /\ reader'[r] = s
        /\ \A q \in Reader \ {r} : reader'[q] = reader[q]
    BY <1>1, <1>2 DEF IInv, Types
  <1>4. told' \in [Pair -> Money] /\ \A i \in DOMAIN s : told'[i] # None /\ told'[i] <= s[i]
    BY <1>1, <1>2, TellTells DEF IInv
  <1>5. Types'
    BY <1>3, <1>4 DEF Show, IInv, Types
  <1>6. Rows'
    BY <1>1, <1>3, ListedThere DEF Show, IInv, Rows, There
  <1>7. Heard'
    <2>1. \A q \in Reader : \A i \in DOMAIN reader'[q] : ToldOf(i, reader[q][i])'
      BY <1>1, <1>2, <1>3, <1>4, HearingMore DEF Show, ToldOf
    <2>2. \A p \in Pass : mail'[p].step = "sent" =>
            \A i \in DOMAIN mail'[p].items : ToldOf(i, mail[p].items[i])'
      BY <1>1, <1>2, HearingMore DEF Show, ToldOf
    <2>3. \A i \in Pair : kept'[i] # None => ToldOf(i, kept[i])'
      BY <1>1, <1>2, HearingMore DEF Show
    <2> QED BY <2>1, <2>2, <2>3 DEF Heard
  <1>8. Remembered'
    BY <1>1, <1>2, HearingMore DEF Show
  <1> QED BY <1>5, <1>6, <1>7, <1>8 DEF IInv

LEMMA AckIInv ==
  ASSUME IInv, NEW r \in Reader, Ack(r)
  PROVE  /\ IInv'
         /\ \A i \in Pair : memory'[i].since = 0 \/ memory'[i] = memory[i]
  <1> DEFINE s == reader[r]
  <1>1. s \in Items /\ Record(s) /\ UNCHANGED told /\ \A i \in DOMAIN s : ToldOf(i, s[i])
    BY DEF Ack, IInv, Types, Heard
  <1>2. reader' = [reader EXCEPT ![r] = Nothing]
    BY DEF Ack
  <1>3. reader' \in [Reader -> Items] /\ DOMAIN reader'[r] = {}
        /\ \A q \in Reader \ {r} : reader'[q] = reader[q]
    BY <1>2, NothingTyped DEF IInv, Types
  <1> HIDE DEF s
  <1>4. /\ memory' \in [Pair -> Memory] /\ kept' \in [Pair -> Money] /\ raced' \subseteq Pair
        /\ \A i \in Pair : kept'[i] # None => ToldOf(i, kept[i])'
        /\ Remembered'
        /\ \A i \in Pair : memory'[i].since = 0 \/ memory'[i] = memory[i]
    BY <1>1, RecordRecords
  <1>5. Types'
    BY <1>3, <1>4 DEF Ack, IInv, Types
  <1>6. Rows'
    BY <1>3 DEF Ack, IInv, Rows, There
  <1>7. Heard'
    BY <1>3, <1>4 DEF Ack, IInv, Heard, ToldOf
  <1> QED BY <1>4, <1>5, <1>6, <1>7 DEF IInv

LEMMA LeaveIInv ==
  ASSUME IInv, NEW r \in Reader, Leave(r) PROVE IInv'
  <1>1. reader' \in [Reader -> Items] /\ DOMAIN reader'[r] = {}
        /\ \A q \in Reader \ {r} : reader'[q] = reader[q]
    BY NothingTyped DEF Leave, IInv, Types
  <1>2. Types'
    BY <1>1 DEF Leave, IInv, Types
  <1>3. Rows' /\ Heard'
    BY <1>1 DEF Leave, IInv, Rows, Heard, ToldOf, There
  <1> QED BY <1>2, <1>3 DEF Leave, IInv, Remembered, ToldOf

LEMMA ComposeIInv ==
  ASSUME IInv, NEW p \in Pass, Compose(p) PROVE IInv'
  <1>1. PICK K \in Letters :
          mail' = [mail EXCEPT ![p] = [step |-> "composed", items |-> Priced(K), broken |-> FALSE]]
    BY DEF Compose
  <1>2. K \in SUBSET Pair /\ \A i \in K : There(i)
    BY ListedThere DEF Letters
  <1>3. Priced(K) \in Items /\ DOMAIN Priced(K) = K
    BY <1>2, PricedTyped DEF IInv
  <1>4. mail'[p] = [step |-> "composed", items |-> Priced(K), broken |-> FALSE]
        /\ \A q \in Pass \ {p} : mail'[q] = mail[q]
    BY <1>1 DEF IInv, Types
  <1>5. mail'[p] \in Letter /\ mail'[p].step = "composed" /\ DOMAIN mail'[p].items = K
    BY <1>3, <1>4 DEF Letter
  <1>6. mail' \in [Pass -> Letter]
    BY <1>1, <1>4, <1>5 DEF IInv, Types
  <1>7. Types'
    BY <1>6 DEF Compose, IInv, Types
  <1>8. Rows' /\ Heard'
    BY <1>2, <1>4, <1>5 DEF Compose, IInv, Rows, Heard, ToldOf, There
  <1> QED BY <1>7, <1>8 DEF Compose, IInv, Remembered, ToldOf

LEMMA SendIInv ==
  ASSUME IInv, NEW p \in Pass, Send(p) PROVE IInv'
  <1> DEFINE s == mail[p].items
  <1>1. s \in Items /\ Tell(s) /\ mail[p] \in Letter
    BY DEF Send, IInv, Types, Letter
  <1>2. mail'[p] \in Letter /\ mail'[p].items = s
        /\ \A q \in Pass \ {p} : mail'[q] = mail[q]
    BY <1>1 DEF Send, IInv, Types, Letter
  <1>3. mail' \in [Pass -> Letter]
    BY <1>2 DEF Send, IInv, Types
  <1>4. told' \in [Pair -> Money] /\ \A i \in DOMAIN s : told'[i] # None /\ told'[i] <= s[i]
    BY <1>1, TellTells DEF IInv
  <1>5. Types'
    BY <1>3, <1>4, HoursTyped DEF Send, IInv, Types
  <1>6. Rows'
    BY <1>2 DEF Send, IInv, Rows, There
  <1>7. UNCHANGED <<memory, kept, raced, reader>>
    BY DEF Send
  <1>8. Heard'
    <2>1. \A q \in Reader : \A i \in DOMAIN reader'[q] : ToldOf(i, reader[q][i])'
      BY <1>1, <1>7, HearingMore DEF ToldOf
    <2>2. \A q \in Pass : mail'[q].step = "sent" =>
            \A i \in DOMAIN mail'[q].items : ToldOf(i, mail[q].items[i])'
      BY <1>1, <1>2, <1>4, <1>7, HearingMore DEF ToldOf
    <2>3. \A i \in Pair : kept'[i] # None => ToldOf(i, kept[i])'
      BY <1>1, <1>7, HearingMore
    <2> QED BY <2>1, <2>2, <2>3 DEF Heard
  <1>9. Remembered'
    BY <1>1, <1>7, HearingMore
  <1> QED BY <1>5, <1>6, <1>8, <1>9 DEF IInv

LEMMA NoteIInv ==
  ASSUME IInv, NEW p \in Pass, Note(p)
  PROVE  /\ IInv'
         /\ \A i \in witness' : memory'[i].since = 0
         /\ mail'[p].step = "idle"
  <1> DEFINE s == mail[p].items
  <1>1. /\ s \in Items /\ Record(s) /\ UNCHANGED told /\ witness' = DOMAIN s
        /\ \A i \in DOMAIN s : There(i) /\ ToldOf(i, s[i])
    BY DEF Note, IInv, Types, Rows, Heard, Letter
  <1>2. NoLetter \in Letter /\ NoLetter.items = Nothing /\ NoLetter.step = "idle"
    BY NothingTyped DEF NoLetter, Letter
  <1>3. mail' \in [Pass -> Letter] /\ mail'[p] = NoLetter
        /\ \A q \in Pass \ {p} : mail'[q] = mail[q]
    BY <1>2 DEF Note, IInv, Types
  <1> HIDE DEF s
  <1>4. /\ memory' \in [Pair -> Memory] /\ kept' \in [Pair -> Money] /\ raced' \subseteq Pair
        /\ \A i \in Pair : kept'[i] # None => ToldOf(i, kept[i])'
        /\ Remembered'
        /\ \A i \in DOMAIN s : There(i) => memory'[i].since = 0
    BY <1>1, RecordRecords
  <1>5. witness' \subseteq Pair
    BY <1>1, ItemsTyped
  <1>6. Types'
    BY <1>3, <1>4, <1>5 DEF Note, IInv, Types
  <1>7. Rows'
    BY <1>1, <1>2, <1>3, NothingTyped DEF Note, IInv, Rows, There
  <1>8. Heard'
    BY <1>2, <1>3, <1>4 DEF Note, IInv, Heard, ToldOf
  <1> QED BY <1>1, <1>2, <1>3, <1>4, <1>6, <1>7, <1>8 DEF IInv

LEMMA FailIInv ==
  ASSUME IInv, NEW p \in Pass, Fail(p) PROVE IInv'
  <1>1. NoLetter \in Letter /\ DOMAIN NoLetter.items = {}
    BY NothingTyped DEF NoLetter, Letter
  <1>2. mail' \in [Pass -> Letter] /\ mail'[p] = NoLetter
        /\ \A q \in Pass \ {p} : mail'[q] = mail[q]
    BY <1>1 DEF Fail, IInv, Types
  <1>3. Types'
    BY <1>2 DEF Fail, IInv, Types
  <1>4. Rows' /\ Heard'
    BY <1>1, <1>2 DEF Fail, IInv, Rows, Heard, ToldOf, There
  <1> QED BY <1>3, <1>4 DEF Fail, IInv, Remembered, ToldOf

LEMMA StutterIInv ==
  ASSUME IInv, UNCHANGED vars PROVE IInv'
  BY DEF vars, IInv, Types, Rows, Heard, Remembered, ToldOf, There

LEMMA NextIInv ==
  ASSUME IInv, [Next]_vars PROVE IInv'
  <1>1. ASSUME Next PROVE IInv'
    BY <1>1, MoveIInv, HourIInv, AddIInv, RetargetIInv, RemoveIInv, ConsentIInv, ShowIInv,
       AckIInv, LeaveIInv, ComposeIInv, SendIInv, NoteIInv, FailIInv DEF Next
  <1> QED BY <1>1, StutterIInv

\* The inductive invariant of the user's list: rows, what is shown and on its
\* way, what he was told and what is remembered of that.
THEOREM Invariance == Spec => []IInv
  BY InitIInv, NextIInv, PTL DEF Spec

\* Types; and what is shown, about to be sent or remembered of the last letter
\* is of rows that are on the user's list.
THEOREM TypeCorrect == Spec => []TypeOK
  <1>1. ASSUME IInv PROVE TypeOK
    <2>1. \A r \in Reader : DOMAIN reader[r] \subseteq {i \in ProductPair : There(i)}
      BY <1>1 DEF IInv, Rows
    <2>2. \A p \in Pass : DOMAIN mail[p].items \subseteq {i \in Pair : There(i)}
      BY <1>1, ItemsTyped DEF IInv, Rows, Types, Letter
    <2>3. witness \subseteq {i \in Pair : There(i)}
      BY <1>1 DEF IInv, Rows, Types
    <2> QED BY <1>1, <2>1, <2>2, <2>3 DEF IInv, Types, TypeOK, Shown, Money, WatchRow, Memory
  <1> QED BY <1>1, Invariance, PTL

-----------------------------------------------------------------------------
\* What is news to the user is listed or is a hit, whatever got lost on the
\* way: what is remembered is never less than what he was told.
THEOREM NewsHolds == Spec => []NewsPending
  <1>1. ASSUME IInv PROVE NewsPending
    <2> SUFFICES ASSUME NEW i \in Pair \ raced, News(i) PROVE i \in Drops \cup Hits
      BY DEF NewsPending
    <2>1. memory[i].price \in Nat /\ price[i[2]] \in Nat /\ told[i] \in Nat /\ i[1] \in Watch
      BY <1>1, MoneyTyped, PairTyped DEF IInv, Types, Memory
    <2>2. memory[i].price # None => price[i[2]] < memory[i].price
      BY <1>1, <2>1 DEF News, IInv, Remembered, ToldOf
    <2>3. CASE i \in ProductPair
      <3>1. watch[i[1]].add # None /\ price[i[2]] < watch[i[1]].add
        BY <1>1, <2>1, <2>3, PairTyped DEF News, IInv, Rows, There
      <3> QED BY <2>2, <2>3, <3>1 DEF News, Drops, Baseline
    <2>4. CASE i \notin ProductPair
      BY <2>2, <2>4 DEF News, Hits
    <2> QED BY <2>3, <2>4
  <1> QED BY <1>1, Invariance, PTL

\* A drop told and recorded is not listed again, unless an acknowledgement has
\* recorded another price than the lowest one told.
THEOREM RepeatHolds == Spec => []NoRepeat
  <1>1. ASSUME IInv PROVE NoRepeat
    <2> SUFFICES ASSUME NEW i \in (Drops \cup Hits) \ raced, kept[i] # None
                 PROVE  price[i[2]] < kept[i]
      BY DEF NoRepeat
    <2>1. i \in Pair
      BY ListedThere
    <2>2. memory[i].price \in Nat /\ price[i[2]] \in Nat /\ kept[i] \in Nat
      BY <1>1, <2>1, MoneyTyped, PairTyped DEF IInv, Types, Memory
    <2>3. memory[i].price # None /\ memory[i].price <= kept[i]
      BY <1>1, <2>1 DEF IInv, Remembered
    <2>4. price[i[2]] < memory[i].price
      BY <2>3 DEF Drops, Hits, Baseline
    <2> QED BY <2>2, <2>3, <2>4
  <1> QED BY <1>1, Invariance, PTL

-----------------------------------------------------------------------------
\* What keeps a single pass from writing twice: every record of the last
\* letter is at most as old as the letter, so a pass that finds no recent
\* record finds no recent letter.
Paused ==
  /\ \A i \in witness : memory[i].since <= sinceMail
  /\ witness # {} => \A p \in Pass : mail[p].step = "composed" => sinceMail >= MinHours

OnePass == \A p, q \in Pass : p = q

LEMMA NextPaused ==
  ASSUME OnePass, IInv, Paused, [Next]_vars PROVE Paused'
  <1>1. /\ witness \subseteq Pair /\ sinceMail \in Nat
        /\ \A i \in Pair : memory[i].since \in Nat
    BY HoursTyped DEF IInv, Types, Memory
  <1>2. MinHours \in Nat
    BY HoursTyped
  <1>3. CASE Hour
    <2>1. \A i \in witness : memory'[i].since <= sinceMail'
      BY <1>1, <1>3, HourIInv DEF Paused
    <2>2. sinceMail <= sinceMail' /\ sinceMail' \in Nat
      BY <1>2, <1>3, HourIInv, HoursTyped DEF Hour, IInv, Types
    <2>3. UNCHANGED <<witness, mail>>
      BY <1>3 DEF Hour
    <2> QED BY <1>1, <1>2, <2>1, <2>2, <2>3 DEF Paused
  <1>4. ASSUME NEW w \in Watch, Remove(w) PROVE Paused'
    <2>1. UNCHANGED sinceMail
      BY <1>4 DEF Remove
    <2> QED BY <1>4, <2>1, RemoveIInv DEF Paused
  <1>5. ASSUME NEW r \in Reader, Ack(r) PROVE Paused'
    <2>1. UNCHANGED <<sinceMail, witness, mail>>
      BY <1>5 DEF Ack
    <2>2. \A i \in Pair : memory'[i].since = 0 \/ memory'[i] = memory[i]
      BY <1>5, AckIInv
    <2> QED BY <1>1, <2>1, <2>2 DEF Paused
  <1>6. ASSUME NEW p \in Pass, Compose(p) PROVE Paused'
    <2>1. UNCHANGED <<sinceMail, witness, memory>> /\ ~Recent
      BY <1>6 DEF Compose
    <2>2. \A i \in witness : memory[i].since >= MinHours
      BY <1>1, <1>2, <2>1 DEF Recent, IInv, Rows
    <2>3. witness # {} => sinceMail >= MinHours
      BY <1>1, <1>2, <2>2 DEF Paused
    <2> QED BY <2>1, <2>3 DEF Paused
  <1>7. ASSUME NEW p \in Pass, Send(p) PROVE Paused'
    BY <1>7 DEF Send, Paused
  <1>8. ASSUME NEW p \in Pass, Note(p) PROVE Paused'
    <2>1. UNCHANGED sinceMail
      BY <1>8 DEF Note
    <2>2. \A i \in witness' : memory'[i].since = 0
      BY <1>8, NoteIInv
    <2>3. \A q \in Pass : mail'[q].step = "idle"
      BY <1>8, NoteIInv DEF OnePass
    <2> QED BY <1>1, <2>1, <2>2, <2>3 DEF Paused
  <1>9. ASSUME NEW p \in Pass, Fail(p) PROVE Paused'
    <2>1. \A q \in Pass : mail'[q] = mail[q] \/ mail'[q].step = "idle"
      BY <1>9 DEF Fail, IInv, Types, NoLetter
    <2> QED BY <1>9, <2>1 DEF Fail, Paused
  <1>10. ASSUME UNCHANGED <<memory, mail, sinceMail, witness>> PROVE Paused'
    BY <1>10 DEF Paused
  <1>11. ASSUME Next PROVE Paused'
    <2>1. CASE \E p \in Product : Move(p)
      BY <1>10, <2>1 DEF Move
    <2>2. CASE \E w \in Watch : Add(w) \/ Retarget(w)
      BY <1>10, <2>2 DEF Add, Retarget
    <2>3. CASE Consent
      BY <1>10, <2>3 DEF Consent
    <2>4. CASE \E r \in Reader : Show(r) \/ Leave(r)
      BY <1>10, <2>4 DEF Show, Leave
    <2> QED BY <1>3, <1>4, <1>5, <1>6, <1>7, <1>8, <1>9, <1>11, <2>1, <2>2, <2>3, <2>4 DEF Next
  <1> QED BY <1>10, <1>11 DEF vars

\* One pass at a time writes letters MIN_HOURS apart, as long as a row is left
\* that records the earlier one.
THEOREM PauseHolds ==
  ASSUME OnePass PROVE Spec => MailPause
  <1>1. Init => Paused
    BY DEF Init, Paused
  <1>2. IInv /\ Paused /\ [Next]_vars => Paused'
    BY NextPaused
  <1>3. Paused /\ [Next]_vars =>
          [\A p \in Pass : mail[p].step = "composed" /\ mail'[p].step = "sent" /\ witness # {}
                            => sinceMail >= MinHours]_vars
    BY DEF Paused
  <1> QED BY <1>1, <1>2, <1>3, Invariance, PTL DEF Spec, MailPause
=============================================================================
