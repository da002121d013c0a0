---------------------------- MODULE SignInProofs ----------------------------
(***************************************************************************)
(* What holds of the two parts that guard the way into an account.  Of its *)
(* codes, for any number of codes and of requests that overlap: one good   *)
(* code of a kind at a time, every miss counted, nothing spent accepted,   *)
(* and all of a password's codes spent by its reset.  Of the limiter, for  *)
(* any number of threads, addresses and seconds: no more attempts in a     *)
(* window than its limit.                                                  *)
(***************************************************************************)
EXTENDS AccountCodes, RateLimiter, WellFoundedInduction, TLAPS

CodeRow == [sent : BOOLEAN, kind : Kind, used : BOOLEAN, attempts : Nat]

Sends == {"retire", "insert", "sent"}

\* Steps that go through rows, one at a time.
Working == {"retire", "take", "clearing", "charging"}

Steps == Sends \cup Working \cup {"idle", "look", "clear", "done", "charge", "missed"}

Request ==
  [step : Steps, kind : Kind, code : Code \cup {NoCode}, todo : SUBSET Code,
   charged : Code \cup {NoCode}, good : SUBSET Code, late : SUBSET Code, spent : BOOLEAN]

Types ==
  /\ committed \in [Code -> CodeRow] /\ table \in [Code -> CodeRow]
  /\ lock \in [Code -> Worker \cup {Nobody}]
  /\ req \in [Worker -> Request]
  /\ answered \in [Code -> Nat]
  /\ beside \in [Code -> SUBSET Code]
  /\ expired \subseteq Code

Sent(kind) == [Unsent EXCEPT !.sent = TRUE, !.kind = kind]

\* A row that nobody holds is as it was committed; a row that a request holds
\* is its new code, or one that it has spent, or charged with a miss.
Held ==
  /\ \A c \in Code : lock[c] = Nobody => table[c] = committed[c]
  /\ \A c \in Code : ~committed[c].sent => committed[c] = Unsent
  /\ \A w \in Worker, c \in Code : lock[c] = w =>
       \/ /\ req[w].step \in Sends \cup {"take", "clear", "clearing", "done"}
          /\ committed[c].sent /\ table[c] = Spent(committed[c])
       \/ /\ req[w].step = "sent" /\ c = req[w].code
          /\ table[c] = Sent(req[w].kind)
       \/ /\ req[w].step = "missed" /\ c = req[w].charged
          /\ committed[c].sent /\ table[c] = Missed(committed[c])

Beside(c, d) == c \in beside[d] /\ d \in beside[c]

IsOf(c, kind) == committed[c].sent /\ committed[c].kind = kind

\* As a request would leave it, or is about to.
SpentBy(w, c) == View(w)[c].used \/ c \in req[w].todo

\* How far each request is.  What it goes through and what was good when it
\* began are rows that are there; a sender has spent all of its kind but what
\* is being sent beside it.
Asked(w) ==
  /\ req[w].todo # {} <=> req[w].step \in Working
  /\ \A c \in req[w].todo \cup req[w].good : IsOf(c, req[w].kind)
  /\ req[w].step = "charging" => req[w].todo = {req[w].charged}
  /\ req[w].step = "missed" /\ req[w].charged # NoCode => lock[req[w].charged] = w
  /\ req[w].spent => /\ req[w].code \in Code /\ committed[req[w].code].sent
                     /\ committed[req[w].code].used
                     /\ req[w].step \in {"look", "charge", "charging", "missed"}
  /\ req[w].step \in {"clear", "clearing"} => req[w].kind = "reset"
  /\ req[w].step \in {"clearing", "done"} /\ req[w].kind = "reset" =>
       \A c \in req[w].good : SpentBy(w, c)
  /\ req[w].step \in Sends =>
       /\ req[w].code \in Code /\ ~committed[req[w].code].sent
       /\ \A c \in Code : IsOf(c, req[w].kind) =>
            SpentBy(w, c) \/ Beside(c, req[w].code)

AllAsked == \A w \in Worker : Asked(w)

\* Whoever sends at the same time sends another code, and both know.
Abreast ==
  \A v, w \in Worker : v # w /\ req[v].step \in Sends /\ req[w].step \in Sends =>
    req[v].code # req[w].code /\ Beside(req[v].code, req[w].code)

IInv == Types /\ Held /\ AllAsked /\ Abreast /\ OneGoodCode /\ MissesCounted

-----------------------------------------------------------------------------
\* Codes are numbers, so that every set of some has a first and a last one.
LEMMA CodeTyped == Code \subseteq Nat /\ NoCode \notin Code /\ MaxCodes \in Nat
  BY CodeAssumption DEF Code, NoCode

LEMMA LeastThere ==
  ASSUME NEW S, S \subseteq Nat, S # {}
  PROVE  \E x \in S : \A n \in S : x <= n
  <1>1. PICK m \in S : \A n \in S : ~(<<n, m>> \in OpToRel(<, Nat))
    BY NatLessThanWellFounded, WFMin
  <1>2. ASSUME NEW n \in S PROVE m <= n
    <2>1. n \in Nat /\ m \in Nat
      OBVIOUS
    <2>2. <<n, m>> \notin {p \in Nat \X Nat : p[1] < p[2]}
      BY <1>1 DEF OpToRel
    <2>3. ~(n < m)
      BY <2>1, <2>2
    <2> QED BY <2>1, <2>3
  <1> QED BY <1>2

LEMMA FirstAndLast ==
  ASSUME NEW S, S \subseteq Code, S # {}
  PROVE  Min(S) \in S /\ Max(S) \in S
  <1>1. Min(S) \in S
    <2>1. S \subseteq Nat
      BY CodeTyped
    <2> QED BY <2>1, LeastThere DEF Min
  <1>2. Max(S) \in S
    <2> DEFINE T == {MaxCodes - c : c \in S}
    <2>1. \A c \in S : c \in Nat /\ MaxCodes - c \in Nat
      BY CodeTyped DEF Code
    <2>2. T \subseteq Nat /\ T # {}
      BY <2>1
    <2> HIDE DEF T
    <2>3. PICK x \in T : \A n \in T : x <= n
      BY <2>2, LeastThere
    <2>4. PICK c \in S : x = MaxCodes - c
      BY DEF T
    <2>5. \A d \in S : MaxCodes - d \in T
      BY DEF T
    <2>6. \A d \in S : c >= d
      BY <2>1, <2>3, <2>4, <2>5, CodeTyped
    <2> QED BY <2>6 DEF Max
  <1> QED BY <1>1, <1>2

LEMMA NewestTyped ==
  ASSUME NEW S, S \subseteq Code
  PROVE  Newest(S) \in S \cup {NoCode} /\ (S # {} => Newest(S) \in S)
  BY FirstAndLast DEF Newest

\* What becomes of a row.
LEMMA RowsTyped ==
  ASSUME NEW r \in CodeRow
  PROVE  /\ Spent(r) \in CodeRow /\ Spent(r).used /\ Spent(r).sent = r.sent
         /\ Spent(r).kind = r.kind /\ Spent(r).attempts = r.attempts
         /\ r.used => Spent(r) = r
         /\ Spent(Spent(r)) = Spent(r)
         /\ Missed(r) \in CodeRow /\ Missed(r).sent = r.sent /\ Missed(r).kind = r.kind
         /\ Missed(r).attempts = r.attempts + 1 /\ Missed(r) # r
         /\ r.used => Missed(r).used
         /\ Missed(r).attempts >= MAX_CODE_ATTEMPTS => Missed(r).used
  <1>1. r.attempts \in Nat /\ r.used \in BOOLEAN /\ r.attempts + 1 \in Nat
    BY DEF CodeRow
  <1>2. /\ Spent(r) \in CodeRow /\ Spent(r).used /\ Spent(r).sent = r.sent
        /\ Spent(r).kind = r.kind /\ Spent(r).attempts = r.attempts
    BY DEF Spent, CodeRow
  <1>3. r.used => Spent(r) = r
    BY DEF Spent, CodeRow
  <1>4. Spent(Spent(r)) = Spent(r)
    BY DEF Spent, CodeRow
  <1>5. CASE r.attempts + 1 >= MAX_CODE_ATTEMPTS
    <2>1. Missed(r) = [r EXCEPT !.attempts = @ + 1, !.used = TRUE]
      BY <1>5 DEF Missed
    <2>2. /\ Missed(r) \in CodeRow /\ Missed(r).sent = r.sent /\ Missed(r).kind = r.kind
          /\ Missed(r).attempts = r.attempts + 1 /\ Missed(r).used
      BY <1>1, <2>1 DEF CodeRow
    <2> QED BY <1>1, <1>2, <1>3, <1>4, <2>2
  <1>6. CASE ~(r.attempts + 1 >= MAX_CODE_ATTEMPTS)
    <2>1. Missed(r) = [r EXCEPT !.attempts = @ + 1, !.used = @]
      BY <1>6 DEF Missed
    <2>2. /\ Missed(r) \in CodeRow /\ Missed(r).sent = r.sent /\ Missed(r).kind = r.kind
          /\ Missed(r).attempts = r.attempts + 1 /\ Missed(r).used = r.used
      BY <1>1, <2>1 DEF CodeRow
    <2> QED BY <1>1, <1>2, <1>3, <1>4, <1>6, <2>2
  <1> QED BY <1>5, <1>6

LEMMA NewRowsTyped ==
  /\ Unsent \in CodeRow /\ ~Unsent.sent /\ ~Unsent.used /\ Unsent.attempts = 0
  /\ \A kind \in Kind : /\ Sent(kind) \in CodeRow /\ Sent(kind).sent /\ Sent(kind).kind = kind
                        /\ ~Sent(kind).used /\ Sent(kind).attempts = 0
  BY DEF Unsent, Sent, CodeRow, Kind

LEMMA IdleTyped ==
  /\ Idle \in Request /\ Idle.step = "idle" /\ Idle.todo = {} /\ Idle.good = {} /\ ~Idle.spent
  BY DEF Idle, Request, Steps, Kind

-----------------------------------------------------------------------------
\* A step that leaves v's request and its rows alone, and only adds to what is
\* committed.
Unmoved(v) ==
  /\ req'[v] = req[v]
  /\ \A c \in Code : /\ lock'[c] = v <=> lock[c] = v
                     /\ lock[c] = v => table'[c] = table[c] /\ committed'[c] = committed[c]

Grown ==
  \A c \in Code : committed[c].sent =>
    /\ committed'[c].sent /\ committed'[c].kind = committed[c].kind
    /\ committed[c].used => committed'[c].used

\* What v sends is still unknown; what has become known knows of it.
StillBeside(v) ==
  req[v].step \in Sends =>
    /\ ~committed'[req[v].code].sent
    /\ \A c \in Code : /\ committed'[c].sent /\ ~committed[c].sent => Beside(c, req[v].code)'
                       /\ committed[c].sent /\ Beside(c, req[v].code) => Beside(c, req[v].code)'

LEMMA UnmovedAsked ==
  ASSUME Types, NEW v \in Worker, Asked(v), Unmoved(v), Grown, StillBeside(v)
  PROVE  Asked(v)'
  <1>1. req[v] \in Request /\ req[v].todo \subseteq Code /\ req[v].good \subseteq Code
    BY DEF Types, Request
  <1>2. req'[v] = req[v]
    BY DEF Unmoved
  <1>3. \A c \in Code : IsOf(c, req[v].kind) => IsOf(c, req[v].kind)'
    BY <1>2 DEF Grown, IsOf
  <1>4. ASSUME NEW c \in Code, committed[c].sent, SpentBy(v, c) PROVE SpentBy(v, c)'
    <2>1. CASE c \in req[v].todo
      BY <1>2, <2>1 DEF SpentBy
    <2>2. CASE View(v)[c].used
      BY <1>4, <2>2 DEF View, SpentBy, Unmoved, Grown
    <2> QED BY <1>4, <2>1, <2>2 DEF SpentBy
  <1>5. \A c \in (req[v].todo \cup req[v].good)' : IsOf(c, req[v].kind)'
    BY <1>1, <1>2, <1>3 DEF Asked
  <1>6. req'[v].step = "missed" /\ req'[v].charged # NoCode => lock'[req'[v].charged] = v
    BY <1>1, <1>2 DEF Asked, Unmoved, Request
  <1>7. req'[v].spent => /\ req'[v].code \in Code /\ committed'[req'[v].code].sent
                         /\ committed'[req'[v].code].used
                         /\ req'[v].step \in {"look", "charge", "charging", "missed"}
    BY <1>2 DEF Asked, Grown
  <1>8. req'[v].step \in {"clearing", "done"} /\ req'[v].kind = "reset" =>
          \A c \in req'[v].good : SpentBy(v, c)'
    BY <1>1, <1>2, <1>4 DEF Asked, IsOf
  <1>9. ASSUME req'[v].step \in Sends
        PROVE  /\ req'[v].code \in Code /\ ~committed'[req'[v].code].sent
               /\ \A c \in Code : IsOf(c, req[v].kind)' =>
                    SpentBy(v, c)' \/ Beside(c, req[v].code)'
    <2>1. req[v].step \in Sends /\ req'[v].code \in Code /\ ~committed'[req'[v].code].sent
      BY <1>2, <1>9 DEF Asked, StillBeside
    <2>2. ASSUME NEW c \in Code, IsOf(c, req[v].kind)'
          PROVE  SpentBy(v, c)' \/ Beside(c, req[v].code)'
      <3>1. CASE ~committed[c].sent
        BY <1>2, <2>1, <2>2, <3>1 DEF StillBeside, IsOf
      <3>2. CASE committed[c].sent
        <4>1. IsOf(c, req[v].kind)
          BY <1>2, <2>2, <3>2 DEF Grown, IsOf
        <4>2. SpentBy(v, c) \/ Beside(c, req[v].code)
          BY <2>1, <4>1 DEF Asked
        <4> QED BY <1>4, <2>1, <3>2, <4>2 DEF StillBeside
      <3> QED BY <3>1, <3>2
    <2> QED BY <2>1, <2>2
  <1>10. req'[v].todo # {} <=> req'[v].step \in Working
    BY <1>2 DEF Asked
  <1>11. /\ req'[v].step = "charging" => req'[v].todo = {req'[v].charged}
         /\ req'[v].step \in {"clear", "clearing"} => req'[v].kind = "reset"
    BY <1>2 DEF Asked
  <1> QED BY <1>5, <1>6, <1>7, <1>8, <1>9, <1>10, <1>11 DEF Asked

\* What a request may hold of a row.
Holds(w, c) ==
  \/ /\ req[w].step \in Sends \cup {"take", "clear", "clearing", "done"}
     /\ committed[c].sent /\ table[c] = Spent(committed[c])
  \/ /\ req[w].step = "sent" /\ c = req[w].code
     /\ table[c] = Sent(req[w].kind)
  \/ /\ req[w].step = "missed" /\ c = req[w].charged
     /\ committed[c].sent /\ table[c] = Missed(committed[c])

LEMMA HeldHolds ==
  Held <=> /\ \A c \in Code : lock[c] = Nobody => table[c] = committed[c]
           /\ \A c \in Code : ~committed[c].sent => committed[c] = Unsent
           /\ \A w \in Worker, c \in Code : lock[c] = w => Holds(w, c)
  BY DEF Held, Holds

LEMMA UnmovedHolds ==
  ASSUME NEW v \in Worker, Unmoved(v), \A c \in Code : lock[c] = v => Holds(v, c)
  PROVE  \A c \in Code : lock'[c] = v => Holds(v, c)'
  BY DEF Unmoved, Holds

\* What a request sees of a row that it does not hold is what was committed,
\* and what it sees of another it has only spent or charged, or sent.
LEMMA Seen ==
  ASSUME Types, Held, NEW w \in Worker, Asked(w), NEW c \in Code
  PROVE  /\ View(w)[c] = IF lock[c] = w THEN table[c] ELSE committed[c]
         /\ View(w)[c] \in CodeRow
         /\ committed[c].sent => /\ View(w)[c].sent /\ View(w)[c].kind = committed[c].kind
                                 /\ committed[c].used => View(w)[c].used
  <1>1. View(w)[c] = IF lock[c] = w THEN table[c] ELSE committed[c]
    BY DEF View
  <1>2. committed[c] \in CodeRow /\ table[c] \in CodeRow
    BY DEF Types
  <1>3. lock[c] = w /\ committed[c].sent =>
          table[c] = Spent(committed[c]) \/ table[c] = Missed(committed[c])
    BY DEF Held, Asked, Sends
  <1>4. CASE lock[c] = w /\ committed[c].sent
    <2>1. CASE table[c] = Spent(committed[c])
      BY <1>1, <1>2, <1>4, <2>1, RowsTyped
    <2>2. CASE table[c] = Missed(committed[c])
      BY <1>1, <1>2, <1>4, <2>2, RowsTyped
    <2> QED BY <1>2, <1>3, <1>4, <2>1, <2>2
  <1> QED BY <1>1, <1>2, <1>4

\* One statement's work on one row: the request had it, or nobody.
LEMMA PutRow ==
  ASSUME IInv, NEW w \in Worker, NEW r, NEW step, NEW next,
         req[w].step = step, step \in Working, next \in Steps \ (Working \cup {"idle"}),
         Put(w, r, step, next), r \in CodeRow,
         next \in Sends => step \in Sends
  PROVE  /\ Row(w) \in req[w].todo /\ Row(w) \in Code /\ lock[Row(w)] \in {w, Nobody}
         /\ IsOf(Row(w), req[w].kind)
         /\ table' = [table EXCEPT ![Row(w)] = r]
         /\ lock'[Row(w)] = IF r = table[Row(w)] THEN lock[Row(w)] ELSE w
         /\ \A c \in Code \ {Row(w)} : lock'[c] = lock[c] /\ table'[c] = table[c]
         /\ req'[w].todo = req[w].todo \ {Row(w)}
         /\ req'[w].step = IF req[w].todo = {Row(w)} THEN next ELSE step
         /\ req'[w].kind = req[w].kind /\ req'[w].code = req[w].code
         /\ req'[w].good = req[w].good /\ req'[w].charged = req[w].charged
         /\ req'[w].spent = req[w].spent
         /\ UNCHANGED <<committed, answered, took, beside>>
         /\ \A v \in Worker \ {w} : Unmoved(v) /\ Asked(v)'
         /\ Types' /\ Abreast' /\ OneGoodCode' /\ MissesCounted'
         /\ req'[w] \in Request
  <1> DEFINE c == Row(w)
  <1>1. req[w] \in Request /\ req[w].todo \subseteq Code /\ req[w].todo # {}
    BY DEF IInv, Types, AllAsked, Asked, Request
  <1>2. c \in req[w].todo /\ c \in Code /\ c # NoCode
    BY <1>1, FirstAndLast, CodeTyped DEF Row
  <1>3. lock[c] \in Worker \cup {Nobody}
    BY <1>2 DEF IInv, Types
  <1>4. lock[c] \in {w, Nobody}
    BY <1>2 DEF Put, WaitsFor
  <1> HIDE DEF c
  <1>5. /\ table' = [table EXCEPT ![c] = r]
        /\ lock' = [lock EXCEPT ![c] = IF r = table[c] THEN @ ELSE w]
        /\ req' = [req EXCEPT ![w].todo = req[w].todo \ {c},
                              ![w].step = Through(req[w].todo \ {c}, step, next)]
        /\ UNCHANGED <<committed, expired, answered, took, beside>>
    BY DEF Put, c
  <1>6. /\ lock'[c] = IF r = table[c] THEN lock[c] ELSE w
        /\ \A d \in Code \ {c} : lock'[d] = lock[d] /\ table'[d] = table[d]
        /\ table' \in [Code -> CodeRow] /\ lock' \in [Code -> Worker \cup {Nobody}]
    BY <1>2, <1>4, <1>5 DEF IInv, Types
  <1>7. Through(req[w].todo \ {c}, step, next) = IF req[w].todo = {c} THEN next ELSE step
    BY <1>2 DEF Through
  <1>8. /\ req'[w] = [req[w] EXCEPT !.todo = req[w].todo \ {c},
                                    !.step = IF req[w].todo = {c} THEN next ELSE step]
        /\ \A v \in Worker \ {w} : req'[v] = req[v]
    BY <1>5, <1>7 DEF IInv, Types
  <1>9. req'[w] \in Request
    <2>1. (IF req[w].todo = {c} THEN next ELSE step) \in Steps
      BY DEF Steps
    <2>2. req[w].todo \ {c} \in SUBSET Code
      BY <1>1
    <2> QED BY <1>1, <1>8, <2>1, <2>2 DEF Request
  <1>10. req' \in [Worker -> Request]
    BY <1>5, <1>8, <1>9 DEF IInv, Types
  <1>11. Types'
    BY <1>5, <1>6, <1>10 DEF IInv, Types
  <1>12. IsOf(c, req[w].kind)
    BY <1>2 DEF IInv, AllAsked, Asked
  <1>13. ASSUME NEW v \in Worker \ {w} PROVE Unmoved(v) /\ Asked(v)'
    <2>0. lock'[c] \in {w, Nobody} /\ v \notin {w, Nobody}
      BY <1>4, <1>6, CodeAssumption
    <2>1. Unmoved(v)
      <3>1. req'[v] = req[v] /\ committed' = committed
        BY <1>5, <1>8
      <3>2. \A d \in Code : (lock'[d] = v <=> lock[d] = v) /\ (lock[d] = v => table'[d] = table[d])
        BY <1>4, <1>6, <2>0
      <3> QED BY <3>1, <3>2 DEF Unmoved
    <2>2. Grown
      BY <1>5 DEF Grown
    <2>3. Asked(v)
      BY DEF IInv, AllAsked
    <2>4. StillBeside(v)
      BY <1>5, <1>8, <2>3 DEF StillBeside, Asked, Beside
    <2> QED BY <2>1, <2>2, <2>3, <2>4, UnmovedAsked DEF IInv
  <1>14. req'[w].step \in Sends => req[w].step \in Sends
    BY <1>1, <1>8 DEF Request
  <1>15. req'[w].code = req[w].code
    BY <1>1, <1>8 DEF Request
  <1>16. Abreast'
    <2>1. \A v \in Worker : req'[v].code = req[v].code
                           /\ (req'[v].step \in Sends => req[v].step \in Sends)
      BY <1>8, <1>14, <1>15
    <2>2. beside' = beside
      BY <1>5
    <2> QED BY <2>1, <2>2 DEF IInv, Abreast, Beside
  <1>17. OneGoodCode' /\ MissesCounted'
    BY <1>5 DEF IInv, OneGoodCode, MissesCounted, Unused
  <1>18. /\ req'[w].todo = req[w].todo \ {c}
         /\ req'[w].step = IF req[w].todo = {c} THEN next ELSE step
         /\ req'[w].kind = req[w].kind /\ req'[w].code = req[w].code
         /\ req'[w].good = req[w].good /\ req'[w].charged = req[w].charged
         /\ req'[w].spent = req[w].spent
    BY <1>1, <1>8 DEF Request
  <1> QED BY <1>2, <1>4, <1>5, <1>6, <1>9, <1>11, <1>12, <1>13, <1>16, <1>17, <1>18 DEF c

LEMMA Together ==
  ASSUME IInv, NEW w \in Worker, Types',
         \A v \in Worker \ {w} : Unmoved(v) /\ Asked(v)',
         Asked(w)', \A c \in Code : lock'[c] = w => Holds(w, c)',
         \A c \in Code : lock'[c] = Nobody => table'[c] = committed'[c],
         \A c \in Code : ~committed'[c].sent => committed'[c] = Unsent,
         Abreast', OneGoodCode', MissesCounted'
  PROVE  IInv'
  <1>1. ASSUME NEW v \in Worker, NEW c \in Code, lock'[c] = v PROVE Holds(v, c)'
    <2>1. CASE v = w
      BY <1>1, <2>1
    <2>2. CASE v # w
      <3>1. \A d \in Code : lock[d] = v => Holds(v, d)
        BY HeldHolds DEF IInv
      <3> QED BY <1>1, <2>2, <3>1, UnmovedHolds
    <2> QED BY <2>1, <2>2
  <1>2. Held'
    BY <1>1 DEF Held, Holds
  <1>3. AllAsked'
    BY DEF AllAsked
  <1> QED BY <1>2, <1>3 DEF IInv

\* Retire, Take and Clearing: the row is spent.
LEMMA SpendRow ==
  ASSUME IInv, NEW w \in Worker, NEW step, NEW next,
         req[w].step = step, step \in {"retire", "take", "clearing"},
         Put(w, Spent(table[Row(w)]), step, next),
         next = IF step = "retire" THEN "insert"
                ELSE IF step = "take" /\ req[w].kind = "reset" THEN "clear" ELSE "done"
  PROVE  IInv'
  <1> DEFINE c == Row(w)
             r == Spent(table[c])
             q == req'[w]
  <1>1. req[w] \in Request /\ req[w].todo \subseteq Code /\ req[w].todo # {} /\ Asked(w)
    BY DEF IInv, Types, AllAsked, Asked, Working, Request
  <1>2. c \in Code
    BY <1>1, FirstAndLast DEF Row
  <1>3. committed[c] \in CodeRow /\ table[c] \in CodeRow /\ r \in CodeRow
    BY <1>2, RowsTyped DEF IInv, Types
  <1>4. step \in Working /\ next \in Steps \ (Working \cup {"idle"})
        /\ (next \in Sends => step \in Sends)
    BY DEF Working, Sends, Steps
  <1>a. c = Row(w) /\ q = req'[w] /\ Put(w, r, step, next)
    OBVIOUS
  <1> HIDE DEF c, r, q
  <1>5. /\ c \in req[w].todo /\ c \in Code /\ lock[c] \in {w, Nobody}
        /\ IsOf(c, req[w].kind)
        /\ table' = [table EXCEPT ![c] = r]
        /\ lock'[c] = IF r = table[c] THEN lock[c] ELSE w
        /\ \A d \in Code \ {c} : lock'[d] = lock[d] /\ table'[d] = table[d]
        /\ UNCHANGED <<committed, answered, took, beside>>
        /\ \A v \in Worker \ {w} : Unmoved(v) /\ Asked(v)'
        /\ Types' /\ Abreast' /\ OneGoodCode' /\ MissesCounted'
    BY <1>3, <1>4, <1>a, PutRow
  <1>6. /\ q.todo = req[w].todo \ {c}
        /\ q.step = IF req[w].todo = {c} THEN next ELSE step
        /\ q.kind = req[w].kind /\ q.code = req[w].code /\ q.good = req[w].good
        /\ q.charged = req[w].charged /\ q.spent = req[w].spent
    BY <1>3, <1>4, <1>a, PutRow
  <1>7. q.step \in {step, next} /\ (q.todo # {} <=> q.step = step) /\ (q.todo = {} => q.step = next)
    BY <1>4, <1>5, <1>6
  <1>8. table[c] = committed[c] \/ (lock[c] = w /\ table[c] = Spent(committed[c]))
    BY <1>5 DEF IInv, Held
  <1>9. table'[c] = Spent(committed[c])
    BY <1>2, <1>3, <1>5, <1>8, RowsTyped DEF IInv, Types, r
  <1>10. ASSUME NEW d \in Code, lock'[d] = w PROVE Holds(w, d)'
    <2>1. CASE d = c
      <3>1. q.step \in Sends \cup {"take", "clear", "clearing", "done"}
        BY <1>7, Zenon DEF Sends
      <3> QED BY <1>5, <1>9, <2>1, <3>1 DEF Holds, IsOf, q
    <2>2. CASE d # c
      <3>1. lock[d] = w /\ table'[d] = table[d]
        BY <1>5, <1>10, <2>2
      <3>2. /\ req[w].step \in Sends \cup {"take", "clear", "clearing", "done"}
            /\ committed[d].sent /\ table[d] = Spent(committed[d])
        BY <3>1 DEF IInv, Held
      <3>3. q.step \in Sends \cup {"take", "clear", "clearing", "done"}
        BY <1>7, Zenon DEF Sends
      <3> QED BY <1>5, <3>1, <3>2, <3>3 DEF Holds, q
    <2> QED BY <2>1, <2>2
  <1>11. \A d \in Code : lock'[d] = Nobody => table'[d] = committed'[d]
    <2>1. lock'[c] = Nobody => table'[c] = committed'[c]
      <3>1. CASE r = table[c]
        <4>1. table'[c] = table[c]
          BY <1>2, <1>5, <3>1 DEF IInv, Types
        <4> QED BY <1>2, <1>5, <3>1, <4>1 DEF IInv, Held
      <3>2. CASE r # table[c]
        BY <1>5, <3>2, CodeAssumption
      <3> QED BY <3>1, <3>2
    <2> QED BY <1>5, <2>1 DEF IInv, Held
  <1>12. \A d \in Code : ~committed'[d].sent => committed'[d] = Unsent
    BY <1>5 DEF IInv, Held
  \* What was spent or to be spent still is.
  <1>13. ASSUME NEW d \in Code, SpentBy(w, d) PROVE SpentBy(w, d)'
    <2>1. CASE d = c
      <3>1. View(w)'[c] = IF lock'[c] = w THEN table'[c] ELSE committed'[c]
        BY <1>2 DEF View
      <3>2. Spent(committed[c]).used
        BY <1>3, RowsTyped
      <3>3. CASE lock'[c] = w
        BY <1>9, <2>1, <3>1, <3>2, <3>3 DEF SpentBy
      <3>4. CASE lock'[c] # w
        BY <1>5, <1>9, <1>11, <2>1, <3>1, <3>2, <3>4 DEF SpentBy
      <3> QED BY <3>3, <3>4
    <2>2. CASE d # c
      <3>1. View(w)'[d] = View(w)[d]
        BY <1>5, <2>2 DEF View
      <3> QED BY <1>6, <1>13, <2>2, <3>1 DEF SpentBy, q
    <2> QED BY <2>1, <2>2
  <1>14. Asked(w)'
    <2>1. q.todo # {} <=> q.step \in Working
      BY <1>4, <1>7
    <2>2. \A d \in q.todo \cup q.good : IsOf(d, req[w].kind)'
      BY <1>1, <1>5, <1>6, <1>a DEF Asked, IsOf
    <2>3. q.step # "charging" /\ q.step # "missed"
      BY <1>7
    <2>4. ~q.spent
      BY <1>1, <1>6 DEF Asked
    <2>5. q.step \in {"clear", "clearing"} => q.kind = "reset"
      BY <1>1, <1>6, <1>7 DEF Asked
    <2>6. ASSUME q.step \in {"clearing", "done"}, q.kind = "reset"
          PROVE  \A d \in q.good : SpentBy(w, d)'
      <3>1. step = "clearing"
        BY <1>6, <1>7, <2>6
      <3>2. \A d \in req[w].good : d \in Code /\ SpentBy(w, d)
        BY <1>1, <1>6, <2>6, <3>1 DEF Asked, Request
      <3> QED BY <1>6, <1>13, <3>2
    <2>7. ASSUME q.step \in Sends
          PROVE  /\ q.code \in Code /\ ~committed'[q.code].sent
                 /\ \A d \in Code : IsOf(d, req[w].kind)' => SpentBy(w, d)' \/ Beside(d, req[w].code)'
      <3>1. step = "retire"
        BY <1>7, <2>7 DEF Sends
      <3>2. /\ req[w].code \in Code /\ ~committed[req[w].code].sent
            /\ \A d \in Code : IsOf(d, req[w].kind) => SpentBy(w, d) \/ Beside(d, req[w].code)
        BY <1>1, <3>1 DEF Asked, Sends
      <3> QED BY <1>5, <1>6, <1>13, <1>a, <3>2 DEF Beside, IsOf
    <2> QED BY <2>1, <2>2, <2>3, <2>4, <2>5, <2>6, <2>7 DEF Asked, q
  <1> QED BY <1>5, <1>10, <1>11, <1>12, <1>14, Together

\* Whose steps come before any change holds nothing.
LEMMA HoldsNothing ==
  ASSUME IInv, NEW w \in Worker, req[w].step \in {"idle", "look", "charge", "charging"}
  PROVE  \A c \in Code : lock[c] # w /\ View(w)[c] = committed[c]
  BY DEF IInv, Held, View, Sends

LEMMA ChargingIInv ==
  ASSUME IInv, NEW w \in Worker, Charging(w) PROVE IInv'
  <1> DEFINE c == Row(w)
             r == Missed(table[c])
             q == req'[w]
  <1>1. /\ req[w] \in Request /\ req[w].todo \subseteq Code /\ req[w].todo # {} /\ Asked(w)
        /\ req[w].step = "charging" /\ req[w].todo = {req[w].charged}
    BY DEF IInv, Types, AllAsked, Asked, Working, Request, Charging
  <1>2. c \in Code
    BY <1>1, FirstAndLast DEF Row
  <1>3. committed[c] \in CodeRow /\ table[c] \in CodeRow /\ r \in CodeRow
    BY <1>2, RowsTyped DEF IInv, Types
  <1>4. "charging" \in Working /\ "missed" \in Steps \ (Working \cup {"idle"})
        /\ ("missed" \in Sends => "charging" \in Sends)
    BY DEF Working, Sends, Steps
  <1>a. c = Row(w) /\ q = req'[w] /\ Put(w, r, "charging", "missed")
    BY DEF Charging
  <1> HIDE DEF c, r, q
  <1>5. /\ c \in req[w].todo /\ lock[c] \in {w, Nobody} /\ IsOf(c, req[w].kind)
        /\ table' = [table EXCEPT ![c] = r]
        /\ lock'[c] = IF r = table[c] THEN lock[c] ELSE w
        /\ \A d \in Code \ {c} : lock'[d] = lock[d] /\ table'[d] = table[d]
        /\ UNCHANGED <<committed, answered, took, beside>>
        /\ \A v \in Worker \ {w} : Unmoved(v) /\ Asked(v)'
        /\ Types' /\ Abreast' /\ OneGoodCode' /\ MissesCounted'
    BY <1>1, <1>3, <1>4, <1>a, PutRow
  <1>6. /\ q.todo = req[w].todo \ {c}
        /\ q.step = IF req[w].todo = {c} THEN "missed" ELSE "charging"
        /\ q.kind = req[w].kind /\ q.code = req[w].code /\ q.good = req[w].good
        /\ q.charged = req[w].charged /\ q.spent = req[w].spent
    BY <1>1, <1>3, <1>4, <1>a, PutRow
  <1>7. c = q.charged /\ q.todo = {} /\ q.step = "missed"
    BY <1>1, <1>5, <1>6
  <1>8. lock[c] = Nobody /\ table[c] = committed[c]
    BY <1>1, <1>2, <1>5, HoldsNothing DEF IInv, Held
  <1>9. r = Missed(committed[c]) /\ r # table[c] /\ lock'[c] = w /\ table'[c] = r
    BY <1>2, <1>3, <1>5, <1>8, RowsTyped DEF IInv, Types, r
  <1>10. ASSUME NEW d \in Code, lock'[d] = w PROVE Holds(w, d)'
    <2>1. d = c
      BY <1>1, <1>5, <1>10, HoldsNothing
    <2>2. committed'[d].sent /\ table'[d] = Missed(committed'[d])
      BY <1>5, <1>9, <2>1 DEF IsOf
    <2> QED BY <1>7, <1>a, <2>1, <2>2 DEF Holds
  <1>11. \A d \in Code : lock'[d] = Nobody => table'[d] = committed'[d]
    BY <1>5, <1>9, CodeAssumption DEF IInv, Held
  <1>12. \A d \in Code : ~committed'[d].sent => committed'[d] = Unsent
    BY <1>5 DEF IInv, Held
  <1>13. Asked(w)'
    <2>1. \A d \in q.todo \cup q.good : IsOf(d, req[w].kind)'
      BY <1>1, <1>5, <1>6, <1>a DEF Asked, IsOf
    <2>2. q.spent => /\ q.code \in Code /\ committed'[q.code].sent /\ committed'[q.code].used
      BY <1>1, <1>5, <1>6 DEF Asked
    <2>3. q.todo = {} /\ q.step = "missed" /\ q.step \notin Working /\ q.step \notin Sends
      BY <1>7 DEF Working, Sends
    <2>4. lock'[q.charged] = w
      BY <1>7, <1>9
    <2> QED BY <1>a, <2>1, <2>2, <2>3, <2>4 DEF Asked
  <1> QED BY <1>5, <1>10, <1>11, <1>12, <1>13, Together

\* A step that changes the request alone: its checks, and the subqueries.
LEMMA RequestOnly ==
  ASSUME IInv, NEW w \in Worker, UNCHANGED <<committed, table, lock, answered, beside, expired>>,
         NEW q \in Request, req' = [req EXCEPT ![w] = q], q.step \notin Sends,
         \A c \in Code : lock[c] = w => Holds(w, c)', Asked(w)'
  PROVE  IInv'
  <1>1. req'[w] = q /\ \A v \in Worker \ {w} : req'[v] = req[v]
    BY DEF IInv, Types
  <1>2. Types'
    BY <1>1 DEF IInv, Types
  <1>3. ASSUME NEW v \in Worker \ {w} PROVE Unmoved(v) /\ Asked(v)'
    <2>1. Unmoved(v) /\ Grown /\ Asked(v)
      BY <1>1 DEF Unmoved, Grown, IInv, AllAsked
    <2>2. StillBeside(v)
      BY <1>1, <2>1 DEF StillBeside, Asked, Beside
    <2> QED BY <2>1, <2>2, UnmovedAsked DEF IInv
  <1>4. Abreast' /\ OneGoodCode' /\ MissesCounted'
    <2>1. Abreast'
      BY <1>1 DEF IInv, Abreast, Beside
    <2> QED BY <2>1 DEF IInv, OneGoodCode, MissesCounted, Unused
  <1> QED BY <1>2, <1>3, <1>4, Together DEF IInv, Held

LEMMA EnterIInv ==
  ASSUME IInv, NEW w \in Worker, NEW kind \in Kind, NEW code \in Code \cup {NoCode},
         Enter(w, kind, code)
  PROVE  IInv'
  <1> DEFINE late == expired \cap Unused(committed, kind)
             spent == code # NoCode /\ committed[code].used
             q == [Idle EXCEPT !.step = "look", !.kind = kind, !.code = code,
                     !.good = Unused(committed, kind), !.late = late, !.spent = spent]
  <1>1. /\ req[w].step = "idle" /\ req' = [req EXCEPT ![w] = q]
        /\ UNCHANGED <<committed, table, lock, answered, beside, expired>>
        /\ code # NoCode => committed[code].sent
    BY DEF Enter
  <1>2. spent \in BOOLEAN /\ late \in SUBSET Code /\ Unused(committed, kind) \in SUBSET Code
        /\ \A c \in Unused(committed, kind) : IsOf(c, kind)
    BY DEF Unused, IsOf
  <1>3. spent => code \in Code /\ committed[code].sent /\ committed[code].used
    BY <1>1
  <1> HIDE DEF late, spent
  <1>4. /\ q.step = "look" /\ q.kind = kind /\ q.code = code /\ q.todo = {}
        /\ q.good = Unused(committed, kind) /\ q.spent = spent
        /\ q.late = late /\ q.charged = NoCode
    BY DEF Idle
  <1>5. q \in Request
    <2>1. Idle \in Request /\ "look" \in Steps
      BY IdleTyped DEF Steps
    <2> QED BY <1>2, <2>1 DEF Request
  <1> HIDE DEF q
  <1>6. req'[w] = q
    BY <1>1 DEF IInv, Types
  <1>7. Asked(w)'
    <2>1. \A c \in q.todo \cup q.good : IsOf(c, req[w].kind)'
      BY <1>1, <1>2, <1>4, <1>6 DEF IsOf
    <2>2. q.step \notin Working /\ q.step \notin Sends
      BY <1>4 DEF Working, Sends
    <2>3. q.spent => q.code \in Code /\ committed'[q.code].sent /\ committed'[q.code].used
      BY <1>1, <1>3, <1>4
    <2> QED BY <1>4, <1>6, <2>1, <2>2, <2>3 DEF Asked
  <1>8. \A c \in Code : lock[c] # w
    BY <1>1, HoldsNothing
  <1> QED BY <1>1, <1>4, <1>5, <1>7, <1>8, RequestOnly DEF Sends

\* A request that has looked for rows goes through those it found.
Gone(w, todo, charged, step, next) ==
  [req[w] EXCEPT !.todo = todo, !.charged = charged, !.step = Through(todo, step, next)]

LEMMA GoesThrough ==
  ASSUME IInv, NEW w \in Worker, NEW todo \in SUBSET Code, NEW step \in Working, NEW next \in Steps,
         NEW charged \in Code \cup {NoCode}, NEW q, q = Gone(w, todo, charged, step, next)
  PROVE  /\ q \in Request /\ q.todo = todo /\ q.charged = charged
         /\ q.step = IF todo = {} THEN next ELSE step
         /\ q.kind = req[w].kind /\ q.code = req[w].code /\ q.good = req[w].good
         /\ q.spent = req[w].spent
  <1>1. req[w] \in Request
    BY DEF IInv, Types
  <1>2. Through(todo, step, next) = IF todo = {} THEN next ELSE step
    BY DEF Through
  <1>3. Through(todo, step, next) \in Steps
    BY <1>2 DEF Steps
  <1>4. q \in Request
    BY <1>1, <1>3 DEF Request, Gone
  <1> QED BY <1>1, <1>2, <1>4 DEF Request, Gone

LEMMA LookIInv ==
  ASSUME IInv, NEW w \in Worker, Look(w) PROVE IInv'
  <1> DEFINE todo == {Matching(w)} \ {NoCode}
             q == [req[w] EXCEPT !.todo = todo, !.step = Through(todo, "take", "charge")]
  <1>1. /\ req[w].step = "look" /\ req' = [req EXCEPT ![w] = q]
        /\ UNCHANGED <<committed, table, lock, answered, beside, expired>>
        /\ req[w] \in Request /\ Asked(w)
    BY DEF Look, IInv, Types, AllAsked
  <1>2. \A c \in Code : lock[c] # w /\ View(w)[c] = committed[c]
    BY <1>1, HoldsNothing
  <1>3. todo \in SUBSET Code /\ \A c \in todo : IsOf(c, req[w].kind) /\ c = req[w].code
                                              /\ ~committed[c].used
    <2> DEFINE S == Active(w) \cap {req[w].code}
    <2>1. S \subseteq Code /\ \A c \in S : IsOf(c, req[w].kind) /\ c = req[w].code
                                         /\ ~committed[c].used
      BY <1>2 DEF Active, Unused, IsOf
    <2> HIDE DEF S
    <2>2. Newest(S) \in S \cup {NoCode}
      BY <2>1, NewestTyped
    <2>3. Matching(w) = Newest(S)
      BY DEF Matching, S
    <2> QED BY <2>1, <2>2, <2>3
  <1> HIDE DEF todo
  <1>4. q = Gone(w, todo, req[w].charged, "take", "charge")
    BY <1>1 DEF Request, Gone
  <1>5. /\ q \in Request /\ q.todo = todo /\ q.step = IF todo = {} THEN "charge" ELSE "take"
        /\ q.kind = req[w].kind /\ q.code = req[w].code /\ q.good = req[w].good
        /\ q.spent = req[w].spent
    <2>1. req[w].charged \in Code \cup {NoCode} /\ "take" \in Working /\ "charge" \in Steps
      BY <1>1 DEF Request, Working, Steps
    <2> HIDE DEF q
    <2> QED BY <1>3, <1>4, <2>1, GoesThrough
  <1> HIDE DEF q
  <1>6. req'[w] = q
    BY <1>1 DEF IInv, Types
  <1>7. q.spent => q.step = "charge"
    BY <1>1, <1>3, <1>5 DEF Asked
  <1>8. Asked(w)'
    <2>1. \A c \in q.todo \cup q.good : IsOf(c, req[w].kind)'
      BY <1>1, <1>3, <1>5, <1>6 DEF IsOf, Asked
    <2>2. /\ q.todo # {} <=> q.step \in Working
          /\ q.step \notin Sends /\ q.step \in {"take", "charge"}
      BY <1>5 DEF Working, Sends
    <2>3. q.spent => q.code \in Code /\ committed'[q.code].sent /\ committed'[q.code].used
      BY <1>1, <1>5 DEF Asked
    <2> QED BY <1>6, <1>7, <2>1, <2>2, <2>3 DEF Asked
  <1> QED BY <1>1, <1>2, <1>5, <1>8, RequestOnly DEF Sends

LEMMA ChargeIInv ==
  ASSUME IInv, NEW w \in Worker, Charge(w) PROVE IInv'
  <1> DEFINE c == Newest(Active(w))
             todo == {c} \ {NoCode}
             q == [req[w] EXCEPT !.todo = todo, !.charged = c,
                                 !.step = Through(todo, "charging", "missed")]
  <1>1. /\ req[w].step = "charge" /\ req' = [req EXCEPT ![w] = q]
        /\ UNCHANGED <<committed, table, lock, answered, beside, expired>>
        /\ req[w] \in Request /\ Asked(w)
    BY DEF Charge, IInv, Types, AllAsked
  <1>2. \A d \in Code : lock[d] # w /\ View(w)[d] = committed[d]
    BY <1>1, HoldsNothing
  <1>3. Active(w) \subseteq Code /\ \A d \in Active(w) : IsOf(d, req[w].kind)
    BY <1>2 DEF Active, Unused, IsOf
  <1>4. c \in Active(w) \cup {NoCode}
    BY <1>3, NewestTyped
  <1> HIDE DEF c
  <1>5. /\ todo \in SUBSET Code /\ c \in Code \cup {NoCode} /\ (c # NoCode => todo = {c})
        /\ (todo # {} <=> c # NoCode) /\ \A d \in todo : IsOf(d, req[w].kind)
    BY <1>3, <1>4
  <1> HIDE DEF todo
  <1>6. /\ q \in Request /\ q.todo = todo /\ q.charged = c
        /\ q.step = IF todo = {} THEN "missed" ELSE "charging"
        /\ q.kind = req[w].kind /\ q.code = req[w].code /\ q.good = req[w].good
        /\ q.spent = req[w].spent
    <2>1. "charging" \in Working /\ "missed" \in Steps
      BY DEF Working, Steps
    <2>2. q = Gone(w, todo, c, "charging", "missed")
      BY DEF Gone
    <2> HIDE DEF q
    <2> QED BY <1>5, <2>1, <2>2, GoesThrough
  <1> HIDE DEF q
  <1>7. req'[w] = q
    BY <1>1 DEF IInv, Types
  <1>8. Asked(w)'
    <2>1. \A d \in q.todo \cup q.good : IsOf(d, req[w].kind)'
      BY <1>1, <1>5, <1>6, <1>7 DEF IsOf, Asked
    <2>2. /\ q.todo # {} <=> q.step \in Working
          /\ q.step \notin Sends /\ q.step \in {"charging", "missed"}
      BY <1>6 DEF Working, Sends
    <2>3. q.spent => q.code \in Code /\ committed'[q.code].sent /\ committed'[q.code].used
      BY <1>1, <1>6 DEF Asked
    <2>4. /\ q.step = "charging" => q.todo = {q.charged}
          /\ q.step = "missed" => q.charged = NoCode
      BY <1>5, <1>6
    <2> QED BY <1>7, <2>1, <2>2, <2>3, <2>4 DEF Asked
  <1> QED BY <1>1, <1>2, <1>6, <1>8, RequestOnly DEF Sends

LEMMA ClearIInv ==
  ASSUME IInv, NEW w \in Worker, Clear(w) PROVE IInv'
  <1> DEFINE todo == Unused(View(w), "reset")
             q == [req[w] EXCEPT !.todo = todo, !.step = Through(todo, "clearing", "done")]
  <1>1. /\ req[w].step = "clear" /\ req' = [req EXCEPT ![w] = q]
        /\ UNCHANGED <<committed, table, lock, answered, beside, expired>>
        /\ req[w] \in Request /\ Asked(w)
    BY DEF Clear, IInv, Types, AllAsked
  <1>2. req[w].kind = "reset" /\ ~req[w].spent
    BY <1>1 DEF Asked
  <1>3. todo \in SUBSET Code /\ \A c \in todo : IsOf(c, "reset")
    <2>1. \A c \in todo : c \in Code /\ View(w)[c].sent /\ View(w)[c].kind = "reset"
      BY DEF Unused
    <2>2. \A c \in Code : View(w)[c].sent => committed[c].sent
      BY <1>1 DEF View, IInv, Held
    <2>3. \A c \in Code : committed[c].sent => View(w)[c].kind = committed[c].kind
      BY <1>1, Seen DEF IInv
    <2> QED BY <2>1, <2>2, <2>3 DEF IsOf
  <1>4. \A c \in Code : IsOf(c, "reset") => View(w)[c].used \/ c \in todo
    <2>1. \A c \in Code : IsOf(c, "reset") => View(w)[c].sent /\ View(w)[c].kind = "reset"
      BY <1>1, Seen DEF IInv, IsOf
    <2> QED BY <2>1 DEF Unused
  <1> HIDE DEF todo
  <1>5. q = Gone(w, todo, req[w].charged, "clearing", "done")
    BY <1>1 DEF Request, Gone
  <1>6. /\ q \in Request /\ q.todo = todo /\ q.step = IF todo = {} THEN "done" ELSE "clearing"
        /\ q.kind = req[w].kind /\ q.code = req[w].code /\ q.good = req[w].good
        /\ q.spent = req[w].spent
    <2>1. req[w].charged \in Code \cup {NoCode} /\ "clearing" \in Working /\ "done" \in Steps
      BY <1>1 DEF Request, Working, Steps
    <2> HIDE DEF q
    <2> QED BY <1>3, <1>5, <2>1, GoesThrough
  <1> HIDE DEF q
  <1>7. req'[w] = q
    BY <1>1 DEF IInv, Types
  <1>8. Asked(w)'
    <2>1. \A c \in q.todo \cup q.good : IsOf(c, req[w].kind)'
      BY <1>1, <1>2, <1>3, <1>6, <1>7 DEF IsOf, Asked
    <2>2. /\ q.todo # {} <=> q.step \in Working
          /\ q.step \notin Sends /\ q.step \in {"clearing", "done"}
      BY <1>6 DEF Working, Sends
    <2>3. \A c \in q.good : SpentBy(w, c)'
      <3>1. \A c \in q.good : c \in Code /\ IsOf(c, "reset")
        BY <1>1, <1>2, <1>6 DEF Asked, Request
      <3>2. View(w)' = View(w)
        BY <1>1 DEF View
      <3> QED BY <1>4, <1>6, <1>7, <3>1, <3>2 DEF SpentBy
    <2> QED BY <1>2, <1>6, <1>7, <2>1, <2>2, <2>3 DEF Asked
  <1>9. \A c \in Code : lock[c] = w => Holds(w, c)'
    <2>1. \A c \in Code : lock[c] = w => committed[c].sent /\ table[c] = Spent(committed[c])
      BY <1>1 DEF IInv, Held
    <2> QED BY <1>1, <1>6, <1>7, <2>1 DEF Holds
  <1> QED BY <1>1, <1>6, <1>8, <1>9, RequestOnly DEF Sends

\* A row that a request holds is of a code that is sent, if only by itself.
LEMMA HeldIsSent ==
  ASSUME IInv, NEW c \in Code
  PROVE  /\ lock[c] # Nobody => table[c].sent
         /\ committed[c].sent => table[c].sent
  <1>1. committed[c] \in CodeRow /\ lock[c] \in Worker \cup {Nobody}
    BY DEF IInv, Types
  <1>2. ASSUME NEW w \in Worker, lock[c] = w PROVE table[c].sent
    <2>1. req[w].kind \in Kind
      BY DEF IInv, Types, Request
    <2>2. Holds(w, c)
      BY <1>2, HeldHolds DEF IInv
    <2> QED BY <1>1, <2>1, <2>2, RowsTyped, NewRowsTyped DEF Holds
  <1> QED BY <1>1, <1>2 DEF IInv, Held

LEMMA AskIInv ==
  ASSUME IInv, NEW w \in Worker, NEW kind \in Kind, AskForCode(w, kind) PROVE IInv'
  <1> DEFINE c == Min(Code \ Begun)
             others == {req[v].code : v \in Sending}
             todo == Unused(committed, kind)
             q == [Idle EXCEPT !.step = Through(todo, "retire", "insert"),
                               !.kind = kind, !.code = c, !.todo = todo]
  <1>1. /\ req[w].step = "idle" /\ req' = [req EXCEPT ![w] = q]
        /\ beside' = [d \in Code |-> IF d = c THEN others
                                     ELSE IF d \in others THEN beside[d] \cup {c} ELSE beside[d]]
        /\ UNCHANGED <<committed, table, lock, expired, answered, took>>
        /\ Code \ Begun # {}
    BY DEF AskForCode
  <1>2. c \in Code /\ ~table[c].sent /\ \A v \in Sending : req[v].code # c
    <2>1. c \in Code \ Begun
      BY <1>1, FirstAndLast
    <2> QED BY <2>1 DEF Begun
  <1>3. ~committed[c].sent
    BY <1>2, HeldIsSent
  <1>4. others \subseteq Code /\ \A v \in Worker : req[v].step \in Sends <=> v \in Sending
    BY DEF IInv, AllAsked, Asked, Sending, Sends
  <1>5. todo \in SUBSET Code /\ \A d \in Code : IsOf(d, kind) => committed[d].used \/ d \in todo
    BY DEF Unused, IsOf
  <1>6. \A d \in todo : IsOf(d, kind)
    BY DEF Unused, IsOf
  <1> HIDE DEF c, todo
  <1>7. Through(todo, "retire", "insert") = IF todo = {} THEN "insert" ELSE "retire"
    BY DEF Through
  <1>8. /\ q.step = (IF todo = {} THEN "insert" ELSE "retire") /\ q.kind = kind /\ q.code = c
        /\ q.todo = todo /\ q.good = {} /\ ~q.spent
    BY <1>7, IdleTyped DEF Request
  <1>9. q \in Request
    <2>1. Idle \in Request /\ Through(todo, "retire", "insert") \in Steps
      BY <1>7, IdleTyped DEF Steps, Sends
    <2> QED BY <1>2, <1>5, <2>1 DEF Request
  <1> HIDE DEF q
  <1>10. req'[w] = q /\ (\A v \in Worker \ {w} : req'[v] = req[v]) /\ req' \in [Worker -> Request]
    BY <1>1, <1>9 DEF IInv, Types
  <1>11. /\ beside' \in [Code -> SUBSET Code] /\ beside'[c] = others
         /\ \A d \in Code \ {c} : beside[d] \subseteq beside'[d]
         /\ \A d \in others : d # c /\ c \in beside'[d]
    <2>1. \A d \in others : d # c
      BY <1>2
    <2> HIDE DEF others
    <2> QED BY <1>1, <1>2, <1>4, <2>1 DEF IInv, Types
  <1>12. Types'
    BY <1>1, <1>10, <1>11 DEF IInv, Types
  <1>13. ASSUME NEW d \in Code \ {c}, NEW e \in Code \ {c}, Beside(d, e)
         PROVE  d \in beside'[e] /\ e \in beside'[d]
    BY <1>11, <1>13 DEF Beside
  <1>14. ASSUME NEW v \in Worker \ {w} PROVE Unmoved(v) /\ Asked(v)'
    <2>1. Unmoved(v) /\ Grown /\ Asked(v)
      BY <1>1, <1>10 DEF Unmoved, Grown, IInv, AllAsked
    <2>2. ASSUME req[v].step \in Sends
          PROVE  /\ ~committed'[req[v].code].sent
                 /\ \A d \in Code : committed[d].sent /\ Beside(d, req[v].code)
                      => d \in beside'[req[v].code] /\ req[v].code \in beside'[d]
      <3>1. req[v].code \in Code \ {c} /\ ~committed[req[v].code].sent
        BY <1>2, <1>4, <2>1, <2>2 DEF Asked
      <3> QED BY <1>1, <1>3, <1>13, <3>1
    <2>3. StillBeside(v)
      BY <1>1, <1>10, <2>2 DEF StillBeside, Beside
    <2> QED BY <2>1, <2>3, UnmovedAsked DEF IInv
  <1>15. \A d \in Code : lock[d] # w /\ View(w)[d] = committed[d]
    BY <1>1, HoldsNothing
  <1>16. Asked(w)'
    <2>1. /\ q.todo # {} <=> q.step \in Working
          /\ q.step \in Sends /\ q.step \notin {"charging", "missed", "clear", "clearing", "done"}
      BY <1>8 DEF Working, Sends
    <2>2. \A d \in q.todo \cup q.good : IsOf(d, req[w].kind)'
      BY <1>1, <1>6, <1>8, <1>10 DEF IsOf
    <2>3. q.code \in Code /\ ~committed'[q.code].sent
      BY <1>1, <1>2, <1>3, <1>8
    <2>4. \A d \in Code : IsOf(d, req[w].kind)' => SpentBy(w, d)'
      <3>1. View(w)' = View(w)
        BY <1>1 DEF View
      <3>2. \A d \in Code : committed[d].used \/ d \in todo => SpentBy(w, d)'
        BY <1>8, <1>10, <1>15, <3>1 DEF SpentBy
      <3> QED BY <1>1, <1>5, <1>8, <1>10, <3>2 DEF IsOf
    <2> QED BY <1>8, <1>10, <2>1, <2>2, <2>3, <2>4 DEF Asked
  <1>17. Abreast'
    <2> SUFFICES ASSUME NEW u \in Worker, NEW v \in Worker, u # v,
                        req'[u].step \in Sends, req'[v].step \in Sends
                 PROVE  /\ req'[u].code # req'[v].code
                        /\ req'[u].code \in beside'[req'[v].code]
                        /\ req'[v].code \in beside'[req'[u].code]
      BY DEF Abreast, Beside
    <2>1. \A x \in Worker \ {w} : req'[x].step \in Sends => req'[x].code \in others \ {c}
      BY <1>2, <1>4, <1>10
    <2>2. req'[w].code = c
      BY <1>8, <1>10
    <2>3. CASE u = w
      BY <1>11, <2>1, <2>2, <2>3
    <2>4. CASE v = w
      BY <1>11, <2>1, <2>2, <2>4
    <2>5. CASE u # w /\ v # w
      <3>1. req'[u].code = req[u].code /\ req'[v].code = req[v].code
        BY <1>10, <2>5
      <3>2. req[u].code # req[v].code /\ Beside(req[u].code, req[v].code)
        BY <1>10, <2>5 DEF IInv, Abreast
      <3>3. req[u].code \in Code \ {c} /\ req[v].code \in Code \ {c}
        BY <1>4, <2>1, <2>5, <3>1
      <3> QED BY <1>13, <3>1, <3>2, <3>3
    <2> QED BY <2>3, <2>4, <2>5
  <1>18. OneGoodCode'
    <2>1. ASSUME NEW k \in Kind, NEW d \in Unused(committed, k), NEW e \in Unused(committed, k), d # e
          PROVE  d \in beside'[e]
      <3>1. d \in beside[e] /\ e \in Code \ {c}
        BY <1>3, <2>1 DEF IInv, OneGoodCode, Unused
      <3> QED BY <1>11, <3>1
    <2> QED BY <1>1, <2>1 DEF OneGoodCode, Unused
  <1>19. MissesCounted'
    BY <1>1 DEF IInv, MissesCounted
  <1>20. \A d \in Code : lock'[d] # w
    BY <1>1, <1>15
  <1> QED BY <1>1, <1>12, <1>14, <1>16, <1>17, <1>18, <1>19, <1>20, Together DEF IInv, Held

LEMMA InsertIInv ==
  ASSUME IInv, NEW w \in Worker, Insert(w) PROVE IInv'
  <1> DEFINE c == req[w].code
             q == [req[w] EXCEPT !.step = "sent"]
  <1>1. /\ req[w].step = "insert" /\ req' = [req EXCEPT ![w] = q]
        /\ table' = [table EXCEPT ![c] = Sent(req[w].kind)]
        /\ lock' = [lock EXCEPT ![c] = w]
        /\ UNCHANGED <<committed, expired, answered, took, beside>>
        /\ req[w] \in Request /\ Asked(w)
    BY DEF Insert, Sent, IInv, Types, AllAsked
  <1>2. c \in Code /\ ~committed[c].sent
    BY <1>1 DEF Asked, Sends
  <1>3. lock[c] = Nobody
    <2> SUFFICES ASSUME NEW v \in Worker, lock[c] = v PROVE FALSE
      BY <1>2 DEF IInv, Types
    <2>1. req[v].step = "sent" /\ c = req[v].code
      BY <1>2 DEF IInv, Held
    <2>2. v # w
      BY <1>1, <2>1
    <2> QED BY <1>1, <2>1, <2>2 DEF IInv, Abreast, Sends
  <1>4. /\ q \in Request /\ q.step = "sent" /\ q.kind = req[w].kind /\ q.code = c
        /\ q.todo = req[w].todo /\ q.good = req[w].good /\ q.spent = req[w].spent
    BY <1>1 DEF Request, Steps, Sends
  <1> HIDE DEF c, q
  <1>5. req'[w] = q /\ (\A v \in Worker \ {w} : req'[v] = req[v]) /\ req' \in [Worker -> Request]
    BY <1>1, <1>4 DEF IInv, Types
  <1>6. Sent(req[w].kind) \in CodeRow
    BY <1>1, NewRowsTyped DEF Request
  <1>7. /\ table' \in [Code -> CodeRow] /\ table'[c] = Sent(req[w].kind)
        /\ lock' \in [Code -> Worker \cup {Nobody}] /\ lock'[c] = w
        /\ \A d \in Code \ {c} : lock'[d] = lock[d] /\ table'[d] = table[d]
    BY <1>1, <1>2, <1>6 DEF IInv, Types
  <1>8. Types'
    BY <1>1, <1>5, <1>7 DEF IInv, Types
  <1>9. ASSUME NEW v \in Worker \ {w} PROVE Unmoved(v) /\ Asked(v)'
    <2>1. Unmoved(v)
      BY <1>1, <1>3, <1>5, <1>7, CodeAssumption DEF Unmoved
    <2>2. Grown /\ Asked(v)
      BY <1>1 DEF Grown, IInv, AllAsked
    <2>3. StillBeside(v)
      BY <1>1, <1>5, <2>2 DEF StillBeside, Asked, Beside
    <2> QED BY <2>1, <2>2, <2>3, UnmovedAsked DEF IInv
  <1>10. ASSUME NEW d \in Code, lock'[d] = w PROVE Holds(w, d)'
    <2>1. CASE d = c
      BY <1>4, <1>5, <1>7, <2>1 DEF Holds
    <2>2. CASE d # c
      <3>1. lock[d] = w /\ table'[d] = table[d]
        BY <1>7, <1>10, <2>2
      <3>2. committed[d].sent /\ table[d] = Spent(committed[d])
        BY <1>1, <3>1 DEF IInv, Held
      <3> QED BY <1>1, <1>4, <1>5, <3>1, <3>2 DEF Holds, Sends
    <2> QED BY <2>1, <2>2
  <1>11. \A d \in Code : lock'[d] = Nobody => table'[d] = committed'[d]
    BY <1>1, <1>7, CodeAssumption DEF IInv, Held
  <1>12. \A d \in Code : ~committed'[d].sent => committed'[d] = Unsent
    BY <1>1 DEF IInv, Held
  <1>13. ASSUME NEW d \in Code, committed[d].sent, SpentBy(w, d) PROVE SpentBy(w, d)'
    <2>1. d # c
      BY <1>2, <1>13
    <2>2. View(w)'[d] = View(w)[d]
      BY <1>1, <1>7, <2>1 DEF View
    <2> QED BY <1>4, <1>5, <1>13, <2>2 DEF SpentBy
  <1>14. Asked(w)'
    <2>1. /\ q.todo # {} <=> q.step \in Working
          /\ q.step \in Sends /\ q.step \notin {"charging", "missed", "clear", "clearing", "done"}
          /\ ~q.spent
      BY <1>1, <1>4 DEF Working, Sends, Asked
    <2>2. \A d \in q.todo \cup q.good : IsOf(d, req[w].kind)'
      BY <1>1, <1>4, <1>5 DEF IsOf, Asked
    <2>3. q.code \in Code /\ ~committed'[q.code].sent
      BY <1>1, <1>2, <1>4
    <2>4. \A d \in Code : IsOf(d, req[w].kind) => SpentBy(w, d) \/ Beside(d, c)
      BY <1>1 DEF Asked, Sends, c
    <2>5. \A d \in Code : IsOf(d, req[w].kind)' => SpentBy(w, d)' \/ Beside(d, req[w].code)'
      BY <1>1, <1>4, <1>5, <1>13, <2>4 DEF IsOf, Beside
    <2> QED BY <1>5, <2>1, <2>2, <2>3, <2>5 DEF Asked
  <1>15. Abreast'
    <2>1. \A v \in Worker : req'[v].code = req[v].code
                           /\ (req'[v].step \in Sends => req[v].step \in Sends)
      BY <1>1, <1>4, <1>5 DEF c, Sends
    <2>2. beside' = beside
      BY <1>1
    <2> QED BY <2>1, <2>2 DEF IInv, Abreast, Beside
  <1>16. OneGoodCode' /\ MissesCounted'
    BY <1>1 DEF IInv, OneGoodCode, MissesCounted, Unused
  <1> QED BY <1>8, <1>9, <1>10, <1>11, <1>12, <1>14, <1>15, <1>16, Together

\* Who holds a row that was not committed is sending it.
LEMMA NewIsSent ==
  ASSUME IInv, NEW w \in Worker, NEW c \in Code, lock[c] = w, ~committed[c].sent
  PROVE  req[w].step = "sent" /\ c = req[w].code /\ table[c] = Sent(req[w].kind)
  BY DEF IInv, Held

\* What a request leaves when it ends.
LEMMA EndTyped ==
  ASSUME IInv, NEW w \in Worker, lock' = Unlocked(w), req' = [req EXCEPT ![w] = Idle]
  PROVE  /\ lock' \in [Code -> Worker \cup {Nobody}]
         /\ \A c \in Code : lock'[c] = IF lock[c] = w THEN Nobody ELSE lock[c]
         /\ req' \in [Worker -> Request] /\ req'[w] = Idle
         /\ \A v \in Worker \ {w} : req'[v] = req[v]
  BY IdleTyped DEF IInv, Types, Unlocked, Mine

LEMMA AnswerIInv ==
  ASSUME IInv, NEW w \in Worker, Answer(w) PROVE IInv'
  <1>1. /\ req[w].step \in {"sent", "done", "missed"}
        /\ committed' = View(w) /\ lock' = Unlocked(w) /\ req' = [req EXCEPT ![w] = Idle]
        /\ answered' = [c \in Code |-> answered[c] +
                          IF req[w].step = "missed" /\ req[w].charged = c THEN 1 ELSE 0]
        /\ UNCHANGED <<table, expired, beside>>
        /\ req[w] \in Request /\ Asked(w)
    BY DEF Answer, Ended, Kept, IInv, Types, AllAsked
  <1>2. /\ lock' \in [Code -> Worker \cup {Nobody}]
        /\ \A c \in Code : lock'[c] = IF lock[c] = w THEN Nobody ELSE lock[c]
        /\ req' \in [Worker -> Request] /\ req'[w] = Idle
        /\ \A v \in Worker \ {w} : req'[v] = req[v]
    BY <1>1, EndTyped
  <1>3. \A c \in Code :
          /\ committed'[c] = IF lock[c] = w THEN table[c] ELSE committed[c]
          /\ committed'[c] \in CodeRow
          /\ committed[c].sent => /\ committed'[c].sent /\ committed'[c].kind = committed[c].kind
                                  /\ committed[c].used => committed'[c].used
    BY <1>1, Seen DEF IInv
  <1>4. Grown
    BY <1>3 DEF Grown
  <1>5. Types'
    <2>1. committed' \in [Code -> CodeRow]
      BY <1>1, <1>3 DEF View
    <2>2. answered' \in [Code -> Nat]
      BY <1>1 DEF IInv, Types
    <2> QED BY <1>1, <1>2, <2>1, <2>2 DEF IInv, Types
  \* Only a sender's own code is new.
  <1>6. ASSUME NEW c \in Code, committed'[c].sent, ~committed[c].sent
        PROVE  /\ req[w].step = "sent" /\ c = req[w].code
               /\ committed'[c] = Sent(req[w].kind)
    <2>1. lock[c] = w /\ committed'[c] = table[c]
      BY <1>3, <1>6
    <2> QED BY <1>6, <2>1, NewIsSent
  <1>7. ASSUME NEW v \in Worker \ {w} PROVE Unmoved(v) /\ Asked(v)'
    <2>1. Unmoved(v)
      BY <1>1, <1>2, <1>3, CodeAssumption DEF Unmoved
    <2>2. Asked(v)
      BY DEF IInv, AllAsked
    <2>3. ASSUME req[v].step \in Sends
          PROVE  /\ ~committed'[req[v].code].sent
                 /\ \A c \in Code : committed'[c].sent /\ ~committed[c].sent => Beside(c, req[v].code)
      <3>1. req[v].code \in Code /\ ~committed[req[v].code].sent
        BY <2>2, <2>3 DEF Asked
      <3>2. req[w].step = "sent" =>
              req[w].code # req[v].code /\ Beside(req[w].code, req[v].code)
        BY <2>3 DEF IInv, Abreast, Sends
      <3> QED BY <1>6, <3>1, <3>2
    <2>4. StillBeside(v)
      BY <1>1, <1>2, <2>3 DEF StillBeside, Beside
    <2> QED BY <1>4, <2>1, <2>2, <2>4, UnmovedAsked DEF IInv
  <1>8. \A c \in Code : lock'[c] # w
    BY <1>2, CodeAssumption
  <1>9. \A c \in Code : lock'[c] = Nobody => table'[c] = committed'[c]
    BY <1>1, <1>2, <1>3 DEF IInv, Held
  <1>10. \A c \in Code : ~committed'[c].sent => committed'[c] = Unsent
    BY <1>3, HeldIsSent, CodeAssumption DEF IInv, Held
  <1>11. Asked(w)'
    <2>1. Idle.step \notin Working \cup Sends /\ Idle.step = "idle"
      BY IdleTyped DEF Working, Sends
    <2> QED BY <1>2, <2>1, IdleTyped DEF Asked
  <1>12. Abreast'
    <2>1. req'[w].step \notin Sends
      BY <1>2, IdleTyped DEF Sends
    <2> QED BY <1>1, <1>2, <2>1 DEF IInv, Abreast, Beside
  <1>13. OneGoodCode'
    <2> SUFFICES ASSUME NEW k \in Kind, NEW c \in Code, NEW d \in Code, c # d,
                        committed'[c].sent, ~committed'[c].used, committed'[c].kind = k,
                        committed'[d].sent, ~committed'[d].used, committed'[d].kind = k
                 PROVE  c \in beside[d]
      BY <1>1 DEF OneGoodCode, Unused
    <2>1. CASE committed[c].sent /\ committed[d].sent
      BY <1>3, <2>1 DEF IInv, OneGoodCode, Unused
    \* The new code's sender has spent the other, or they know of each other.
    <2>2. ASSUME NEW e \in Code, NEW f \in Code, e # f, ~committed[e].sent,
                 committed'[e].sent, committed'[e].kind = k,
                 committed'[f].sent, ~committed'[f].used, committed'[f].kind = k
          PROVE  Beside(f, e)
      <3>1. req[w].step = "sent" /\ e = req[w].code /\ committed'[e] = Sent(req[w].kind)
        BY <1>6, <2>2
      <3>2. req[w].kind = k /\ req[w].todo = {}
        BY <1>1, <2>2, <3>1, NewRowsTyped DEF Request, Asked, Working
      <3>3. committed[f].sent
        BY <1>6, <2>2, <3>1
      <3>4. IsOf(f, req[w].kind) /\ ~View(w)[f].used
        BY <1>1, <1>3, <2>2, <3>2, <3>3 DEF IsOf
      <3>5. SpentBy(w, f) \/ Beside(f, req[w].code)
        BY <1>1, <3>1, <3>4 DEF Asked, Sends
      <3> QED BY <3>1, <3>2, <3>4, <3>5 DEF SpentBy
    <2>3. CASE ~committed[c].sent
      BY <2>2, <2>3 DEF Beside
    <2>4. CASE ~committed[d].sent
      BY <2>2, <2>4 DEF Beside
    <2> QED BY <2>1, <2>3, <2>4
  <1>14. MissesCounted'
    <2> SUFFICES ASSUME NEW c \in Code
                 PROVE  /\ committed'[c].attempts = answered'[c]
                        /\ committed'[c].attempts >= MAX_CODE_ATTEMPTS => committed'[c].used
      BY DEF MissesCounted
    <2>1. /\ committed[c].attempts = answered[c]
          /\ committed[c].attempts >= MAX_CODE_ATTEMPTS => committed[c].used
          /\ committed[c] \in CodeRow /\ answered[c] \in Nat /\ c # NoCode
      BY CodeTyped DEF IInv, Types, MissesCounted
    <2>2. answered'[c] = answered[c] + IF req[w].step = "missed" /\ req[w].charged = c THEN 1 ELSE 0
      BY <1>1
    <2>3. CASE lock[c] # w
      <3>1. ~(req[w].step = "missed" /\ req[w].charged = c)
        BY <1>1, <2>1, <2>3 DEF Asked
      <3>2. answered'[c] = answered[c]
        BY <2>1, <2>2, <3>1
      <3> QED BY <1>3, <2>1, <2>3, <3>2
    <2>4. CASE lock[c] = w /\ ~committed[c].sent
      <3>1. req[w].step = "sent" /\ committed'[c] = Sent(req[w].kind)
        BY <1>3, <2>4, NewIsSent
      <3>2. committed[c].attempts = 0
        BY <2>4, NewRowsTyped DEF IInv, Held
      <3>3. committed'[c].attempts = 0 /\ answered'[c] = 0
        BY <1>1, <2>1, <2>2, <3>1, <3>2, NewRowsTyped DEF Request
      <3> QED BY <3>3, CodeAssumption
    <2>5. CASE lock[c] = w /\ committed[c].sent
      <3>1. committed'[c] = table[c]
        BY <1>3, <2>5
      <3>2. \/ req[w].step # "missed" /\ table[c] = Spent(committed[c])
            \/ req[w].step = "missed" /\ c = req[w].charged /\ table[c] = Missed(committed[c])
        BY <1>1, <2>5 DEF IInv, Held, Asked, Sends
      <3>3. CASE req[w].step # "missed" /\ table[c] = Spent(committed[c])
        BY <2>1, <2>2, <3>1, <3>3, RowsTyped
      <3>4. CASE req[w].step = "missed" /\ c = req[w].charged /\ table[c] = Missed(committed[c])
        <4>1. /\ committed'[c].attempts = committed[c].attempts + 1
              /\ committed'[c].attempts >= MAX_CODE_ATTEMPTS => committed'[c].used
          BY <2>1, <3>1, <3>4, RowsTyped
        <4> QED BY <2>1, <2>2, <3>4, <4>1
      <3> QED BY <3>2, <3>3, <3>4
    <2> QED BY <2>3, <2>4, <2>5
  <1> QED BY <1>5, <1>7, <1>8, <1>9, <1>10, <1>11, <1>12, <1>13, <1>14, Together

LEMMA FailIInv ==
  ASSUME IInv, NEW w \in Worker, Fail(w) PROVE IInv'
  <1>1. /\ table' = [c \in Code |-> IF lock[c] = w THEN committed[c] ELSE table[c]]
        /\ lock' = Unlocked(w) /\ req' = [req EXCEPT ![w] = Idle]
        /\ UNCHANGED <<committed, expired, answered, took, beside>>
    BY DEF Fail, Undone, Mine
  <1>2. /\ lock' \in [Code -> Worker \cup {Nobody}]
        /\ \A c \in Code : lock'[c] = IF lock[c] = w THEN Nobody ELSE lock[c]
        /\ req' \in [Worker -> Request] /\ req'[w] = Idle
        /\ \A v \in Worker \ {w} : req'[v] = req[v]
    BY <1>1, EndTyped
  <1>3. Types'
    BY <1>1, <1>2 DEF IInv, Types
  <1>4. ASSUME NEW v \in Worker \ {w} PROVE Unmoved(v) /\ Asked(v)'
    <2>1. Unmoved(v)
      BY <1>1, <1>2, CodeAssumption DEF Unmoved
    <2>2. Grown /\ Asked(v)
      BY <1>1 DEF Grown, IInv, AllAsked
    <2>3. StillBeside(v)
      BY <1>1, <1>2, <2>2 DEF StillBeside, Asked, Beside
    <2> QED BY <2>1, <2>2, <2>3, UnmovedAsked DEF IInv
  <1>5. \A c \in Code : lock'[c] # w
    BY <1>2, CodeAssumption
  <1>6. \A c \in Code : lock'[c] = Nobody => table'[c] = committed'[c]
    BY <1>1, <1>2 DEF IInv, Held
  <1>7. \A c \in Code : ~committed'[c].sent => committed'[c] = Unsent
    BY <1>1 DEF IInv, Held
  <1>8. Asked(w)'
    <2>1. Idle.step \notin Working \cup Sends /\ Idle.step = "idle"
      BY IdleTyped DEF Working, Sends
    <2> QED BY <1>2, <2>1, IdleTyped DEF Asked
  <1>9. Abreast'
    <2>1. req'[w].step \notin Sends
      BY <1>2, IdleTyped DEF Sends
    <2> QED BY <1>1, <1>2, <2>1 DEF IInv, Abreast, Beside
  <1>10. OneGoodCode' /\ MissesCounted'
    BY <1>1 DEF IInv, OneGoodCode, MissesCounted, Unused
  <1> QED BY <1>3, <1>4, <1>5, <1>6, <1>7, <1>8, <1>9, <1>10, Together

\* Only the clock, or nothing at all.
LEMMA ExpireIInv ==
  ASSUME IInv, UNCHANGED <<committed, table, lock, req, answered, beside>>, expired' \subseteq Code
  PROVE  IInv'
  BY DEF IInv, Types, Held, AllAsked, Asked, IsOf, SpentBy, View, Beside, Abreast, OneGoodCode,
         MissesCounted, Unused

LEMMA InitIInv ==
  ASSUME CodesInit PROVE IInv
  <1>1. Types
    BY NewRowsTyped, IdleTyped DEF CodesInit, Types
  <1>2. Held
    BY NewRowsTyped, CodeAssumption DEF CodesInit, Held
  <1>3. Idle.step \notin Working \cup Sends /\ Idle.step = "idle"
    BY IdleTyped DEF Working, Sends
  <1>4. AllAsked /\ Abreast
    BY <1>3, IdleTyped DEF CodesInit, AllAsked, Asked, Abreast
  <1>5. OneGoodCode /\ MissesCounted
    BY NewRowsTyped, CodeAssumption DEF CodesInit, OneGoodCode, MissesCounted, Unused
  <1> QED BY <1>1, <1>2, <1>4, <1>5 DEF IInv

LEMMA NextIInv ==
  ASSUME IInv, [CodesNext]_codeVars PROVE IInv'
  <1>1. ASSUME NEW w \in Worker, Retire(w) \/ Take(w) \/ Clearing(w) PROVE IInv'
    <2>1. CASE Retire(w)
      BY <2>1, SpendRow DEF Retire
    <2>2. CASE Take(w)
      BY <2>2, SpendRow DEF Take
    <2>3. CASE Clearing(w)
      BY <2>3, SpendRow DEF Clearing
    <2> QED BY <1>1, <2>1, <2>2, <2>3
  <1>2. ASSUME NEW c \in Code, Expire(c) PROVE IInv'
    <2>1. expired' \subseteq Code
      BY <1>2 DEF Expire, IInv, Types
    <2> QED BY <1>2, <2>1, ExpireIInv DEF Expire
  <1>3. ASSUME UNCHANGED codeVars PROVE IInv'
    BY <1>3, ExpireIInv DEF codeVars, IInv, Types
  <1>4. ASSUME CodesNext PROVE IInv'
    BY <1>1, <1>2, <1>4, AskIInv, EnterIInv, InsertIInv, LookIInv, ClearIInv, ChargeIInv,
       ChargingIInv, AnswerIInv, FailIInv DEF CodesNext
  <1> QED BY <1>3, <1>4

-----------------------------------------------------------------------------
\* The inductive invariant of the codes: rows that are held, how far each
\* request is, and what the senders know of each other.
THEOREM Invariance == CodesSpec => []IInv
  BY InitIInv, NextIInv, PTL DEF CodesSpec

\* Two codes of a kind are good at once only if they were sent at once, for
\* any number of codes and of requests that send, type and fail.
THEOREM OneCodeHolds == CodesSpec => []OneGoodCode
  BY Invariance, PTL DEF IInv

\* No miss that was answered is lost, by whichever of the requests under way it
\* was charged, and a code that has counted enough of them is out.
THEOREM MissesHold == CodesSpec => []MissesCounted
  BY Invariance, PTL DEF IInv

\* No request accepts a code that was spent before it began.
THEOREM SpentHolds == CodesSpec => SpentStaysSpent
  <1>1. IInv /\ [CodesNext]_codeVars =>
          [\A w \in Worker : Accepts(w) => ~req[w].spent]_codeVars
    BY DEF IInv, AllAsked, Asked, Accepts
  <1> QED BY <1>1, Invariance, PTL DEF CodesSpec, SpentStaysSpent

\* A password that was changed by a code leaves none of the reset codes good
\* that were there when the request began.
THEOREM ResetHolds == CodesSpec => ResetSpendsAll
  <1>1. ASSUME IInv, NEW w \in Worker, Accepts(w), req[w].kind = "reset", NEW c \in req[w].good
        PROVE  committed'[c].used
    <2>1. Asked(w) /\ req[w].step = "done" /\ committed' = View(w)
      BY <1>1 DEF IInv, AllAsked, Accepts, Answer, Ended, Kept
    <2>2. req[w].todo = {} /\ SpentBy(w, c)
      BY <1>1, <2>1 DEF Asked, Working
    <2> QED BY <2>1, <2>2 DEF SpentBy
  <1>2. IInv /\ [CodesNext]_codeVars =>
          [\A w \in Worker : Accepts(w) /\ req[w].kind = "reset" =>
             \A c \in req[w].good : committed'[c].used]_codeVars
    BY <1>1
  <1> QED BY <1>2, Invariance, PTL DEF CodesSpec, ResetSpendsAll

-----------------------------------------------------------------------------
\* The limiter.  An attempt that waits was timed a Skew ago at most.
Attempts ==
  attempt \in [Thread -> [key : Key, at : Nat] \cup {NoAttempt}]

TimedLately ==
  \A r \in Thread : attempt[r] # NoAttempt =>
    attempt[r].at <= clock /\ clock <= attempt[r].at + Skew

LimiterTypes ==
  /\ clock \in Nat /\ lastSweep \in Int
  /\ Attempts /\ TimedLately
  /\ hits \in [Key -> Seq(Nat)] /\ passed \in [Key -> Seq(Nat)]

\* A sequence that remembers an address: the last attempts that were let
\* through, no more than Limit of them; those before them are out of the window
\* of whoever comes.
Remembers(h, k) ==
  LET forgotten == Len(passed[k]) - Len(h) IN
  /\ forgotten >= 0 /\ Len(h) <= Limit
  /\ \A i \in 1..Len(h) : h[i] = passed[k][forgotten + i]
  /\ \A i \in 1..forgotten : passed[k][i] <= clock + Skew - Window

Remembered == \A k \in Key : Remembers(hits[k], k)

\* Attempts come in the order of their times, but for a Skew.
InOrder ==
  \A k \in Key : \A i \in 1..Len(passed[k]) :
    /\ passed[k][i] <= clock
    /\ \A j \in 1..Len(passed[k]) : i < j => passed[k][i] <= passed[k][j] + Skew

LInv == LimiterTypes /\ Remembered /\ InOrder /\ LimitKept

LEMMA LimiterTyped ==
  /\ Limit \in Nat \ {0} /\ Window \in Nat \ {0} /\ Skew \in Nat /\ MaxWindow \in Nat
  /\ SweepEvery \in Nat /\ Window <= MaxWindow
  BY LimiterAssumption

LEMMA NoAttemptDiffers == NoAttempt \notin [key : Key, at : Nat]
  BY DEF NoAttempt

\* What is recent is the attempts from one that counts on, or none; all that
\* were before do not count.
LEMMA RecentIsTail ==
  ASSUME NEW dq \in Seq(Nat), NEW t \in Int
  PROVE  \E p \in 0..Len(dq) :
           /\ Recent(dq, t) \in Seq(Nat) /\ Len(Recent(dq, t)) = Len(dq) - p
           /\ \A i \in 1..Len(dq) - p : Recent(dq, t)[i] = dq[p + i]
           /\ \A i \in 1..p : dq[i] <= t - Window
           /\ p < Len(dq) => dq[p + 1] > t - Window
  <1> DEFINE counts == {i \in 1..Len(dq) : InWindow(dq[i], t)}
  <1>1. /\ Len(dq) \in Nat /\ counts \subseteq Nat
        /\ \A i \in 1..Len(dq) : dq[i] \in Nat /\ (i \notin counts => dq[i] <= t - Window)
    BY LimiterTyped DEF InWindow
  <1>2. CASE counts = {}
    <2>1. Recent(dq, t) = <<>>
      BY <1>2 DEF Recent
    <2> QED BY <1>1, <1>2, <2>1
  <1>3. CASE counts # {}
    <2>1. PICK m \in counts : \A n \in counts : m <= n
      BY <1>1, <1>3, LeastThere
    <2>2. \A n \in counts : n \in Nat
      BY <1>1
    <2>3. Min(counts) = m
      BY <2>1, <2>2 DEF Min
    <2>4. Recent(dq, t) = SubSeq(dq, m, Len(dq))
      BY <1>3, <2>3 DEF Recent
    <2>5. m \in 1..Len(dq) /\ dq[m] > t - Window
      BY <2>1 DEF InWindow
    <2>6. \A i \in 1..m - 1 : dq[i] <= t - Window
      <3>1. ASSUME NEW i \in 1..m - 1 PROVE dq[i] <= t - Window
        <4>1. i \in 1..Len(dq) /\ i \notin counts
          BY <1>1, <2>1, <2>5
        <4> QED BY <1>1, <4>1
      <3> QED BY <3>1
    <2> HIDE DEF counts
    <2>7. /\ SubSeq(dq, m, Len(dq)) \in Seq(Nat)
          /\ Len(SubSeq(dq, m, Len(dq))) = Len(dq) - (m - 1)
          /\ \A i \in 1..Len(dq) - (m - 1) : SubSeq(dq, m, Len(dq))[i] = dq[(m - 1) + i]
      BY <1>1, <2>5
    <2>8. m - 1 \in 0..Len(dq) /\ (m - 1) + 1 = m
      BY <1>1, <2>5
    <2> QED BY <2>4, <2>5, <2>6, <2>7, <2>8
  <1> QED BY <1>2, <1>3

\* Who remembers an address and forgets its first attempts, which are out of
\* the window, still remembers it.
LEMMA Forgetting ==
  ASSUME LimiterTypes, NEW k \in Key, NEW h \in Seq(Nat), Remembers(h, k),
         NEW p \in 0..Len(h), \A i \in 1..p : h[i] <= clock + Skew - Window,
         NEW e \in Seq(Nat), Len(e) = Len(h) - p,
         \A i \in 1..Len(h) - p : e[i] = h[p + i]
  PROVE  Remembers(e, k)
  <1> DEFINE n == Len(passed[k])
             f == n - Len(h)
  <1>1. /\ n \in Nat /\ Len(h) \in Nat /\ f \in Nat /\ Len(h) <= Limit
        /\ \A i \in 1..Len(h) : h[i] = passed[k][f + i]
        /\ \A i \in 1..f : passed[k][i] <= clock + Skew - Window
    BY DEF Remembers, LimiterTypes
  <1>2. p \in Nat /\ p <= Len(h) /\ Limit \in Nat
    BY <1>1, LimiterTyped
  <1> HIDE DEF n, f
  <1>3. n - Len(e) = f + p /\ f + p >= 0 /\ Len(e) <= Limit
    BY <1>1, <1>2 DEF f
  <1>4. ASSUME NEW i \in 1..Len(e) PROVE e[i] = passed[k][(f + p) + i]
    <2>1. p + i \in 1..Len(h) /\ e[i] = h[p + i] /\ f + (p + i) = (f + p) + i
      BY <1>1, <1>2
    <2> QED BY <1>1, <2>1
  <1>5. ASSUME NEW i \in 1..f + p PROVE passed[k][i] <= clock + Skew - Window
    <2>1. CASE i <= f
      BY <1>1, <2>1
    <2>2. CASE i > f
      <3>1. i - f \in 1..p /\ i - f \in 1..Len(h) /\ f + (i - f) = i
        BY <1>1, <1>2, <2>2
      <3> QED BY <1>1, <3>1
    <2> QED BY <1>1, <1>2, <2>1, <2>2
  <1> QED BY <1>3, <1>4, <1>5 DEF Remembers, n

\* So who comes may sweep first.
LEMMA SweepRemembers ==
  ASSUME LInv, NEW t \in Nat, t <= clock, NEW k \in Key
  PROVE  Swept(t)[k] \in Seq(Nat) /\ Remembers(Swept(t)[k], k)
  <1>1. hits[k] \in Seq(Nat) /\ Remembers(hits[k], k) /\ passed[k] \in Seq(Nat)
    BY DEF LInv, LimiterTypes, Remembered
  <1>2. CASE Swept(t)[k] = hits[k]
    BY <1>1, <1>2
  <1>3. CASE Swept(t)[k] # hits[k]
    <2> DEFINE n == Len(hits[k])
               f == Len(passed[k]) - n
    <2>1. Swept(t)[k] = <<>> /\ hits[k] # <<>> /\ hits[k][n] <= t - MaxWindow
      BY <1>3 DEF Swept
    <2>2. /\ n \in Nat \ {0} /\ f \in Nat /\ Len(passed[k]) = f + n
          /\ \A i \in 1..n : hits[k][i] = passed[k][f + i] /\ hits[k][i] \in Nat
      <3>1. n \in Nat \ {0}
        BY <1>1, <2>1
      <3>2. Len(passed[k]) \in Nat /\ f >= 0 /\ \A i \in 1..n : hits[k][i] = passed[k][f + i]
        <4>1. Len(passed[k]) \in Nat
          BY <1>1
        <4>2. /\ Len(passed[k]) - Len(hits[k]) >= 0
              /\ \A i \in 1..Len(hits[k]) :
                   hits[k][i] = passed[k][(Len(passed[k]) - Len(hits[k])) + i]
          BY <1>1 DEF Remembers
        <4> QED BY <4>1, <4>2
      <3>3. \A i \in 1..n : hits[k][i] \in Nat
        BY <1>1
      <3> HIDE DEF n
      <3> QED BY <3>1, <3>2, <3>3
    <2> HIDE DEF n, f
    <2>3. ASSUME NEW i \in 1..n PROVE hits[k][i] <= clock + Skew - Window
      <3>1. /\ hits[k][i] = passed[k][f + i] /\ hits[k][n] = passed[k][f + n]
            /\ hits[k][i] \in Nat /\ hits[k][n] \in Nat
        BY <2>2
      <3>2. f + i \in 1..Len(passed[k]) /\ f + n \in 1..Len(passed[k])
        BY <2>2
      <3>3. i = n \/ f + i < f + n
        BY <2>2
      <3>4. hits[k][i] <= hits[k][n] + Skew
        BY <3>1, <3>2, <3>3, LimiterTyped DEF LInv, InOrder
      <3>5. clock \in Nat
        BY DEF LInv, LimiterTypes
      <3> QED BY <2>1, <3>1, <3>4, <3>5, LimiterTyped
    <2>4. n \in 0..n /\ n = Len(hits[k]) /\ Len(hits[k]) - n = 0
      BY <2>2 DEF n
    <2>5. <<>> \in Seq(Nat) /\ Len(<<>>) = 0
      OBVIOUS
    <2>6. \A i \in 1..Len(hits[k]) - n : <<>>[i] = hits[k][n + i]
      BY <2>4
    <2>7. LimiterTypes /\ n \in 0..Len(hits[k]) /\ Len(<<>>) = Len(hits[k]) - n
      BY <2>4, <2>5 DEF LInv
    <2>8. Remembers(<<>>, k)
      BY <1>1, <2>3, <2>5, <2>6, <2>7, Forgetting
    <2> QED BY <2>1, <2>5, <2>8
  <1> QED BY <1>2, <1>3

\* An attempt that is let through finds fewer than Limit in its window, and so
\* do all that were let through Limit attempts or more before it.
LEMMA CheckLInv ==
  ASSUME LInv, NEW r \in Thread, Check(r)
  PROVE  LInv'
  <1>0. PICK k, t : k = attempt[r].key /\ t = attempt[r].at
    OBVIOUS
  <1> DEFINE kept == IF SweepDue(t) THEN Swept(t) ELSE hits
             dq   == Recent(kept[k], t)
             ok   == Len(dq) < Limit
             n    == Len(passed[k])
  <1>1. /\ LimiterTypes /\ Remembered /\ InOrder /\ LimitKept
        /\ attempt[r] # NoAttempt /\ attempt' = [attempt EXCEPT ![r] = NoAttempt]
        /\ lastSweep' = IF SweepDue(t) THEN t ELSE lastSweep
        /\ hits' = [kept EXCEPT ![k] = IF ok THEN Append(dq, t) ELSE dq]
        /\ passed' = [passed EXCEPT ![k] = IF ok THEN Append(@, t) ELSE @]
        /\ clock' = clock
    BY <1>0 DEF LInv, Check
  <1>2. k \in Key /\ t \in Nat /\ clock \in Nat /\ t <= clock /\ clock <= t + Skew
    BY <1>0, <1>1, NoAttemptDiffers DEF LimiterTypes, Attempts, TimedLately
  <1>3. ASSUME NEW q \in Key PROVE kept[q] \in Seq(Nat) /\ Remembers(kept[q], q)
    BY <1>1, <1>2, SweepRemembers DEF LimiterTypes, Remembered
  <1>4. DOMAIN kept = Key
    BY <1>1 DEF LimiterTypes, Swept
  <1> HIDE DEF kept
  <1>5. /\ dq \in Seq(Nat) /\ Remembers(dq, k)
    <2>1. kept[k] \in Seq(Nat) /\ Remembers(kept[k], k)
      BY <1>2, <1>3
    <2>2. t \in Int
      BY <1>2
    <2>3. PICK p \in 0..Len(kept[k]) :
             /\ dq \in Seq(Nat) /\ Len(dq) = Len(kept[k]) - p
             /\ \A i \in 1..Len(kept[k]) - p : dq[i] = kept[k][p + i]
             /\ \A i \in 1..p : kept[k][i] <= t - Window
      BY <2>1, <2>2, RecentIsTail
    <2>4. ASSUME NEW i \in 1..p PROVE kept[k][i] <= clock + Skew - Window
      <3>1. kept[k][i] \in Nat
        BY <2>1, <2>3
      <3> QED BY <1>2, <2>3, <3>1, LimiterTyped
    <2> HIDE DEF dq
    <2> QED BY <1>1, <1>2, <2>1, <2>3, <2>4, Forgetting
  <1> HIDE DEF dq
  <1>6. /\ passed \in [Key -> Seq(Nat)] /\ passed[k] \in Seq(Nat) /\ n \in Nat
        /\ Len(dq) \in Nat /\ n - Len(dq) \in Nat /\ Limit \in Nat /\ Len(dq) <= Limit
    BY <1>1, <1>2, <1>5, LimiterTyped DEF LimiterTypes, Remembers
  <1> HIDE DEF n
  <1>7. LimiterTypes'
    <2>1. hits' \in [Key -> Seq(Nat)] /\ passed' \in [Key -> Seq(Nat)]
      <3>1. (IF ok THEN Append(dq, t) ELSE dq) \in Seq(Nat)
        BY <1>2, <1>5
      <3>2. (IF ok THEN Append(passed[k], t) ELSE passed[k]) \in Seq(Nat)
        BY <1>2, <1>6
      <3> QED BY <1>1, <1>3, <1>4, <1>6, <3>1, <3>2
    <2>2. lastSweep' \in Int
      BY <1>1, <1>2 DEF LimiterTypes
    <2>3. Attempts' /\ TimedLately'
      BY <1>1 DEF LimiterTypes, Attempts, TimedLately
    <2> QED BY <1>1, <1>2, <2>1, <2>2, <2>3 DEF LimiterTypes
  <1>8. ASSUME NEW q \in Key, q # k PROVE passed'[q] = passed[q] /\ hits'[q] = kept[q]
    BY <1>1, <1>4, <1>6, <1>8
  <1>9. CASE ~ok
    <2>1. passed' = passed /\ hits'[k] = dq
      BY <1>1, <1>2, <1>4, <1>6, <1>9
    <2>2. Remembered'
      <3>1. ASSUME NEW q \in Key PROVE Remembers(hits[q], q)'
        <4>1. PICK h : h = hits'[q] /\ Remembers(h, q)
          BY <1>3, <1>5, <1>8, <2>1
        <4> QED BY <1>1, <2>1, <4>1 DEF Remembers
      <3> QED BY <3>1 DEF Remembered
    <2> QED BY <1>1, <1>7, <2>1, <2>2 DEF LInv, InOrder, LimitKept
  <1>10. CASE ok
    <2>1. /\ passed'[k] = Append(passed[k], t) /\ hits'[k] = Append(dq, t)
          /\ Len(dq) < Limit
      BY <1>1, <1>2, <1>4, <1>6, <1>10
    <2>2. /\ Len(passed'[k]) = n + 1 /\ passed'[k][n + 1] = t
          /\ \A i \in 1..n : passed'[k][i] = passed[k][i]
      BY <1>2, <1>6, <2>1 DEF n
    <2>3. /\ Len(hits'[k]) = Len(dq) + 1 /\ hits'[k][Len(dq) + 1] = t
          /\ \A i \in 1..Len(dq) : hits'[k][i] = dq[i]
      BY <1>2, <1>5, <2>1
    <2>4. \A i \in 1..n : passed[k][i] \in Nat /\ passed[k][i] <= clock
      BY <1>1, <1>2, <1>6 DEF InOrder, n
    <2>5. Remembered'
      <3>1. ASSUME NEW q \in Key, q # k PROVE Remembers(hits[q], q)'
        <4>1. Remembers(kept[q], q) /\ passed'[q] = passed[q] /\ hits'[q] = kept[q]
          BY <1>3, <1>8, <3>1
        <4> QED BY <1>1, <4>1 DEF Remembers
      <3>2. Remembers(hits[k], k)'
        <4> DEFINE f == n - Len(dq)
        <4>1. /\ Len(passed'[k]) - Len(hits'[k]) = f /\ f \in Nat
              /\ Len(dq) + 1 <= Limit
          BY <1>6, <2>1, <2>2, <2>3
        <4>2. /\ \A i \in 1..Len(dq) : dq[i] = passed[k][f + i]
              /\ \A i \in 1..f : passed[k][i] <= clock + Skew - Window
          BY <1>5 DEF Remembers, n
        <4>3. ASSUME NEW i \in 1..Len(dq) + 1 PROVE hits'[k][i] = passed'[k][f + i]
          <5>1. CASE i = Len(dq) + 1
            <6>1. f + i = n + 1
              BY <1>6, <5>1
            <6> QED BY <2>2, <2>3, <5>1, <6>1
          <5>2. CASE i # Len(dq) + 1
            <6>1. i \in 1..Len(dq) /\ f + i \in 1..n
              BY <1>6, <5>2
            <6> QED BY <2>2, <2>3, <4>2, <6>1
          <5> QED BY <5>1, <5>2
        <4>4. ASSUME NEW i \in 1..f PROVE passed'[k][i] <= clock + Skew - Window
          <5>1. i \in 1..n
            BY <1>6
          <5> QED BY <2>2, <4>2, <5>1
        <4> HIDE DEF f
        <4>5. /\ Len(passed[k])' - Len(hits[k])' = f /\ f >= 0 /\ Len(hits[k])' <= Limit
              /\ \A i \in 1..Len(hits[k])' : hits[k]'[i] = passed[k]'[f + i]
              /\ \A i \in 1..f : passed[k]'[i] <= clock' + Skew - Window
          <5>1. Len(hits[k])' = Len(dq) + 1 /\ f >= 0
            BY <2>3, <4>1
          <5> QED BY <1>1, <4>1, <4>3, <4>4, <5>1
        <4> QED BY <4>5 DEF Remembers
      <3> QED BY <3>1, <3>2 DEF Remembered
    <2>6. InOrder'
      <3>1. ASSUME NEW q \in Key, NEW i \in 1..Len(passed'[q])
            PROVE  /\ passed'[q][i] <= clock'
                   /\ \A j \in 1..Len(passed'[q]) : i < j => passed'[q][i] <= passed'[q][j] + Skew
        <4>1. CASE q # k
          BY <1>1, <1>8, <4>1 DEF InOrder
        <4>2. CASE q = k
          <5>1. CASE i = n + 1
            BY <1>1, <1>2, <1>6, <2>2, <4>2, <5>1
          <5>2. CASE i # n + 1
            <6>1. i \in 1..n /\ passed'[k][i] = passed[k][i] /\ passed[k][i] \in Nat
              BY <1>6, <2>2, <2>4, <4>2, <5>2
            <6>2. ASSUME NEW j \in 1..n + 1, i < j
                  PROVE  passed[k][i] <= passed'[k][j] + Skew
              <7>1. CASE j = n + 1
                BY <1>2, <2>2, <2>4, <6>1, <7>1, LimiterTyped
              <7>2. CASE j # n + 1
                <8>1. j \in 1..n
                  BY <1>6, <7>2
                <8> QED BY <1>1, <1>2, <2>2, <6>1, <6>2, <8>1 DEF InOrder, n
              <7> QED BY <7>1, <7>2
            <6> QED BY <1>1, <2>2, <2>4, <4>2, <6>1, <6>2
          <5> QED BY <5>1, <5>2
        <4> QED BY <4>1, <4>2
      <3> QED BY <3>1 DEF InOrder
    <2>7. LimitKept'
      <3>1. ASSUME NEW q \in Key, NEW i \in 1..Len(passed'[q]), NEW j \in 1..Len(passed'[q]),
                   i + Limit <= j
            PROVE  passed'[q][j] - passed'[q][i] >= Window - 2 * Skew
        <4>1. CASE q # k
          BY <1>1, <1>8, <3>1, <4>1 DEF LimitKept
        <4>2. CASE q = k
          <5>1. i \in 1..n /\ passed'[k][i] = passed[k][i] /\ passed[k][i] \in Nat
            <6>1. i # n + 1
              BY <1>6, <2>2, <3>1, <4>2, LimiterTyped
            <6> QED BY <1>6, <2>2, <2>4, <4>2, <6>1
          <5>2. CASE j = n + 1
            <6>1. i \in 1..n - Len(dq)
              BY <1>6, <2>1, <3>1, <5>1, <5>2
            <6>2. passed[k][i] <= clock + Skew - Window
              BY <1>5, <6>1 DEF Remembers, n
            <6> QED BY <1>2, <2>2, <4>2, <5>1, <5>2, <6>2, LimiterTyped
          <5>3. CASE j # n + 1
            <6>1. j \in 1..n
              BY <1>6, <2>2, <4>2, <5>3
            <6> QED BY <1>1, <1>2, <2>2, <3>1, <4>2, <5>1, <6>1 DEF LimitKept, n
          <5> QED BY <5>2, <5>3
        <4> QED BY <4>1, <4>2
      <3> QED BY <3>1 DEF LimitKept
    <2> QED BY <1>7, <2>5, <2>6, <2>7 DEF LInv
  <1> QED BY <1>9, <1>10

LEMMA BeginLInv ==
  ASSUME LInv, NEW r \in Thread, NEW k \in Key, Begin(r, k)
  PROVE  LInv'
  <1>1. /\ attempt' = [attempt EXCEPT ![r] = [key |-> k, at |-> clock]]
        /\ clock \in Nat /\ Skew \in Nat /\ UNCHANGED <<clock, hits, lastSweep, passed>>
    BY LimiterTyped DEF Begin, LInv, LimiterTypes
  <1>2. Attempts' /\ TimedLately'
    BY <1>1 DEF LInv, LimiterTypes, Attempts, TimedLately
  <1> QED BY <1>1, <1>2 DEF LInv, LimiterTypes, Remembered, Remembers, InOrder, LimitKept

LEMMA TurnLInv ==
  ASSUME LInv, ClockTurns
  PROVE  LInv'
  <1>1. /\ clock' = clock + 1 /\ UNCHANGED <<attempt, hits, lastSweep, passed>>
        /\ clock \in Nat /\ Skew \in Nat /\ Window \in Nat
        /\ passed \in [Key -> Seq(Nat)] /\ hits \in [Key -> Seq(Nat)]
    BY LimiterTyped DEF ClockTurns, LInv, LimiterTypes
  <1>2. LimiterTypes'
    <2>1. TimedLately'
      <3>1. ASSUME NEW r \in Thread, attempt[r] # NoAttempt
            PROVE  attempt[r].at <= clock + 1 /\ clock + 1 <= attempt[r].at + Skew
        <4>1. attempt[r].at \in Nat /\ attempt[r].at <= clock
          BY <3>1 DEF LInv, LimiterTypes, Attempts, TimedLately
        <4>2. clock' <= attempt[r].at + Skew
          BY <3>1 DEF ClockTurns
        <4> QED BY <1>1, <4>1, <4>2
      <3> QED BY <1>1, <3>1 DEF TimedLately
    <2> QED BY <1>1, <2>1 DEF LInv, LimiterTypes, Attempts
  <1>3. Remembered'
    <2>1. ASSUME NEW k \in Key PROVE Remembers(hits[k], k)'
      <3>1. Remembers(hits[k], k) /\ passed[k] \in Seq(Nat) /\ hits[k] \in Seq(Nat)
        BY <1>1 DEF LInv, Remembered
      <3>2. ASSUME NEW i \in 1..Len(passed[k]) - Len(hits[k])
            PROVE  passed[k][i] <= (clock + 1) + Skew - Window
        <4>1. passed[k][i] \in Nat /\ passed[k][i] <= clock + Skew - Window
          BY <3>1 DEF Remembers
        <4> QED BY <1>1, <4>1
      <3> QED BY <1>1, <3>1, <3>2 DEF Remembers
    <2> QED BY <2>1 DEF Remembered
  <1>4. InOrder'
    <2>1. ASSUME NEW k \in Key, NEW i \in 1..Len(passed[k])
          PROVE  passed[k][i] <= clock + 1
      <3>1. passed[k][i] \in Nat /\ passed[k][i] <= clock
        BY <1>1 DEF LInv, InOrder
      <3> QED BY <1>1, <3>1
    <2> QED BY <1>1, <2>1 DEF LInv, InOrder
  <1> QED BY <1>1, <1>2, <1>3, <1>4 DEF LInv, LimitKept

LEMMA InitLInv == LimiterInit => LInv
  <1> SUFFICES ASSUME LimiterInit PROVE LInv
    OBVIOUS
  <1>1. LimiterTypes
    BY LimiterTyped DEF LimiterInit, LimiterTypes, Attempts, TimedLately
  <1>2. \A k \in Key : passed[k] = <<>> /\ hits[k] = <<>>
    BY DEF LimiterInit
  <1>3. Remembered
    <2>1. ASSUME NEW k \in Key PROVE Remembers(hits[k], k)
      <3>1. Len(passed[k]) = 0 /\ Len(hits[k]) = 0
        BY <1>2
      <3> QED BY <3>1, LimiterTyped DEF Remembers
    <2> QED BY <2>1 DEF Remembered
  <1>4. InOrder /\ LimitKept
    BY <1>2 DEF InOrder, LimitKept
  <1> QED BY <1>1, <1>3, <1>4 DEF LInv

LEMMA NextLInv == LInv /\ [LimiterNext]_limiterVars => LInv'
  <1> SUFFICES ASSUME LInv, [LimiterNext]_limiterVars PROVE LInv'
    OBVIOUS
  <1>1. CASE UNCHANGED limiterVars
    BY <1>1 DEF limiterVars, LInv, LimiterTypes, Attempts, TimedLately, Remembered, Remembers,
                InOrder, LimitKept
  <1> QED BY <1>1, CheckLInv, BeginLInv, TurnLInv DEF LimiterNext

\* What is remembered of an address fits the limit, so that a refusal means all
\* of it is recent, and the first of it is what is waited for.
LEMMA RefusalEnds == LInv => RetryEnough
  <1> SUFFICES ASSUME LInv, NEW k \in Key, NEW t \in 0..clock,
                      Len(Recent(hits[k], t)) >= Limit
               PROVE  Len(Recent(hits[k], t + RetryAfter(Recent(hits[k], t), t))) < Limit
    BY DEF RetryEnough
  <1> DEFINE h    == hits[k]
             dq   == Recent(h, t)
             wait == RetryAfter(dq, t)
  <1>1. h \in Seq(Nat) /\ Len(h) \in Nat /\ Len(h) <= Limit /\ t \in Nat /\ Len(dq) >= Limit
    BY DEF LInv, LimiterTypes, Remembered, Remembers
  <1> HIDE DEF h
  <1>2. PICK p \in 0..Len(h) :
          /\ dq \in Seq(Nat) /\ Len(dq) = Len(h) - p
          /\ \A i \in 1..Len(h) - p : dq[i] = h[p + i]
    BY <1>1, RecentIsTail
  <1> HIDE DEF dq
  <1>3. p = 0 /\ Len(h) = Limit /\ Len(dq) = Limit
    BY <1>1, <1>2, LimiterTyped
  <1>4. 1 \in 1..Len(h) /\ 1 \in 1..Len(h) - p /\ p + 1 = 1
    BY <1>3, LimiterTyped
  <1>5. dq[1] = h[1] /\ h[1] \in Nat
    BY <1>1, <1>2, <1>4
  <1>6. wait \in Int /\ h[1] <= t + wait - Window
    BY <1>1, <1>5, LimiterTyped DEF RetryAfter
  <1> HIDE DEF wait
  <1> DEFINE u == t + wait
  <1>7. u \in Int /\ h[1] <= u - Window
    BY <1>1, <1>5, <1>6, LimiterTyped
  <1> HIDE DEF u
  <1>8. PICK q \in 0..Len(h) :
          /\ Recent(h, u) \in Seq(Nat) /\ Len(Recent(h, u)) = Len(h) - q
          /\ \A i \in 1..Len(h) - q : Recent(h, u)[i] = h[q + i]
          /\ \A i \in 1..q : h[i] <= u - Window
          /\ q < Len(h) => h[q + 1] > u - Window
    BY <1>1, <1>7, RecentIsTail
  <1>9. q # 0
    <2>1. SUFFICES ASSUME q = 0 PROVE FALSE
      OBVIOUS
    <2>2. q + 1 = 1 /\ q < Len(h)
      BY <1>3, <2>1, LimiterTyped
    <2> QED BY <1>1, <1>5, <1>7, <1>8, <2>2, LimiterTyped
  <1>10. Len(Recent(h, u)) < Limit
    BY <1>3, <1>8, <1>9, LimiterTyped
  <1> QED BY <1>10 DEF u, wait, dq, h

\* The inductive invariant of the limiter: what is remembered of an address is
\* the end of what was let through.
THEOREM LimiterInvariance == LimiterSpec => []LInv
  BY InitLInv, NextLInv, PTL DEF LimiterSpec

\* The limiter keeps its limit for any number of threads, however long they
\* wait, and whatever sweeps come between; a refused address that waits is let
\* through.
THEOREM WindowHolds == LimiterSpec => []WindowKept
  BY LimiterInvariance, RefusalEnds, PTL DEF LInv, WindowKept
=============================================================================
