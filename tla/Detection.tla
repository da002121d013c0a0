----------------------------- MODULE Detection ------------------------------
(***************************************************************************)
(* The discount algorithm (detection/core.py): what a product's history of *)
(* prices says about the price it has now.  A history is the sequence of   *)
(* the product's rows of price_snapshot in the order of seen_at, each with *)
(* its Kyiv day.  Prices are whole kopecks and percentages are exact, as   *)
(* in the code (Decimal); 0 stands for a missing old price, percentage or  *)
(* reference.                                                              *)
(***************************************************************************)
EXTENDS Integers, FiniteSets, Sequences

CONSTANTS          \* detection_config
  WindowDays,      \* window_days
  MinVerified,     \* min_verified_pct
  MinReference,    \* min_reference_points
  MinProvisional,  \* provisional_min_points
  RatioMax,        \* declared_ratio_max
  MinDeclared,     \* min_declared_pct
  CampaignGap,     \* campaign_gap_days
  SkipOutOfStock   \* exclude_oos_from_window

ASSUME ConfigAssumption ==
  /\ WindowDays \in Nat /\ MinReference \in Nat \ {0} /\ MinProvisional \in Nat \ {0}
  /\ MinVerified \in 1..99 /\ MinDeclared \in 1..99 /\ RatioMax \in Nat \ {0}
  /\ CampaignGap \in Nat \ {0} /\ SkipOutOfStock \in BOOLEAN

State == {"verified", "verified_provisional", "pumped", "insufficient_history", "declared"}

MinOf(S) == CHOOSE x \in S : \A y \in S : x <= y
MaxOf(S) == CHOOSE x \in S : \A y \in S : x >= y

\* ROUND_HALF_UP: halves go away from zero.
Pct(delta, base) ==
  LET half(a) == (200 * a + base) \div (2 * base)
  IN  IF delta < 0 THEN -half(-delta) ELSE half(delta)

-----------------------------------------------------------------------------
\* Stage A: the discount that the shop declares.  A ratio beyond RatioMax is a
\* parsing error; a share below MinDeclared, compared unrounded, is noise.

DeclaredPct(now, old) ==
  IF \/ now <= 0 \/ old <= now
     \/ old > RatioMax * now
     \/ 100 * (old - now) < MinDeclared * old
    THEN 0 ELSE Pct(old - now, old)

-----------------------------------------------------------------------------
\* Stage B: the discount by the product's own history.

Valid(s) == s.price > 0 /\ (s.stock \/ ~SkipOutOfStock)

\* The valid points of the window before a day.  Slip: the day itself, too.
WindowThrough(h, day) ==
  {i \in DOMAIN h : day - WindowDays <= h[i].day /\ h[i].day <= day /\ Valid(h[i])}

Window(h, day) ==
  {i \in DOMAIN h : day - WindowDays <= h[i].day /\ h[i].day < day /\ Valid(h[i])}

\* The base price.  Slip: the latest price in place of the lowest.
LatestOf(h, W) == h[MaxOf(W)].price

Lowest(h, W) == MinOf({h[i].price : i \in W})

Discounted(h, day, price) ==
  LET W == Window(h, day)
  IN  /\ Cardinality(W) >= MinReference
      /\ 100 * price < Lowest(h, W) * (100 - MinVerified)

ValidDays(h) == {h[i].day : i \in {k \in DOMAIN h : Valid(h[k])}}

DayPrice(h, day) ==
  MinOf({h[i].price : i \in {k \in DOMAIN h : h[k].day = day /\ Valid(h[k])}})

DiscountDays(h) == {d \in ValidDays(h) : Discounted(h, d, DayPrice(h, d))}

\* A step of infer_announce_day, from the latest day back: the first day of the
\* campaign so far, and whether it goes on, which it does as long as no
\* undiscounted day lies CampaignGap days before it.  Slip: a day more.
BackLater(days, disc, w, d) ==
  IF d \notin days \/ ~w.going THEN w
  ELSE IF d \in disc THEN [w EXCEPT !.start = d]
  ELSE [w EXCEPT !.going = w.start - d <= CampaignGap]

Back(days, disc, w, d) ==
  IF d \notin days \/ ~w.going THEN w
  ELSE IF d \in disc THEN [w EXCEPT !.start = d]
  ELSE [w EXCEPT !.going = w.start - d < CampaignGap]

Walk(days, disc) ==
  LET last == MaxOf(days)
      walk[d \in 0..last] ==
        IF d = last THEN [start |-> last, going |-> TRUE]
        ELSE Back(days, disc, walk[d + 1], d)
  IN  walk

\* The result is the set of the day found, or empty.
Inferred(h) ==
  LET days == ValidDays(h)
      disc == DiscountDays(h)
  IN  IF days = {} \/ MaxOf(days) \notin disc THEN {} ELSE {Walk(days, disc)[0].start}

\* compute_badge for a campaign announced on a given day.
Badge(h, now, old, announce) ==
  LET W     == Window(h, announce)
      n     == Cardinality(W)
      dp    == DeclaredPct(now, old)
      bare  == [current |-> now, declared |-> dp, reference |-> 0, verified |-> 0,
                state |-> IF dp # 0 THEN "declared" ELSE "insufficient_history"]
      base  == Lowest(h, W)
      share == Pct(base - now, base)
      whole == announce - MinOf({h[i].day : i \in W}) >= WindowDays - 1
  IN  IF n < MinProvisional THEN bare
      ELSE [bare EXCEPT
              !.reference = base, !.verified = share,
              !.state = IF share < MinVerified THEN "pumped"
                        ELSE IF n >= MinReference /\ whole THEN "verified"
                        ELSE "verified_provisional"]
=============================================================================
