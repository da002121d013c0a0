----------------------------- MODULE Catalogue ------------------------------
(***************************************************************************)
(* From the plan of pages to the shelf a product stands on: which pages    *)
(* the collectors are sent for (source_listings, collect_plan), what       *)
(* ingest_html does with each page that comes back, which pages it finds   *)
(* links to, and the category that persist_items writes for a product      *)
(* each time it is seen.  Five shops stand for the ways in which the       *)
(* source's table describes one; what a page holds is any links and any    *)
(* products of that shop.                                                  *)
(***************************************************************************)
EXTENDS Integers, FiniteSets, FiniteSetsExt, Functions

CONSTANTS
  StoreProduct,   \* products of the shop
  MaxLinks        \* links of a page, and max_pages; a bound of the model

VARIABLES
  site,     \* the shop looked at
  words,    \* of each product, the telling words of its title; it keeps its title
  tasks,    \* collect_task: pages to be collected, with their kinds
  shelf,    \* store_product.category of each product; Nothing: no such row
  seenOn    \* the page each product was last seen on (kept by the model only)

shelfVars == <<site, words, tasks, shelf, seenOn>>

Nothing == "none"

-----------------------------------------------------------------------------
\* HTML_SOURCES, in five shops: a hub of campaigns beside listings of several
\* pages (Allo), a listing with fewer pages than its shop's (Brain), one page of
\* each listing (Eldorado), a listing that only links to products (Apteka911), a
\* sitemap (AddUa).  A listing is its category and the depth of its own; 0: none.
Listings(urls, pages) ==
  [hub |-> FALSE, sitemap |-> FALSE, discovers |-> FALSE, max |-> MaxLinks, category |-> Nothing,
   paged |-> pages > 1, pages |-> pages, urls |-> urls]

AlloSource ==
  [Listings(<<<<"smartfony", 0>>, <<"noutbuky", 0>>, <<"audio", 3>>, <<"pobut-tehnika", 3>>,
              <<"klaviatury", 2>>>>, 5)
     EXCEPT !.hub = TRUE, !.category = "smartfony"]

BrainSource == Listings(<<<<"smartfony", 1>>, <<"noutbuky", 0>>>>, 5)

EldoradoSource == Listings(<<<<"tv", 0>>, <<"audio", 0>>, <<"pobut-tehnika", 0>>>>, 1)

Apteka911Source ==
  [Listings(<<<<"kosmetyka", 0>>>>, 1) EXCEPT !.discovers = TRUE, !.category = "kosmetyka"]

AddUaSource ==
  [Listings(<<>>, 1)
     EXCEPT !.sitemap = TRUE, !.discovers = TRUE, !.category = "kosmetyka", !.max = 1]

HTML_SOURCES ==
  [Allo |-> AlloSource, Brain |-> BrainSource, Eldorado |-> EldoradoSource,
   Apteka911 |-> Apteka911Source, AddUa |-> AddUaSource]

Site == DOMAIN HTML_SOURCES

cfg == HTML_SOURCES[site]

\* Addresses.  A listing is the listing of a category, a product's page that of
\* a product; a campaign's landing and the hub are pages of many.
Url(host, is, of, n) == [site |-> host, is |-> is, of |-> of, page |-> n]

\* source_listings: a depth of its own wins over the shop's; pages beyond the
\* first only where their addresses are known.
SourceListings(c) ==
  UNION {
    LET own == c.urls[i][2]
        depth == IF own # 0 THEN own ELSE c.pages
    IN {[of |-> c.urls[i][1], page |-> n] : n \in 1..(IF c.paged THEN Max({depth, 1}) ELSE 1)}
    : i \in DOMAIN c.urls }

ListingUrl(l) == Url(site, "listing", l.of, l.page)

\* URL_CATEGORY: every page of a listing has its category.  Slip: the first has.
FirstPageCategory(u) ==
  IF \E l \in SourceListings(cfg) : u = ListingUrl(l) /\ l.page = 1 THEN u.of ELSE Nothing

URL_CATEGORY(u) ==
  IF \E l \in SourceListings(cfg) : u = ListingUrl(l) THEN u.of ELSE Nothing

\* collect_plan.
CollectPlan ==
  (IF cfg.hub THEN {[url |-> Url(site, "hub", Nothing, 1), kind |-> "hub"]} ELSE {})
    \cup (IF cfg.sitemap
            THEN {[url |-> Url(site, "sitemap", Nothing, 1), kind |-> "sitemap"]} ELSE {})
    \cup {[url |-> ListingUrl(l), kind |-> "page"] : l \in SourceListings(cfg)}

-----------------------------------------------------------------------------
\* What ingest_html makes of a page.

\* Slip: every host that is named.
AnyHost(u) == u.site # Nothing

HostOk(u) == u.site = site

\* The address tells a listing from a product (discover_re).
Discovers(u) == cfg.discovers /\ u.is # "product"

\* The first of the links found, by their places in the page.
FirstOf(places) == {i \in places : Cardinality({j \in places : j <= i}) <= cfg.max}

\* sitemap_locs keeps the addresses of the shelf looked for on the shop's own
\* hosts, and of those the first ones.
SitemapLocs(links) ==
  FirstOf({i \in DOMAIN links : links[i].of \in StoreProduct /\ HostOk(links[i])})

\* discover: campaigns from the hub, products from a listing; AddUa's may lead
\* to another site.
AlloDiscover(u) == u.is = "landing" /\ HostOk(u)
AdduaDiscover(u) == u.is = "product"
Apteka911Discover(u) == u.is = "product" /\ HostOk(u)

Discover(u) ==
  CASE site = "Allo" -> AlloDiscover(u)
    [] site = "AddUa" -> AdduaDiscover(u)
    [] OTHER -> Apteka911Discover(u)

\* Of the first links found, those on the shop's own hosts.
Landings(links) ==
  {i \in FirstOf({j \in DOMAIN links : Discover(links[j])}) : HostOk(links[i])}

\* (A card's page stores no price and no shelf: see CollectQueue.)
IngestHtml(u, links, products) ==
  LET links_only(kind, places) ==
        [kind |-> kind, found |-> {links[i] : i \in places}, products |-> {}]
  IN IF u.is = "sitemap" THEN links_only("sitemap", SitemapLocs(links))
     ELSE IF u.is = "hub" \/ Discovers(u) THEN links_only("hub", Landings(links))
     ELSE [kind |-> "page", found |-> {}, products |-> products]

\* The category is that of the listing, or else that of the shop.
CategorySlug(u) == IF URL_CATEGORY(u) # Nothing THEN URL_CATEGORY(u) ELSE cfg.category

-----------------------------------------------------------------------------
\* refine_category: what the title says of products that stand among others.

\* "harnitura" is a headset's name in the shops' own language.
Word == {"cookware", "earphones", "harnitura", "headset", "cable", "fridge", "washer",
         "dishwasher", "dryer"}

Audio(w) == w \cap {"earphones", "harnitura"} # {}
Headset(w) == w \cap {"harnitura", "headset"} # {}

DEVICE_CATS == {"smartfony", "noutbuky", "planshety", "tv"}

\* In this order: a washer that dries is a washer.
APPLIANCE ==
  <<<<"fridge", "holodylnyky">>, <<"washer", "pralni-mashyny">>,
    <<"dishwasher", "posudomyiky">>, <<"dryer", "sushylni-mashyny">>>>

OfDevices(base, w) ==
  IF "cookware" \in w THEN "inshe"
  ELSE IF Audio(w) THEN (IF Headset(w) THEN "harnitury" ELSE "audio")
  ELSE IF "cable" \in w THEN "aksesuary"
  ELSE base

OfAppliances(base, w) ==
  LET said == {i \in DOMAIN APPLIANCE : APPLIANCE[i][1] \in w}
  IN IF said = {} THEN base ELSE APPLIANCE[Min(said)][2]

RefineCategory(base, w) ==
  CASE base \in DEVICE_CATS -> OfDevices(base, w)
    [] base = "audio" -> IF Headset(w) THEN "harnitury" ELSE "audio"
    [] base = "pobut-tehnika" -> OfAppliances(base, w)
    [] OTHER -> base

\* persist_items: without a category from the page, categorize finds none in
\* the address of a product that is not for pets.
Categorize == "inshe"

ShelfFor(u, p) ==
  RefineCategory(IF CategorySlug(u) = Nothing THEN Categorize ELSE CategorySlug(u), words[p])

-----------------------------------------------------------------------------
ShelvesInit ==
  /\ site \in Site
  /\ words \in [StoreProduct -> {w \in SUBSET Word : Cardinality(w) <= 2}]
  /\ tasks = CollectPlan
  /\ shelf = [p \in StoreProduct |-> Nothing]
  /\ seenOn = [p \in StoreProduct |-> Nothing]

\* Links of a page: to campaigns, to products and to other sites.
Link ==
  {Url(s, "landing", Nothing, 1) : s \in {site, "elsewhere"}}
    \cup {Url(s, "product", p, 1) : s \in {site, "elsewhere"}, p \in StoreProduct}

Links == UNION {{l \in [1..n -> Link] : IsInjective(l)} : n \in 0..MaxLinks}

Collect(t, links, products) ==
  LET r == IngestHtml(t.url, links, products) IN
  /\ tasks' = tasks \cup {[url |-> u, kind |-> "page"] : u \in r.found}
  /\ shelf' = [p \in StoreProduct |-> IF p \in r.products THEN ShelfFor(t.url, p) ELSE shelf[p]]
  /\ seenOn' = [p \in StoreProduct |-> IF p \in r.products THEN t.url ELSE seenOn[p]]
  /\ UNCHANGED <<site, words>>

\* What a page can hold: links, or products; a product's own page that product.
OnlyLinks(u) == u.is \in {"hub", "sitemap"} \/ Discovers(u)

Holds(u) ==
  IF OnlyLinks(u) THEN {{}} ELSE IF u.is = "product" THEN {{u.of}} ELSE SUBSET StoreProduct

ShelvesNext ==
  \E t \in tasks : \E products \in Holds(t.url) :
    \E links \in (IF OnlyLinks(t.url) THEN Links ELSE {<<>>}) : Collect(t, links, products)

ShelvesSpec == ShelvesInit /\ [][ShelvesNext]_shelfVars

-----------------------------------------------------------------------------
\* Properties.

\* Whatever pages a product was seen on and in whatever order, it stands where
\* it was last seen: with the listing, on whichever of its pages, and for a page
\* that is no listing with what the shop's pages hold; but cookware of a
\* campaign never stands among phones, a headset called so never among phones
\* or earphones, and a washer that dries is a washer.
OnItsShelf ==
  \A p \in StoreProduct : shelf[p] # Nothing =>
    LET u == seenOn[p] IN
    /\ words[p] = {} => shelf[p] = (IF u.is = "listing" THEN u.of ELSE cfg.category)
    /\ "cookware" \in words[p] => shelf[p] \notin DEVICE_CATS
    /\ "harnitura" \in words[p] => shelf[p] \notin DEVICE_CATS \cup {"audio"}
    /\ words[p] = {"washer", "dryer"} /\ u.is = "listing" /\ u.of = "pobut-tehnika" =>
         shelf[p] = "pralni-mashyny"

\* No collector is ever sent to another site, whatever links a hub, a listing
\* or a sitemap holds.
OwnSiteOnly == \A t \in tasks : t.url.site = site
=============================================================================
