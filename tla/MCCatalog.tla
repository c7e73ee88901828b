------------------------------- MODULE MCCatalog -------------------------------
(***************************************************************************)
(* Six parts of the catalog that do not share state, on one instance.      *)
(*                                                                         *)
(* Each behaviour is one of the part its `part` names: the variables of    *)
(* the others stay as they were initially, so that the state space is the  *)
(* sum of the parts' and not their product.                                *)
(***************************************************************************)
EXTENDS MoneyCalc, SkuPricing, OwnerReferences, ListPages, CategoryTemplates, PriceLists

CONSTANTS absent, cny, jpy, point, eur, usd, chf, keep, null, k1, k2, p1, v1,
          red, blue, blank

VARIABLE part       \* the part this behaviour is about

catalogVars == <<part, moneyVars, pricingVars, ownerVars, pageVars, templateVars, listVars>>

CatalogInit ==
    /\ part \in {"money", "pricing", "owners", "pages", "templates", "lists"}
    /\ MoneyInit /\ PricingInit /\ OwnerInit /\ PagesInit /\ TemplatesInit /\ ListsInit
    /\ part # "money" => money = CHOOSE m \in Seeds : TRUE
    /\ part # "lists" => registered = {}

MoneyPart ==
    MoneyNext /\ UNCHANGED <<pricingVars, ownerVars, pageVars, templateVars, listVars>>
PricingPart ==
    PricingNext /\ UNCHANGED <<moneyVars, ownerVars, pageVars, templateVars, listVars>>
OwnersPart ==
    OwnerNext /\ UNCHANGED <<moneyVars, pricingVars, pageVars, templateVars, listVars>>
PagesPart ==
    PagesNext /\ UNCHANGED <<moneyVars, pricingVars, ownerVars, templateVars, listVars>>
TemplatesPart ==
    TemplatesNext /\ UNCHANGED <<moneyVars, pricingVars, ownerVars, pageVars, listVars>>
ListsPart ==
    ListsNext /\ UNCHANGED <<moneyVars, pricingVars, ownerVars, pageVars, templateVars>>

CatalogNext ==
    /\ UNCHANGED part
    /\ \/ part = "money" /\ MoneyPart
       \/ part = "pricing" /\ PricingPart
       \/ part = "owners" /\ OwnersPart
       \/ part = "pages" /\ PagesPart
       \/ part = "templates" /\ TemplatesPart
       \/ part = "lists" /\ ListsPart

(* The fairness of the parts; a part that is not under way enables nothing *)
(* of its own.                                                             *)
CatalogSpec ==
    CatalogInit /\ [][CatalogNext]_catalogVars
                /\ PricingFairness /\ WF_pageVars(WalkStep)

-------------------------------------------------------------------------------
(* Money: every rounding mode, the scales 0, 1 and 2.                      *)
MCUnits == {[code |-> jpy, scale |-> 0, rounding |-> "floor"],
            [code |-> cny, scale |-> 2, rounding |-> "half_up"],
            [code |-> point, scale |-> 0, rounding |-> "half_down"],
            [code |-> eur, scale |-> 1, rounding |-> "half_even"],
            [code |-> usd, scale |-> 1, rounding |-> "ceiling"],
            [code |-> chf, scale |-> 1, rounding |-> "truncate"]}
MCQuantities == {-4, 0, 2, 3}
MCRates == {[mantissa |-> -5, scale |-> 1], [mantissa |-> 1, scale |-> 0],
            [mantissa |-> 15, scale |-> 1]}
MCWeightLists == {<<>>, <<0, 0>>, <<1, -1>>, <<1, 2>>, <<0, 2, 1>>, <<1, 3, 3>>}
Text(negative, whole, fraction) ==
    [negative |-> negative, whole |-> whole, fraction |-> fraction]
MCLiterals == {Text(TRUE, <<>>, <<5>>), Text(FALSE, <<>>, <<>>),
               Text(TRUE, <<1>>, <<0, 5>>), Text(FALSE, <<>>, <<0, 2, 5>>)}
MCSeedMinors == {-3, 5}

(* Pricing: two currencies with different scales.                          *)
MCRegistry ==
    [code \in {cny, jpy} |-> [shaped |-> TRUE, code |-> code, rounding |-> "half_up",
                              scale |-> IF code = cny THEN 2 ELSE 0]]
MCAmounts == {-1, 1, 2}
Body(s, l, c, a) == [sale |-> s, list |-> l, currency |-> c, axes |-> a]
MCEdits == {Body(1, null, cny, FALSE), Body(1, 2, jpy, FALSE),
            Body(2, keep, keep, FALSE), Body(keep, 1, keep, TRUE),
            Body(2, keep, jpy, FALSE), Body(keep, keep, cny, FALSE),
            Body(keep, null, keep, FALSE), Body(-1, null, jpy, FALSE)}

(* Owners: one owner of each kind, a snapshot without an identity.         *)
Attach(o, r, s) == [owner |-> o, role |-> r, order |-> 0, snapshot |-> s]
MCAttachments == {Attach(k1, "main_image", "front"), Attach(p1, "main_image", "front"),
                  Attach(v1, "main_image", "front"), Attach(v1, "video", "front"),
                  Attach(p1, "video", "stub")}
MCChanges == {[role |-> "video", order |-> Same, snapshot |-> "back"]}
Drive(id, uri) == [id |-> id, kind |-> "image", source |-> "drive", uri |-> uri]
MCResource ==
    [front |-> MediaResourceIdentity(Drive(7, "drive")),
     back  |-> MediaResourceIdentity([id |-> 8, kind |-> "image", source |-> "upload",
                                      width |-> 640]),
     stub  |-> MediaResourceIdentity(Drive(9, "https"))]

(* Pages: every list, unfiltered and with each of its filters set.         *)
Filter(p, g, s, t, o) == [parent |-> p, group |-> g, status |-> s, tag |-> t, sort |-> o]
Unfiltered == Filter(absent, absent, absent, absent, absent)
Request(kind, filter, size, first) ==
    [kind |-> kind, filter |-> filter, size |-> size, page |-> first]
MCWalks ==
    {Request("categories", Unfiltered, absent, 0),
     Request("skus", Unfiltered, 3, 1), Request("media", Unfiltered, 0, 1),
     Request("categories", Filter(1, absent, "on", absent, absent), 1, absent),
     Request("attributes", Filter(absent, absent, "on", absent, absent), absent, 1),
     Request("priceLists", Filter(1, 1, absent, absent, absent), 1, absent),
     Request("bindings", Filter(absent, 1, absent, absent, absent), absent, absent),
     Request("products", Filter(absent, absent, absent, 7, "price-asc"), 1, 1),
     Request("products", Filter(absent, 1, "on", absent, "price-desc"), absent, 1),
     Request("products", Unfiltered, absent, absent),
     Request("skus", Filter(absent, absent, absent, 7, absent), 2, absent),
     Request("media", Unfiltered, absent, absent)}
Listing(p, g, s, t, r) ==
    [parent |-> p, group |-> g, status |-> s, tags |-> t, rank |-> r]
MCRowBodies == {Listing(1, 1, "on", {7}, 0), Listing(2, 2, "off", {}, 4)}
MCFirstRows ==
    <<Row(Listing(1, 1, "on", {7}, 4)), Row(Listing(2, 1, "on", {7}, 2)),
      Row(Listing(1, 1, "on", {7}, 2))>>

(* Templates: a list with a repeated value, and one with a blank value.    *)
MCValueLists == {<<red, blue, red>>, <<blue>>, <<red, blank>>}
===============================================================================
