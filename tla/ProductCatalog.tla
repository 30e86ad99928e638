--------------------------- MODULE ProductCatalog ---------------------------
(***************************************************************************)
(* The product catalog (frontend/components/controls/catalog.ts), the      *)
(* drawer that offers it (ProductSelector.tsx) and what MapShell.tsx keeps *)
(* of the selection: product, type, percentile, accumulation, threshold.   *)
(* The drawer offers the options of the selected product; MapShell resets  *)
(* those for which the new product has a default.                          *)
(*                                                                         *)
(* Of a product the tables keep what the selection depends on: its id, its *)
(* element, its types and options, the defaults, the number of thresholds. *)
(***************************************************************************)
EXTENDS Naturals

CONSTANTS
    NoOption,
    Choices \* bound: selections by the user

VARIABLES
    selection, \* product, type, percentile, accum, threshold
    drawer,    \* small screen, open, only favorites
    budget

vars == <<selection, drawer, budget>>

-----------------------------------------------------------------------------
(***************************************************************************)
(* The tables.                                                             *)
(***************************************************************************)

Det == {"deterministic"}
Prob == {"probabilistic"}
DetMean == {"deterministic", "mean"}
DetProb == {"deterministic", "probabilistic"}
Types == {"deterministic", "mean", "probabilistic"}

Five == {10, 25, 50, 75, 90}
Percentiles == Five \cup {95}

Accumulations == {"1h", "6h", "12h", "24h", "48h", "72h"}

Product(id, element, types, percentiles, accums, thresholds) ==
    [id |-> id, element |-> element, types |-> types,
     type |-> IF "deterministic" \in types THEN "deterministic" ELSE "probabilistic",
     percentiles |-> percentiles, percentile |-> IF percentiles = {} THEN NoOption ELSE 50,
     accums |-> accums, accum |-> IF accums = {} THEN NoOption ELSE CHOOSE a \in accums : TRUE,
     thresholds |-> thresholds]

Plain(id, element, types, thresholds) == Product(id, element, types, {}, {}, thresholds)

TempMoisture ==
    {Product("tmp", "tmp", DetMean, Five, {}, 0),
     Product("maxt", "maxt", Types, Percentiles, {}, 5),
     Product("mint", "mint", Types, Five, {}, 4),
     Plain("dpt", "tdp", DetMean, 0), Plain("appt", "appt", Det, 0),
     Plain("rh", "rh", DetMean, 0), Plain("maxrh", "maxrh", Det, 0),
     Plain("minrh", "minrh", Det, 0)}

\* The probabilities of precipitation default to their probabilistic type.
Pop(id, accum) ==
    [Product(id, id, DetProb, {}, {accum}, 0) EXCEPT !.type = "probabilistic"]

PrecipQpf ==
    {Product("qpf01", "qpf01", Types, Five, {"1h"}, 5),
     Product("qpf06", "qpf06", Types, Five, {"6h"}, 5),
     Product("qpf12", "qpf12", Types, Five, {"12h"}, 5),
     Product("qpf24", "qpf24", Types, Percentiles, {"24h"}, 5),
     Pop("pop06", "6h"), Pop("pop12", "12h"),
     Product("qmd_qpf06", "qmd_qpf06", Det, {}, {"6h"}, 0),
     Product("qmd_qpf24", "qmd_qpf24", Det, {}, {"24h"}, 0)}

Winter ==
    {[Product("snow", "snow", Types, Percentiles, Accumulations \ {"1h"}, 5)
          EXCEPT !.accum = "24h"],
     Plain("snowc", "snowc", Det, 0), Plain("snowlev", "snowlev", Det, 0),
     Plain("ice_accum", "snow", Prob, 3)}

Wind ==
    {Product("wind", "wind", Types, Five, {}, 4), Product("gust", "gust", Types, Five, {}, 4),
     Plain("winddir", "winddir", Det, 0), Plain("probwind", "probwind", Prob, 4),
     Plain("probgust", "probgust", Prob, 3)}

Convective ==
    {Plain("sbcape", "sbcape", DetMean, 4), Plain("refc", "refc", Det, 0),
     Plain("lightning", "pop12", Prob, 0)}

AviationMarine ==
    {Plain("ceil", "ceil", DetProb, 3), Plain("vis", "vis", DetProb, 3),
     Plain("sky", "sky", DetMean, 0),
     Product("mslp", "mslp", DetMean, Five, {}, 0), Product("pmslp", "pmslp", Prob, Five, {}, 0)}

Fire ==
    {Plain("fire_rh", "minrh", Det, 3), Plain("fire_wind", "wind", Det, 0),
     Plain("fire_gust", "gust", Det, 0), Plain("fire_tmp", "maxt", Det, 0)}

Products == TempMoisture \cup PrecipQpf \cup Winter \cup Wind \cup Convective
            \cup AviationMarine \cup Fire

\* getProductById
ProductById(id) == CHOOSE p \in Products : p.id = id

-----------------------------------------------------------------------------
TypeOK ==
    /\ selection.product \in Products
    /\ selection.type \in Types
    /\ selection.percentile \in Percentiles
    /\ selection.accum \in Accumulations
    /\ selection.threshold \in 0..5
    /\ drawer \in [mobile : BOOLEAN, open : BOOLEAN, favorites : BOOLEAN]
    /\ budget \in 0..Choices

\* The initial state of MapShell; threshold 0 is undefined.
Init ==
    /\ selection = [product |-> ProductById("tmp"), type |-> "deterministic", percentile |-> 50,
                    accum |-> "24h", threshold |-> 0]
    /\ drawer = [mobile |-> FALSE, open |-> TRUE, favorites |-> FALSE]
    /\ budget = Choices

\* At 1024px and wider the drawer stays in view, whatever its state is.
InView == drawer.mobile => drawer.open

Choose(new) ==
    /\ budget > 0
    /\ budget' = budget - 1
    /\ InView
    /\ selection' = new

\* Mutant: the type of the product before stays selected.
SelectKeepsType(p) ==
    [selection EXCEPT !.product = p,
                      !.percentile = IF p.percentile = NoOption THEN @ ELSE p.percentile,
                      !.accum = IF p.accum = NoOption THEN @ ELSE p.accum,
                      !.threshold = 0]

\* handleSelectProduct: options without a default keep what was selected before.
Selected(p) ==
    [selection EXCEPT !.product = p, !.type = p.type,
                      !.percentile = IF p.percentile = NoOption THEN @ ELSE p.percentile,
                      !.accum = IF p.accum = NoOption THEN @ ELSE p.accum,
                      !.threshold = 0]

\* A row of the drawer, in its category, in the search or among the favorites; on a
\* small screen the drawer closes.
SelectProduct(p) ==
    /\ Choose(Selected(p))
    /\ drawer' = IF drawer.mobile THEN [drawer EXCEPT !.open = FALSE] ELSE drawer

\* The sub-selectors.  Types are offered if there is more than one; percentiles whatever
\* the type is.
SelectType(type) ==
    /\ type \in selection.product.types
    /\ selection.product.types # {type}
    /\ Choose([selection EXCEPT !.type = type])
    /\ UNCHANGED drawer

SelectPercentile(percentile) ==
    /\ percentile \in selection.product.percentiles
    /\ Choose([selection EXCEPT !.percentile = percentile])
    /\ UNCHANGED drawer

SelectAccum(accum) ==
    /\ accum \in selection.product.accums
    /\ Choose([selection EXCEPT !.accum = accum])
    /\ UNCHANGED drawer

SelectThreshold(threshold) ==
    /\ threshold \in 1..selection.product.thresholds
    /\ Choose([selection EXCEPT !.threshold = threshold])
    /\ UNCHANGED drawer

\* The button of the header, that of the map, the backdrop.
ToggleDrawer ==
    /\ drawer' = [drawer EXCEPT !.open = ~@]
    /\ UNCHANGED <<selection, budget>>

\* useIsMobile, and the effect that opens or closes the drawer.
Resize ==
    /\ drawer' = [drawer EXCEPT !.mobile = ~@, !.open = drawer.mobile]
    /\ UNCHANGED <<selection, budget>>

ShowOnlyFavorites ==
    /\ InView
    /\ drawer' = [drawer EXCEPT !.favorites = ~@]
    /\ UNCHANGED <<selection, budget>>

Next ==
    \/ \E p \in Products : SelectProduct(p)
    \/ \E type \in Types : SelectType(type)
    \/ \E percentile \in Percentiles : SelectPercentile(percentile)
    \/ \E accum \in Accumulations : SelectAccum(accum)
    \/ \E threshold \in 1..5 : SelectThreshold(threshold)
    \/ ToggleDrawer
    \/ Resize
    \/ ShowOnlyFavorites

Spec == Init /\ [][Next]_vars

-----------------------------------------------------------------------------
(***************************************************************************)
(* Properties.                                                             *)
(***************************************************************************)

\* Whatever was selected before: the type, and each option that the drawer shows for the
\* product, is one the product has.  A percentile of 95 never outlives the few products
\* that have one, because every product with percentiles has a default.
OptionsBelongToProduct ==
    LET p == selection.product
    IN  /\ selection.type \in p.types
        /\ p.percentiles # {} => selection.percentile \in p.percentiles
        /\ p.accums # {} => selection.accum \in p.accums
        /\ selection.threshold \in 0..p.thresholds
=============================================================================
