----------------------------- MODULE Preferences -----------------------------
(***************************************************************************)
(* What the page keeps in localStorage: the units, the wind display and    *)
(* the theme (frontend/components/map/MapShell.tsx) and the favorites      *)
(* (frontend/components/controls/useFavorites.ts).  The first render shows *)
(* defaults; effects then read what was saved and write what is shown.     *)
(* The tab may be closed between any two steps.                            *)
(***************************************************************************)
EXTENDS Naturals

CONSTANTS
    Products,
    None,    \* an absent entry
    Changes, \* bound: choices of the user
    Loads    \* bound: times the page is loaded

UnitSystems == {"imperial", "metric"}
WindDisplays == {"grid", "particles", "barbs"}
Themes == {"dark", "light"}

VARIABLES
    storage, \* units, wind, theme, favorites and the old key of the favorites
    page,    \* what the open page shows
    phase,   \* "closed", "mounting" (before the effects of the first render), "ready"
    due,     \* the entries whose persisting effect has to run
    budget

vars == <<storage, page, phase, due, budget>>

Shown == [units : UnitSystems, wind : WindDisplays, theme : Themes,
          favorites : SUBSET Products]

TypeOK ==
    /\ storage \in [units : UnitSystems \cup {None}, wind : WindDisplays \cup {None},
                    theme : Themes \cup {None}, favorites : (SUBSET Products) \cup {None},
                    old : (SUBSET Products) \cup {None}]
    /\ page \in Shown
    /\ phase \in {"closed", "mounting", "ready"}
    /\ due \subseteq {"units", "wind", "favorites"}
    /\ budget \in [changes : 0..Changes, loads : 0..Loads]

Or(saved, default) == IF saved = None THEN default ELSE saved

\* The state of the first render: only the wind display is read at once.
FirstRender ==
    [units |-> "imperial", wind |-> Or(storage.wind, "grid"), theme |-> "dark",
     favorites |-> {}]

\* A browser that was here before, or that has favorites of an old version, or neither.
Init ==
    /\ \E units \in {"metric", None}, favorites, old \in {Products, None} :
           storage = [units |-> units, wind |-> None, theme |-> None,
                      favorites |-> favorites, old |-> old]
    /\ page = [FirstRender EXCEPT !.wind = "grid"]
    /\ phase = "closed"
    /\ due = {}
    /\ budget = [changes |-> Changes, loads |-> Loads]

-----------------------------------------------------------------------------
(***************************************************************************)
(* Loading and closing.                                                    *)
(***************************************************************************)

Open ==
    /\ phase = "closed"
    /\ budget.loads > 0
    /\ budget' = [budget EXCEPT !.loads = @ - 1]
    /\ page' = FirstRender
    /\ phase' = "mounting"
    /\ due' = {}
    /\ UNCHANGED storage

Close ==
    /\ phase # "closed"
    /\ phase' = "closed"
    /\ due' = {}
    /\ UNCHANGED <<storage, page, budget>>

\* The favorites that were saved; those of the old key if none were.
SavedFavorites == Or(storage.favorites, Or(storage.old, {}))

\* Mutant: the first effects persist the empty list as well.
PersistsUnhydrated == [storage EXCEPT !.units = page.units, !.wind = page.wind,
                                      !.favorites = page.favorites]

\* The persisting effects of the first render: the favorites wait until they are
\* hydrated, the units do not, and the defaults replace what was saved.
PersistsFirst == [storage EXCEPT !.units = page.units, !.wind = page.wind]

\* The effects of the first render read before they write; the second render shows
\* what was read.
MountEffects ==
    /\ phase = "mounting"
    /\ page' = [page EXCEPT !.units = Or(storage.units, @), !.theme = Or(storage.theme, @),
                            !.favorites = SavedFavorites]
    /\ storage' = PersistsFirst
    /\ due' = {"units", "favorites"}
    /\ phase' = "ready"
    /\ UNCHANGED budget

\* The persisting effects after a later render.
PersistEffects ==
    /\ due # {}
    /\ storage' = [storage EXCEPT !.units = IF "units" \in due THEN page.units ELSE @,
                                  !.wind = IF "wind" \in due THEN page.wind ELSE @,
                                  !.favorites = IF "favorites" \in due THEN page.favorites
                                                ELSE @]
    /\ due' = {}
    /\ UNCHANGED <<page, phase, budget>>

-----------------------------------------------------------------------------
(***************************************************************************)
(* The user.  React has run the effects of a render before the next click. *)
(***************************************************************************)

Choose(new, effect) ==
    /\ phase = "ready"
    /\ due = {}
    /\ budget.changes > 0
    /\ budget' = [budget EXCEPT !.changes = @ - 1]
    /\ page' = new
    /\ due' = effect
    /\ UNCHANGED phase

ToggleUnits(units) ==
    /\ units # page.units
    /\ Choose([page EXCEPT !.units = units], {"units"})
    /\ UNCHANGED storage

SelectWind(wind) ==
    /\ wind # page.wind
    /\ Choose([page EXCEPT !.wind = wind], {"wind"})
    /\ UNCHANGED storage

\* The theme is saved at once.
ToggleTheme(theme) ==
    /\ theme # page.theme
    /\ Choose([page EXCEPT !.theme = theme], {})
    /\ storage' = [storage EXCEPT !.theme = theme]

ToggleFavorite(p) ==
    /\ Choose([page EXCEPT !.favorites = IF p \in @ THEN @ \ {p} ELSE @ \cup {p}], {"favorites"})
    /\ UNCHANGED storage

Next ==
    \/ Open
    \/ Close
    \/ MountEffects
    \/ PersistEffects
    \/ \E units \in UnitSystems : ToggleUnits(units)
    \/ \E wind \in WindDisplays : SelectWind(wind)
    \/ \E theme \in Themes : ToggleTheme(theme)
    \/ \E p \in Products : ToggleFavorite(p)

Spec == Init /\ [][Next]_vars

-----------------------------------------------------------------------------
(***************************************************************************)
(* Properties.                                                             *)
(***************************************************************************)

\* "Favorites / Pinned Products saved to localStorage": wherever a load or a closing of the
\* tab stops the effects, what a later load will find changes by one product at a time,
\* as the user toggles it, and never by loading.
OnlyTogglesChangeFavorites ==
    [][SavedFavorites' # SavedFavorites =>
           \E p \in Products :
               \/ SavedFavorites' = SavedFavorites \cup {p}
               \/ SavedFavorites' = SavedFavorites \ {p}]_vars
=============================================================================
