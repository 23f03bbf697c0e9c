------------------------------- MODULE Filters ------------------------------
(***************************************************************************)
(* The named filters of the filters view (filters.c): defined, selected,   *)
(* activated, deleted, saved and loaded (options.c), with the check of     *)
(* filters that use one another (expr_check_leaves of expr.c).             *)
(*                                                                         *)
(* Names are numbers in their order.  Of an expression only the sequence   *)
(* of its leaves is kept: the filters it uses, and the tests of tracks,    *)
(* which the library evaluates.                                            *)
(***************************************************************************)
EXTENDS Integers, FiniteSets, Sequences, SequencesExt

CONSTANTS
  Names,      \* names of filters
  Long,       \* those that do not fit into the 64 bytes of for_each_name
  Exprs       \* expressions: sequences of names, and of tests

VARIABLES
  filters,    \* filters_head: name, expression, act_stat and sel_stat
  row,        \* the selected filter; 0: there is none
  library,    \* what the library is filtered by: filters, with their tests
  touched     \* names set or deleted since the library's filter was set

fvars == <<filters, row, library, touched>>

Stats == {"ignore", "yes", "no"}
Next3(s) == CASE s = "ignore" -> "yes" [] s = "yes" -> "no" [] s = "no" -> "ignore"
NoFilter == {}
Anonymous(tests) == {[name |-> 0, filter |-> <<>>, stat |-> "yes", tests |-> tests]}

Find(fs, name) == {i \in 1 .. Len(fs) : fs[i].name = name}
The(fs, name) == fs[CHOOSE i \in Find(fs, name) : TRUE]
NamesOf(fs) == {fs[i].name : i \in 1 .. Len(fs)}

FiltersInit == filters = <<>> /\ row = 0 /\ library = NoFilter /\ touched = {}

-----------------------------------------------------------------------------
(* get_filter, for every name that expr_check_leaves meets: c has the      *)
(* names still to be checked, those asked for, and whether one was unknown *)
(* or visited already.  Every call visits one more.                        *)
Used(expr) == SelectSeq(expr, LAMBDA leaf : leaf \in Names)

get_filter(fs, c) ==
  IF c.todo = <<>> \/ c.bad THEN c
  ELSE LET name == Head(c.todo) IN
       IF Find(fs, name) = {} \/ name \in c.visited
       THEN [c EXCEPT !.bad = TRUE, !.visited = @ \cup {name}]
       ELSE [c EXCEPT !.visited = @ \cup {name},
                      !.todo = Used(The(fs, name).filter) \o Tail(@)]

Checked(fs, expr, visited) ==
  FoldLeft(LAMBDA c, i : get_filter(fs, c),
           [todo |-> Used(expr), visited |-> visited, bad |-> FALSE],
           [i \in 1 .. Cardinality(Names) + 1 |-> i])

(* What replaces the names, when it accepts: the tests of the filters as   *)
(* they are then.                                                          *)
Expanded(fs, expr) ==
  LET Replace(leaf) == IF leaf \in Names THEN The(fs, leaf).filter ELSE <<leaf>>
  IN FoldLeft(LAMBDA e, i : FlattenSeq([k \in 1 .. Len(e) |-> Replace(e[k])]), expr,
              [i \in 1 .. Cardinality(Names) |-> i])

expr_check_leaves(fs, expr, visited) == ~Checked(fs, expr, visited).bad

(* filters_activate, after the test for pending selections: the selected   *)
(* filters are visited before their expressions are checked.               *)
Selected(fs) == SelectSeq(fs, LAMBDA f : f.sel # "ignore")
Uses(fs) == FoldLeft(LAMBDA u, f : u \o f.filter, <<>>, Selected(fs))
Valid(fs) == expr_check_leaves(fs, Uses(fs), NamesOf(Selected(fs)))

Activated(fs) == [i \in 1 .. Len(fs) |-> [fs[i] EXCEPT !.act = fs[i].sel]]
AsApplied(fs) ==
  {[name |-> f.name, filter |-> f.filter, stat |-> f.sel, tests |-> Expanded(fs, f.filter)] :
     f \in ToSet(Selected(fs))}

filters_activate(fs, win_activate) ==
  LET unchanged == \A i \in 1 .. Len(fs) : fs[i].act = fs[i].sel
  IN IF (unchanged /\ ~win_activate) \/ ~Valid(fs)
     THEN filters' = fs /\ UNCHANGED <<library, touched>>
     ELSE filters' = Activated(fs) /\ library' = AsApplied(fs) /\ touched' = {}

(* win-activate; factivate, with names that must all exist and be short    *)
WinActivate == filters_activate(filters, TRUE) /\ UNCHANGED row

for_each_name(fs, names) == names \subseteq NamesOf(fs) \ Long

filters_activate_names(stat) ==
  /\ IF for_each_name(filters, DOMAIN stat)
     THEN filters_activate([i \in 1 .. Len(filters) |-> [filters[i] EXCEPT
            !.sel = IF filters[i].name \in DOMAIN stat
                    THEN stat[filters[i].name] ELSE "ignore"]], FALSE)
     ELSE UNCHANGED <<filters, library, touched>>
  /\ UNCHANGED row

filters_toggle_filter ==
  /\ row # 0
  /\ filters' = [i \in 1 .. Len(filters) |->
       IF filters[i].name = row THEN [filters[i] EXCEPT !.sel = Next3(@)] ELSE filters[i]]
  /\ UNCHANGED <<row, library, touched>>

(* window_row_vanishes: to the next filter, or the one before *)
Vanished(fs, name) ==
  LET i == CHOOSE i \in Find(fs, name) : TRUE
  IN IF row # name THEN row
     ELSE IF i < Len(fs) THEN fs[i + 1].name ELSE IF i > 1 THEN fs[i - 1].name ELSE 0

filters_delete_filter ==
  /\ row # 0
  /\ row' = Vanished(filters, row)
  /\ filters' = SelectSeq(filters, LAMBDA f : f.name # row)
  /\ touched' = touched \cup {row}
  /\ UNCHANGED library

(* Fault_* definitions are faulty variants of the definition that follows. *)
Fault_ReplaceStaysActive(name, expr) ==
  IF Find(filters, name) = {} THEN [name |-> name, filter |-> expr, act |-> "ignore", sel |-> "ignore"]
  ELSE [The(filters, name) EXCEPT !.filter = expr]

(* The new entry; a replaced one leaves it the pending selection only. *)
NewFilter(name, expr) ==
  [name |-> name, filter |-> expr, act |-> "ignore",
   sel |-> IF Find(filters, name) = {} THEN "ignore" ELSE The(filters, name).sel]

(* fset: add or replace, sorted.  The first one gets selected by           *)
(* window_changed.                                                         *)
do_filters_set_filter(name, expr) ==
  LET others == SelectSeq(filters, LAMBDA f : f.name # name)
      n == Cardinality({i \in 1 .. Len(others) : others[i].name < name})
      gone == IF Find(filters, name) = {} THEN row ELSE Vanished(filters, name)
  IN /\ filters' = InsertAt(others, n + 1, NewFilter(name, expr))
     /\ row' = IF gone = 0 THEN name ELSE gone
     /\ touched' = touched \cup {name}
     /\ UNCHANGED library

(* :filter, with parse_filter's check of its expression, or nothing *)
filters_set_anonymous(expr) ==
  /\ expr_check_leaves(filters, expr, {})
  /\ filters' = [i \in 1 .. Len(filters) |-> [filters[i] EXCEPT !.act = "ignore"]]
  /\ library' \in {Anonymous(Expanded(filters, expr)), NoFilter}
  /\ touched' = {}
  /\ UNCHANGED row

SelectRow(name) ==
  /\ Find(filters, name) # {} /\ row' = name
  /\ UNCHANGED <<filters, library, touched>>

(* The end and the next start: fset for every filter, then one factivate   *)
(* with those that were active; a name that is too long fails it whole.    *)
Active == {f.name : f \in {f \in ToSet(filters) : f.act # "ignore"}}
Defined == [i \in 1 .. Len(filters) |-> [filters[i] EXCEPT !.sel = "ignore", !.act = "ignore"]]
Loaded == [i \in 1 .. Len(filters) |-> [filters[i] EXCEPT !.sel = filters[i].act, !.act = "ignore"]]
options_load ==
  IF ~for_each_name(filters, Active) THEN [filters |-> Defined, library |-> NoFilter]
  ELSE IF Valid(Loaded) THEN [filters |-> Activated(Loaded), library |-> AsApplied(Loaded)]
  ELSE [filters |-> Loaded, library |-> NoFilter]
Exit ==
  /\ filters' = options_load.filters
  /\ library' = options_load.library
  /\ touched' = {}
  /\ row' = IF filters = <<>> THEN 0 ELSE filters[1].name

FiltersNext ==
  \/ WinActivate \/ filters_toggle_filter \/ filters_delete_filter \/ Exit
  \/ \E chosen \in SUBSET Names : \E stat \in [chosen -> {"yes", "no"}] : filters_activate_names(stat)
  \/ \E name \in Names : SelectRow(name)
       \/ \E expr \in Exprs : do_filters_set_filter(name, expr)
  \/ \E expr \in Exprs : filters_set_anonymous(expr)

-----------------------------------------------------------------------------
(* A filter's "active" mark tells the truth: the library is filtered by    *)
(* its very expression, however the filter was selected, replaced,         *)
(* deleted, loaded and activated since, and whether or not an activation   *)
(* failed half way.  The filters that it uses count as they were at the    *)
(* activation: one of them replaced or deleted since leaves the mark, and  *)
(* the library filtered by what that one was.  Without marks the library   *)
(* may still be filtered by filters that were deleted or replaced.  The    *)
(* names are sorted and unique, and the selected row is one of them.       *)
Still(f) == Checked(filters, f.filter, {f.name}).visited \cap touched = {}

MarksTrue ==
  /\ \A f \in ToSet(filters) : f.act # "ignore" =>
       \E a \in library :
         /\ a.name = f.name /\ a.filter = f.filter /\ a.stat = f.act
         /\ Still(f) => a.tests = Expanded(filters, f.filter)
  /\ \A i \in 1 .. Len(filters) - 1 : filters[i].name < filters[i + 1].name
  /\ row = 0 <=> filters = <<>>
  /\ row # 0 => row \in NamesOf(filters)

(* The filters and their expressions survive the end of the program, and   *)
(* so do the active ones, all of them or, if they cannot be activated any  *)
(* more because of a change of another filter or because a name is too     *)
(* long for factivate, none.                                               *)
Plain(f) == [name |-> f.name, filter |-> f.filter]
FiltersSurvive ==
  LET next == options_load
  IN /\ Len(next.filters) = Len(filters)
     /\ \A i \in 1 .. Len(filters) : Plain(next.filters[i]) = Plain(filters[i])
     /\ \/ \A i \in 1 .. Len(filters) : next.filters[i].act = filters[i].act
        \/ /\ ~Valid(Loaded) \/ Active \cap Long # {}
           /\ next.library = NoFilter
           /\ \A i \in 1 .. Len(filters) : next.filters[i].act = "ignore"
=============================================================================
