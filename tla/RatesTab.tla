------------------------------- MODULE RatesTab -------------------------------
(***************************************************************************)
(* The tab of exchange rates of the administration page (AdminPage.tsx)    *)
(* over the tables of fx-rates.service.ts.  It shows the rates of one      *)
(* table, of a year, a month or a day, for the currencies the filter       *)
(* names.  Asked for no date, the API answers the latest one; the page     *)
(* then fills its three selects with that date and asks again.             *)
(*                                                                         *)
(* One administrator has the tab open.  A call holds the point at which it *)
(* goes on, and the states of the render it was made in.                   *)
(*                                                                         *)
(* A definition Name_Slip is Name with a plausible slip, which a property  *)
(* below must catch; nothing refers to it.                                 *)
(*                                                                         *)
(* Abstractions: of rates, what was asked for when they were listed; the   *)
(* values of a select are those of the stored days; of a sync, that the    *)
(* tables it is for may know a later day (FxRates has its steps).          *)
(***************************************************************************)
EXTENDS Naturals, Sequences

CONSTANTS
  Tables,    \* the rate tables, one for each provider
  Calendar,  \* the days that can be published: <<year, month, day>>
  Quotes,    \* what the filter of currencies can hold
  All,       \* the empty filter
  Loads,     \* slots for calls under way
  NoTable,   \* none selected yet
  MaxClicks  \* bound: what the administrator does

ASSUME CalendarAssumption ==
  /\ Calendar \in Seq(Nat \X Nat \X Nat) /\ Len(Calendar) > 0
  /\ All \in Quotes /\ NoTable \notin Tables /\ MaxClicks \in Nat

VARIABLES
  last,      \* the number of days stored of each table
  active,    \* Tenant.activeFxTableId
  overview,  \* fxOverview: the active table it names
  tableId,   \* fxSelectedTableId
  cut,       \* fxYear, fxMonth and fxDay, as far as they are filled
  quote,     \* fxRateFilter
  typing,    \* its field has the focus
  rates,     \* fxRates: what they were listed for
  load,      \* the calls under way
  clicks,    \* history: what the administrator did
  crossed    \* history: a call did not wait for another, or failed

ratesVars == <<last, active, overview, tableId, cut, quote, typing, rates,
               load, clicks, crossed>>
filters == <<cut, quote, typing>>

NoLoad == [then |-> "idle", table |-> NoTable, cut |-> <<>>, quote |-> All,
            sel |-> NoTable, goal |-> NoTable, busy |-> FALSE, got |-> 0]
Resting(c) == load[c] = NoLoad
Calm == \A c \in Loads : Resting(c)
Syncing == \E c \in Loads : load[c].busy

Cuts(t) == {<<>>} \union
  {SubSeq(Calendar[d], 1, n) : d \in 1..last[t], n \in 1..3}

(* What getTable lists: of no date, the latest that is stored.             *)
Listed(q) ==
  [table |-> q.table, quote |-> q.quote,
   cut |-> IF q.cut = <<>> /\ q.got > 0 THEN Calendar[q.got] ELSE q.cut]

(* A call made in this render.                                             *)
Call(then) ==
  [NoLoad EXCEPT !.then = then, !.table = tableId, !.cut = cut,
                  !.quote = quote, !.sel = tableId]

RatesInit ==
  /\ last \in [Tables -> {0, 1}] /\ active \in Tables
  /\ overview = NoTable /\ tableId = NoTable
  /\ cut = <<>> /\ quote = All /\ typing = FALSE
  /\ rates = [table |-> NoTable, quote |-> All, cut |-> <<>>]
  /\ \E c \in Loads :
       load = [[d \in Loads |-> NoLoad] EXCEPT ![c].then = "overview"]
  /\ clicks = 0 /\ crossed = FALSE

-----------------------------------------------------------------------------
(* What the administrator does *)

(* Free slots differ in nothing: a call takes one of them.                 *)
Clicks(c, q) ==
  /\ Resting(c) /\ c = (CHOOSE d \in Loads : Resting(d))
  /\ clicks < MaxClicks
  /\ load' = [load EXCEPT ![c] = q]
  /\ clicks' = clicks + 1 /\ crossed' = (crossed \/ ~Calm)
  /\ UNCHANGED <<last, active, overview, tableId, rates>>

(* The tab is left and opened again.                                       *)
OpenRates(c) ==
  /\ Clicks(c, Call("overview")) /\ ~typing
  /\ UNCHANGED filters

SelectTable(c, t) ==
  /\ overview # NoTable /\ ~typing
  /\ Clicks(c, [Call("detail") EXCEPT !.table = t, !.cut = <<>>])
  /\ cut' = <<>> /\ UNCHANGED <<quote, typing>>

(* Year, month or day: what is below it is emptied.                        *)
SelectDate(c, to) ==
  /\ tableId # NoTable /\ ~typing
  /\ to # cut /\ Len(to) <= Len(cut) + 1
  /\ \A n \in 1..(Len(to) - 1) : to[n] = cut[n]
  /\ Clicks(c, [Call("detail") EXCEPT !.cut = to])
  /\ cut' = to /\ UNCHANGED <<quote, typing>>

SetFilter(to) ==
  /\ tableId # NoTable /\ to # quote
  /\ quote' = to /\ typing' = TRUE
  /\ UNCHANGED <<last, active, overview, tableId, cut, rates, load, clicks,
                 crossed>>

(* Enter, or the field is left: whatever is clicked is clicked after this. *)
OnBlur(c) ==
  /\ typing /\ Clicks(c, Call("detail"))
  /\ typing' \in BOOLEAN /\ UNCHANGED <<cut, quote>>

SyncAll(c) ==
  /\ ~Syncing /\ ~typing
  /\ Clicks(c, [Call("sync") EXCEPT !.busy = TRUE])
  /\ UNCHANGED filters

SyncOne(c) ==
  /\ ~Syncing /\ ~typing /\ tableId # NoTable
  /\ Clicks(c, [Call("sync") EXCEPT !.goal = tableId, !.busy = TRUE])
  /\ UNCHANGED filters

ActivateFx(c) ==
  /\ ~Syncing /\ ~typing /\ tableId \notin {NoTable, overview}
  /\ Clicks(c, [Call("activate") EXCEPT !.busy = TRUE])
  /\ UNCHANGED filters

-----------------------------------------------------------------------------
(* The API *)

GoesOn(c, then) == load' = [load EXCEPT ![c].then = then]

(* A table that was asked for is listed as it is now.                      *)
GetTable(c) ==
  /\ load[c].then \in {"detail", "seed"}
  /\ load' = [load EXCEPT ![c].then =
                IF load[c].then = "seed" THEN "seeded" ELSE "listed",
              ![c].got = last[load[c].table]]
  /\ UNCHANGED <<last, active, overview, tableId, filters, rates, clicks,
                 crossed>>

SyncTables(c) ==
  /\ load[c].then = "sync"
  /\ \E to \in [Tables -> 1..Len(Calendar)] :
       /\ \A t \in Tables :
            to[t] # last[t] => to[t] > last[t] /\ load[c].goal \in {t, NoTable}
       /\ last' = to
  /\ GoesOn(c, IF load[c].goal = NoTable THEN "synced" ELSE "overview")
  /\ UNCHANGED <<active, overview, tableId, filters, rates, clicks, crossed>>

SetActiveTable(c) ==
  /\ load[c].then = "activate"
  /\ active' = load[c].table /\ GoesOn(c, "activated")
  /\ UNCHANGED <<last, overview, tableId, filters, rates, clicks, crossed>>

-----------------------------------------------------------------------------
(* The page goes on *)

(* loadFx: the selected table of its render, else the active one.          *)
LoadFx(c) ==
  /\ load[c].then = "overview"
  /\ overview' = active
  /\ load' = [load EXCEPT ![c].then = "detail",
       ![c].table = IF load[c].sel = NoTable THEN active ELSE load[c].sel]
  /\ UNCHANGED <<last, active, tableId, filters, rates, clicks, crossed>>

(* All tables were synced: the latest rates of the active one.             *)
ShowSynced(c) ==
  /\ load[c].then = "synced"
  /\ overview' = active /\ cut' = <<>>
  /\ load' = [load EXCEPT ![c].then = "detail", ![c].table = active,
                          ![c].cut = <<>>]
  /\ UNCHANGED <<last, active, tableId, quote, typing, rates, clicks, crossed>>

ShowActivated(c) ==
  /\ load[c].then = "activated"
  /\ overview' = active /\ GoesOn(c, "detail")
  /\ UNCHANGED <<last, active, tableId, filters, rates, clicks, crossed>>

(* The end of loadFxTable.  One table was synced: its latest rates.        *)
EndsLoad(c) ==
  IF load[c].goal = NoTable
  THEN load' = [load EXCEPT ![c] = NoLoad]
  ELSE load' = [load EXCEPT ![c].then = "latest"]

ShowLatest(c) ==
  /\ load[c].then = "latest" /\ cut' = <<>>
  /\ load' = [load EXCEPT ![c].then = "detail", ![c].table = load[c].goal,
                          ![c].cut = <<>>, ![c].goal = NoTable]
  /\ UNCHANGED <<last, active, overview, tableId, quote, typing, rates,
                 clicks, crossed>>

Reloaded_Selected(q) == IF q.sel = NoTable THEN q.table ELSE q.sel

(* Of which table the second request of loadFxTable is.                    *)
Reloaded(q) == q.table

ShowTable(c) ==
  /\ load[c].then = "listed"
  /\ tableId' = load[c].table /\ rates' = Listed(load[c])
  /\ LET seeds == load[c].cut = <<>> /\ load[c].got > 0
     IN  IF seeds
         THEN /\ cut' = Calendar[load[c].got]
              /\ load' = [load EXCEPT ![c].then = "seed",
                   ![c].table = Reloaded(load[c]), ![c].cut = cut']
         ELSE EndsLoad(c) /\ UNCHANGED cut
  /\ UNCHANGED <<last, active, overview, quote, typing, clicks, crossed>>

ShowSeeded(c) ==
  /\ load[c].then = "seeded"
  /\ rates' = Listed(load[c]) /\ EndsLoad(c)
  /\ UNCHANGED <<last, active, overview, tableId, filters, clicks, crossed>>

(* A call fails, or its answer is lost.                                    *)
FailLoad(c) ==
  /\ ~Resting(c) /\ load[c].then # "latest"
  /\ load' = [load EXCEPT ![c] = NoLoad] /\ crossed' = TRUE
  /\ UNCHANGED <<last, active, overview, tableId, filters, rates, clicks>>

RatesNext ==
  \E c \in Loads :
    \/ OpenRates(c) \/ OnBlur(c) \/ SyncAll(c) \/ SyncOne(c) \/ ActivateFx(c)
    \/ \E t \in Tables : SelectTable(c, t)
    \/ tableId # NoTable /\ \E to \in Cuts(tableId) : SelectDate(c, to)
    \/ \E to \in Quotes : SetFilter(to)
    \/ GetTable(c) \/ SyncTables(c) \/ SetActiveTable(c)
    \/ LoadFx(c) \/ ShowSynced(c) \/ ShowActivated(c) \/ ShowLatest(c)
    \/ ShowTable(c) \/ ShowSeeded(c) \/ FailLoad(c)

RatesSpec == RatesInit /\ [][RatesNext]_ratesVars

-----------------------------------------------------------------------------
(* Whoever waits for the answers sees, under a table and a date, the rates *)
(* of that table and that date in the currencies of the filter: after the  *)
(* seeding by the latest date, a sync that moves that date, a change of    *)
(* the active table and a return to the tab as well.                       *)
RatesFitTable ==
  Calm /\ ~typing /\ ~crossed =>
    rates = [table |-> tableId, quote |-> quote, cut |-> cut]

=============================================================================
