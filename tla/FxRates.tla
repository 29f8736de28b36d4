------------------------------ MODULE FxRates ------------------------------
(***************************************************************************)
(* A table of exchange rates, kept in step with a provider and used to     *)
(* convert amounts (fx-rates.service.ts, fx-fetch.ts,                      *)
(* fx-convert.service.ts).                                                 *)
(*                                                                         *)
(* A sync decides from the days it has which days to ask for, asks, stores *)
(* what it gets in batches, oldest first, and asks again for the last days *)
(* of the calendar.  Syncs overlap, throw and stop between their calls.    *)
(*                                                                         *)
(* A definition Name_Slip is Name with a plausible slip, which a property  *)
(* below must catch; nothing refers to it.                                 *)
(*                                                                         *)
(* Abstractions: days are 1..LastDay, day 1 being the start of history; a  *)
(* rate is a natural number, 0 where there is none, so that a cross rate   *)
(* is a fraction and is not cut to eight places; the requests of one range *)
(* are one request.  The rates of the base against itself are left out:    *)
(* nothing reads them.  The provider shows what it has of a day at once;   *)
(* it need not have a rate for each currency, nor any for each day.        *)
(***************************************************************************)
EXTENDS Integers, FiniteSets, Sequences

CONSTANTS
  Quotes,   \* the foreign currencies
  Base,     \* the currency the rates are of
  LastDay,  \* bound: days of the calendar
  Window,   \* how many days back the second request goes
  Batch,    \* rates stored by one call
  Fixings,  \* the rates the provider publishes, 0 for none
  FxSyncs,  \* calls of sync
  NoTable   \* SQL NULL

Days == 1..LastDay
Currencies == Quotes \union {Base}
Tables == {"this", "other"}

ASSUME FxAssumption ==
  /\ LastDay \in Nat \ {0} /\ Window \in Nat /\ Batch \in Nat \ {0}
  /\ Fixings \in [Days -> [Quotes -> Nat]]
  /\ Base \notin Quotes /\ NoTable \notin Tables
  /\ IsFiniteSet(Quotes) /\ IsFiniteSet(FxSyncs)

VARIABLES
  today,      \* the calendar
  published,  \* what the provider shows
  stored,     \* the FxRate rows of the table
  table,      \* the rateCount in the FxRateTable row
  active,     \* the tenant's activeFxTableId
  fx,         \* a sync: what it does next and what it knows
  late,       \* history: days published late or out of order
  torn,       \* history: days that a sync left half stored
  choice,     \* history: the table an administrator chose last
  raced       \* history: the choice was made while a sync was to activate

fxHistory == <<late, torn, choice, raced>>
fxVars == <<today, published, stored, table, active, fx, fxHistory>>

NoRates == [d \in Days |-> [q \in Quotes |-> 0]]
NoFx == [step |-> "off", back |-> FALSE, queue |-> <<>>, recent |-> {},
         pending |-> {}, count |-> 0]

FxInit ==
  /\ today = 1
  /\ published = NoRates /\ stored = NoRates
  /\ table = 0
  /\ active = NoTable /\ choice = NoTable /\ raced = FALSE
  /\ fx = [s \in FxSyncs |-> NoFx]
  /\ late = {} /\ torn = {}

-----------------------------------------------------------------------------
(* The calendar, the provider and the administrator *)

FxRunning(s) == fx[s].step \notin {"off", "done", "stopped"}

NextDay ==
  /\ today < LastDay
  /\ today' = today + 1
  /\ UNCHANGED <<published, stored, table, active, fx, fxHistory>>

Shown(d) == \E q \in Quotes : published[d][q] # 0

(* A day's rates come at once; late is a day that comes after the window   *)
(* or after a later day.                                                   *)
Publish(d) ==
  /\ d <= today /\ ~Shown(d) /\ \E q \in Quotes : Fixings[d][q] # 0
  /\ published' = [published EXCEPT ![d] = Fixings[d]]
  /\ late' = IF d < today - Window \/ \E x \in Days : x > d /\ Shown(x)
             THEN late \union {d} ELSE late
  /\ UNCHANGED <<today, stored, table, active, fx, torn, choice, raced>>

(* Each rate is corrected once at most.                                    *)
Correct(d, q) ==
  /\ published[d][q] # 0 /\ published[d][q] = Fixings[d][q]
  /\ published' = [published EXCEPT ![d][q] = @ + 1]
  /\ UNCHANGED <<today, stored, table, active, fx, fxHistory>>

SetActive ==
  /\ \E t \in Tables : t # active /\ active' = t /\ choice' = t
  /\ raced' = \E s \in FxSyncs : fx[s].step = "activate"
  /\ UNCHANGED <<today, published, stored, table, fx, late, torn>>

-----------------------------------------------------------------------------
(* sync *)

HasRates(d) == \E q \in Quotes : stored[d][q] # 0
StoredDays == {d \in Days : HasRates(d)}
Rated(rates) == {x \in Days \X Quotes : rates[x[1]][x[2]] # 0}

NextRange(s, queue) ==
  fx' = [fx EXCEPT ![s].queue = queue,
                   ![s].back = FALSE,
                   ![s].pending = {},
                   ![s].step = IF queue = <<>> THEN "aggregate" ELSE "fetch"]

StartFxSync(s, back) ==
  /\ fx[s] = NoFx
  /\ fx' = [fx EXCEPT ![s].step = "plan", ![s].back = back]
  /\ UNCHANGED <<today, published, stored, table, active, fxHistory>>

After_SkipsOne(days) == {d \in 1..today : \A x \in days : x + 1 < d}

(* All days if none is stored.                                             *)
After(days) == {d \in 1..today : \A x \in days : x < d}

(* What to ask for: the days after the latest one; those before the        *)
(* earliest one, if told to; and once more the last days of the calendar.  *)
Plan(s) ==
  LET days == StoredDays
      after == After(days)
      before == {d \in 1..today : \A x \in days : d < x}
      window == {d \in 1..today : d >= today - Window}
  IN  /\ fx[s].step = "plan"
      /\ NextRange(s, (IF after # {} THEN <<after>> ELSE <<>>)
           \o (IF fx[s].back /\ days # {} /\ before # {} THEN <<before>>
               ELSE <<>>)
           \o <<window>>)
      /\ UNCHANGED <<today, published, stored, table, active, fxHistory>>

(* What the provider answers when it is asked for some days.               *)
Answer(days) ==
  {[day |-> x[1], quote |-> x[2], rate |-> published[x[1]][x[2]]] :
     x \in {y \in Rated(published) : y[1] \in days}}

Fetch(s) ==
  LET found == Answer(Head(fx[s].queue))
  IN  /\ fx[s].step = "fetch"
      /\ IF found = {}
         THEN NextRange(s, Tail(fx[s].queue))
         ELSE fx' = [fx EXCEPT
                ![s].step = "persist", ![s].pending = found,
                ![s].recent = IF Len(fx[s].queue) = 1 THEN found ELSE {}]
      /\ UNCHANGED <<today, published, stored, table, active, fxHistory>>

Smaller(a, b) == IF a < b THEN a ELSE b

Batches_ByQuote(pending) ==
  {b \in SUBSET pending :
     /\ Cardinality(b) = Smaller(Batch, Cardinality(pending))
     /\ \E q \in Quotes : \A x \in b : x.quote = q}

(* The rates stored next: the oldest ones.                                 *)
Batches(pending) ==
  {b \in SUBSET pending :
     /\ Cardinality(b) = Smaller(Batch, Cardinality(pending))
     /\ \A x \in b, y \in pending \ b : x.day <= y.day}

Insert_Upsert(batch) ==
  [d \in Days |-> [q \in Quotes |->
     LET new == {x \in batch : x.day = d /\ x.quote = q}
     IN  IF new # {} THEN (CHOOSE x \in new : TRUE).rate ELSE stored[d][q]]]

(* skipDuplicates: a rate that is there stays.                             *)
Insert(batch) ==
  [d \in Days |-> [q \in Quotes |->
     LET new == {x \in batch : x.day = d /\ x.quote = q}
     IN  IF stored[d][q] = 0 /\ new # {} THEN (CHOOSE x \in new : TRUE).rate
         ELSE stored[d][q]]]

Persist(s) ==
  /\ fx[s].step = "persist"
  /\ \E b \in Batches(fx[s].pending) :
       /\ stored' = Insert(b)
       /\ IF b = fx[s].pending
          THEN NextRange(s, Tail(fx[s].queue))
          ELSE fx' = [fx EXCEPT ![s].pending = @ \ b]
  /\ UNCHANGED <<today, published, table, active, fxHistory>>

Aggregate(s) ==
  /\ fx[s].step = "aggregate"
  /\ fx' = [fx EXCEPT ![s].count = Cardinality(Rated(stored)),
                      ![s].recent = {}, ![s].step = "stats"]
  /\ UNCHANGED <<today, published, stored, table, active, fxHistory>>

RefreshStats_Added(s) ==
  /\ fx[s].step = "stats"
  /\ table' = table + fx[s].count
  /\ fx' = [fx EXCEPT ![s].step = "look"]
  /\ UNCHANGED <<today, published, stored, active, fxHistory>>

RefreshStats(s) ==
  /\ fx[s].step = "stats"
  /\ table' = fx[s].count
  /\ fx' = [fx EXCEPT ![s].step = "look"]
  /\ UNCHANGED <<today, published, stored, active, fxHistory>>

LookForActive(s) ==
  /\ fx[s].step = "look"
  /\ fx' = [fx EXCEPT ![s] =
       [NoFx EXCEPT !.step = IF active = NoTable THEN "activate" ELSE "done"]]
  /\ UNCHANGED <<today, published, stored, table, active, fxHistory>>

Activate(s) ==
  /\ fx[s].step = "activate"
  /\ active' = "this"
  /\ fx' = [fx EXCEPT ![s].step = "done"]
  /\ UNCHANGED <<today, published, stored, table, fxHistory>>

(* The days that a sync that ends here had in hand and leaves behind.      *)
Torn(s) == {x.day : x \in {y \in fx[s].pending :
                             \E d \in StoredDays : y.day <= d}}

(* It throws, which is noted in the row of the table, or the server stops. *)
StopFx(s) ==
  /\ FxRunning(s)
  /\ torn' = torn \union Torn(s)
  /\ fx' = [fx EXCEPT ![s] = [NoFx EXCEPT !.step = "stopped"]]
  /\ UNCHANGED <<today, published, stored, table, active, late, choice, raced>>

FxStep(s) ==
  \/ Plan(s) \/ Fetch(s) \/ Persist(s) \/ Aggregate(s) \/ RefreshStats(s)
  \/ LookForActive(s) \/ Activate(s) \/ StopFx(s)

FxNext ==
  \/ NextDay \/ SetActive
  \/ \E d \in Days : Publish(d) \/ \E q \in Quotes : Correct(d, q)
  \/ \E s \in FxSyncs : \/ FxStep(s)
                        \/ \E back \in BOOLEAN : StartFxSync(s, back)

FxSpec == FxInit /\ [][FxNext]_fxVars

-----------------------------------------------------------------------------
(* convertOne *)

Latest(S) == CHOOSE d \in S : \A x \in S : x <= d

(* The day and the rate a conversion as of day d takes for a currency; day *)
(* 0 when there is none.                                                   *)
RateOnOrBefore(c, d) ==
  LET before == {x \in 1..d : stored[x][c] # 0}
  IN  IF c = Base THEN [day |-> d, rate |-> 1]
      ELSE IF before = {} THEN [day |-> 0, rate |-> 0]
      ELSE [day |-> Latest(before), rate |-> stored[Latest(before)][c]]

(* Math.round of n / m: halves go up, also below zero.                     *)
Round(n, m) == (2 * n + m) \div (2 * m)

Convert(amount, f, t) == Round(amount * t, f)

(* A conversion that cannot be made hands the amount back as it is.        *)
ConvertOne(amount, from, to, d) ==
  LET f == RateOnOrBefore(from, d)
      t == RateOnOrBefore(to, d)
  IN  CASE from = to -> [amount |-> amount, day |-> d, converted |-> TRUE]
        [] from # to /\ (f.day = 0 \/ t.day = 0) ->
             [amount |-> amount, day |-> 0, converted |-> FALSE]
        [] OTHER -> [amount |-> Convert(amount, f.rate, t.rate),
                     day |-> Smaller(f.day, t.day), converted |-> TRUE]

-----------------------------------------------------------------------------
(* Properties *)

FxSteps == {"off", "plan", "fetch", "persist", "aggregate", "stats", "look",
            "activate", "done", "stopped"}
Rate == [day : Days, quote : Quotes, rate : Nat]

(* The types of the variables.                                             *)
FxTypeOK ==
  /\ today \in Days
  /\ published \in [Days -> [Quotes -> Nat]]
  /\ stored \in [Days -> [Quotes -> Nat]]
  /\ table \in Nat
  /\ active \in Tables \union {NoTable} /\ choice \in Tables \union {NoTable}
  /\ fx \in [FxSyncs -> [step : FxSteps, back : BOOLEAN,
                         queue : Seq(SUBSET Days), recent : SUBSET Rate,
                         pending : SUBSET Rate, count : Nat]]
  /\ late \subseteq Days /\ torn \subseteq Days
  /\ raced \in BOOLEAN

(* The history has no holes behind its latest day but for a reason: the    *)
(* provider was late with the day, or a sync that had it in hand ended; a  *)
(* sync that is under way may still bring it.                              *)
HolesHaveAReason ==
  \A d \in Days, q \in Quotes :
    /\ published[d][q] # 0 /\ stored[d][q] = 0
    /\ \E x \in Days : x > d /\ HasRates(x)
    => \/ d \in late \union torn
       \/ \E s \in FxSyncs : \E p \in fx[s].pending : p.day = d /\ p.quote = q

(* The two rates of a cross rate are looked up on their own, each the      *)
(* latest on or before the date.  They are of different days where the     *)
(* provider left out one of the currencies, and otherwise on one day for   *)
(* each sync, which it had half stored when it was looked at or ended.     *)
CrossOfOneDay ==
  LET mixed == {d \in Days : \E f, t \in Quotes :
                  /\ RateOnOrBefore(f, d).day = d
                  /\ RateOnOrBefore(t, d).day < d
                  /\ published[d][t] # 0}
  IN  Cardinality(mixed) <= Cardinality({s \in FxSyncs : fx[s].step # "off"})

(* An amount that was once converted at the rates of the very day stays    *)
(* what it was, however often the table is synced after that.              *)
ReportsStand ==
  [][stored' # stored =>
       \A d \in Days, f, t \in Currencies :
         LET report == ConvertOne(7, f, t, d)
         IN  f # t /\ report.converted /\ report.day = d
               => ConvertOne(7, f, t, d)' = report
    ]_fxVars

(* The statistics of a table lag behind its rates and never lead.  A table *)
(* that became the active one by itself does not replace the one that an   *)
(* administrator chose, but for a sync that had looked before the choice.  *)
TableIsTruthful ==
  /\ table <= Cardinality(Rated(stored))
  /\ choice # NoTable => active = choice \/ raced

(* A sync that is through has stored what it was shown of the last days,   *)
(* also what was published again or corrected.                             *)
CorrectionsArrive ==
  \A s \in FxSyncs :
    fx[s].step = "aggregate" =>
      \A x \in fx[s].recent : stored[x.day][x.quote] = x.rate
=============================================================================
