-------------------------- MODULE ChurnPipeline_proofs --------------------------
(***************************************************************************)
(* Proofs about the churn example, for every file of customers with a key,  *)
(* any numbers of replicas and runs, and whatever tables the augmentation   *)
(* left: the ETL notebook keeps each customer, in one row, or in two if the *)
(* internet features say so twice; from tables of one run it reconstitutes  *)
(* the source; and the calendar finds the senior citizens, on every day.    *)
(***************************************************************************)
EXTENDS ChurnPipeline, DataLemmas

AtMostOne(S) == \A x, y \in S : x = y

\* A table has one row for each customer, at most.
HasKey(table) == \A x, y \in table : x.customerID = y.customerID => x = y

\* A table in long form has one value for each customer and feature, at most.
IsTidy(table) ==
  \A x, y \in table : x.customerID = y.customerID /\ x.feature = y.feature => x.value = y.value

ServiceRow(id, v, k) ==
  [customerID |-> id, feature |-> "InternetService", value |-> v, copy |-> k]

\* Of a customer the table has no row of InternetService, one row, or two that say "Yes".
TwiceIfYes(table) ==
  \A id : LET rows == Etl!UntidyRows(table, id, "InternetService")
          IN \/ rows = {}
             \/ \E v : v # "Yes" /\ rows = {ServiceRow(id, v, 1)}
             \/ rows = {ServiceRow(id, "Yes", 1), ServiceRow(id, "Yes", 2)}

\* A customer leaves once, at most.
LeaveOnce(billing) ==
  \A x, y \in billing :
    x.customerID = y.customerID /\ x.kind = "AccountTermination"
      /\ y.kind = "AccountTermination" => x = y

-----------------------------------------------------------------------------
(* The calendar.                                                            *)

\* Days of the year before a month; before the 13th, all of them.
Leap(year) == IF year % 4 = 0 THEN 1 ELSE 0
Start(m, leap) ==
  IF m = 13 THEN 365 + leap
  ELSE <<0, 31, 59, 90, 120, 151, 181, 212, 243, 273, 304, 334>>[m] + (IF m > 2 THEN leap ELSE 0)

\* The day of the year, from 0.
InYear(day) == day - Calendar!YearStart(Calendar!YearOf(day))

\* A year has the days from 0 to 364, or to 365.
LEMMA YearHasDay ==
  ASSUME NEW day \in Int
  PROVE  Calendar!YearOf(day) \in Int /\ InYear(day) \in 0 .. 364 + Leap(Calendar!YearOf(day))
BY DEF Calendar!YearOf, Calendar!YearStart, Leap, InYear

LEMMA StartIs ==
  ASSUME NEW leap \in {0, 1}
  PROVE  /\ Start(1, leap) = 0 /\ Start(2, leap) = 31 /\ Start(3, leap) = 59 + leap
         /\ Start(4, leap) = 90 + leap /\ Start(5, leap) = 120 + leap
         /\ Start(6, leap) = 151 + leap /\ Start(7, leap) = 181 + leap
         /\ Start(8, leap) = 212 + leap /\ Start(9, leap) = 243 + leap
         /\ Start(10, leap) = 273 + leap /\ Start(11, leap) = 304 + leap
         /\ Start(12, leap) = 334 + leap /\ Start(13, leap) = 365 + leap
BY DEF Start

LEMMA MonthStartIs ==
  ASSUME NEW year \in Int, NEW m \in 1 .. 12
  PROVE  Calendar!MonthStart(year, m) = Start(m, Leap(year))
BY DEF Calendar!MonthStart, Start, Leap, Calendar!IsLeap

\* The month a day of the year is in.
IsMonth(m, i, leap) == Start(m, leap) <= i /\ i < Start(m + 1, leap)

LEMMA MonthExists ==
  ASSUME NEW leap \in {0, 1}, NEW i \in 0 .. 364 + leap
  PROVE  \E m \in 1 .. 12 : IsMonth(m, i, leap)
<1>1. \A m \in 1 .. 12 : IsMonth(m, i, leap) <=> Start(m, leap) <= i /\ i < Start(m + 1, leap)
  BY DEF IsMonth
<1>2. /\ 1 + 1 = 2 /\ 2 + 1 = 3 /\ 3 + 1 = 4 /\ 4 + 1 = 5 /\ 5 + 1 = 6 /\ 6 + 1 = 7
      /\ 7 + 1 = 8 /\ 8 + 1 = 9 /\ 9 + 1 = 10 /\ 10 + 1 = 11 /\ 11 + 1 = 12 /\ 12 + 1 = 13
  OBVIOUS
<1> SUFFICES ASSUME \A m \in 1 .. 12 : ~IsMonth(m, i, leap) PROVE FALSE
  OBVIOUS
<1>3. /\ ~IsMonth(1, i, leap) /\ ~IsMonth(2, i, leap) /\ ~IsMonth(3, i, leap)
      /\ ~IsMonth(4, i, leap) /\ ~IsMonth(5, i, leap) /\ ~IsMonth(6, i, leap)
      /\ ~IsMonth(7, i, leap) /\ ~IsMonth(8, i, leap) /\ ~IsMonth(9, i, leap)
      /\ ~IsMonth(10, i, leap) /\ ~IsMonth(11, i, leap) /\ ~IsMonth(12, i, leap)
  OBVIOUS
<1> QED
  BY <1>1, <1>2, <1>3, StartIs

\* What DateOf makes of a day.
IsDateOf(date, day) ==
  LET leap == Leap(Calendar!YearOf(day))
  IN /\ date = [year |-> Calendar!YearOf(day), month |-> date.month, day |-> date.day]
     /\ date.month \in 1 .. 12 /\ IsMonth(date.month, InYear(day), leap)
     /\ date.day = 1 + InYear(day) - Start(date.month, leap)

LEMMA DateOfDay == ASSUME NEW day \in Int PROVE IsDateOf(Calendar!DateOf(day), day)
<1> DEFINE y == Calendar!YearOf(day)
           i == InYear(day)
           leap == Leap(y)
           P(m) == /\ Calendar!MonthStart(y, m) <= i
                   /\ m = 12 \/ i < Calendar!MonthStart(y, m + 1)
           month == CHOOSE m \in 1 .. 12 : P(m)
<1>1. y \in Int /\ i \in 0 .. 364 + leap /\ leap \in {0, 1}
  BY YearHasDay DEF Leap
<1>2. Calendar!DateOf(day) =
        [year |-> y, month |-> month, day |-> 1 + i - Calendar!MonthStart(y, month)]
  BY DEF Calendar!DateOf, InYear
<1> HIDE DEF y, i, leap
<1>3. \A m \in 1 .. 12 : Calendar!MonthStart(y, m) = Start(m, leap)
  BY <1>1, MonthStartIs DEF leap
<1>4. ASSUME NEW m \in 1 .. 12 PROVE P(m) <=> IsMonth(m, i, leap)
  <2>1. CASE m = 12
    BY <1>1, <1>3, <2>1, StartIs DEF IsMonth
  <2>2. CASE m # 12
    <3>1. m + 1 \in 1 .. 12
      BY <2>2
    <3> QED
      BY <1>3, <2>2, <3>1 DEF IsMonth
  <2> QED
    BY <2>1, <2>2
<1>5. \E m \in 1 .. 12 : P(m)
  BY <1>1, <1>4, MonthExists
<1> HIDE DEF P
<1>6. month \in 1 .. 12 /\ P(month)
  BY <1>5
<1> HIDE DEF month
<1>7. IsMonth(month, i, leap) /\ Calendar!MonthStart(y, month) = Start(month, leap)
  BY <1>3, <1>4, <1>6
<1> QED
  BY <1>2, <1>6, <1>7 DEF IsDateOf, y, i, leap

LEMMA MonthOfDay == ASSUME NEW day \in Int PROVE Calendar!MonthOf(day) \in Int
BY DateOfDay, YearHasDay DEF IsDateOf, Calendar!MonthOf

LEMMA SameCalendar ==
  ASSUME NEW d
  PROVE  Etl!Calendar!DateOf(d) = Calendar!DateOf(d)
BY DEF Etl!Calendar!DateOf, Calendar!DateOf, Etl!Calendar!YearOf, Calendar!YearOf,
       Etl!Calendar!YearStart, Calendar!YearStart, Etl!Calendar!MonthStart, Calendar!MonthStart,
       Etl!Calendar!IsLeap, Calendar!IsLeap

LEMMA StartsGrow ==
  ASSUME NEW leap \in {0, 1}, NEW j \in 1 .. 13, NEW k \in j .. 13
  PROVE  Start(j, leap) <= Start(k, leap)
<1>1. k \in 1 .. 13
  OBVIOUS
<1>2. ASSUME NEW m \in 1 .. 13
      PROVE  m \in {1, 2, 3, 4, 5, 6, 7, 8, 9, 10, 11, 12, 13}
  BY <1>2
<1> QED
  BY <1>1, <1>2, StartIs

\* The same day of the year, or a later one, is not before the same date, if the other
\* year is not a leap year; if it is, it is a day later.
LEMMA DatesInOrder ==
  ASSUME NEW leap \in {0, 1}, NEW other \in {0, 1}, leap + other <= 1,
         NEW m \in 1 .. 12, NEW i \in Int, IsMonth(m, i, leap),
         NEW k \in 1 .. 12, NEW j \in Int, IsMonth(k, j, other), j >= i + other
  PROVE  m <= k /\ (m = k => j - Start(k, other) >= i - Start(m, leap))
<1>1. Start(m, leap) <= i /\ i < Start(m + 1, leap) /\ Start(k, other) <= j /\ j < Start(k + 1, other)
  BY DEF IsMonth
<1>2. \A x \in 1 .. 13, l \in {0, 1} : Start(x, l) = Start(x, 0) + (IF x > 2 THEN l ELSE 0) /\ Start(x, 0) \in Int
  BY DEF Start
<1>3. m \in 1 .. 13 /\ k \in 1 .. 13 /\ k + 1 \in 1 .. 13 /\ m + 1 \in 1 .. 13
  OBVIOUS
<1>4. m <= k
  <2> SUFFICES ASSUME k < m PROVE FALSE
    OBVIOUS
  <2>1. m \in k + 1 .. 13
    OBVIOUS
  <2>2. Start(k + 1, other) <= Start(m, other)
    BY <1>3, <2>1, StartsGrow
  <2> QED
    BY <1>1, <1>2, <1>3, <2>2
<1> QED
  BY <1>1, <1>2, <1>3, <1>4

\* is_senior_citizen by calendar arithmetic.
SeniorOn(day, birth) ==
  ~Etl!Calendar!Before(Etl!Calendar!DateOf(day),
                       Etl!Calendar!AddYears(Etl!Calendar!DateOf(birth), Etl!SeniorAge))

\* 65 years are 23741 or 23742 days; 64 years are 23376.
LEMMA SeniorByCalendar ==
  ASSUME NEW day \in Int, NEW years \in Int
  PROVE  /\ years >= 23742 => SeniorOn(day, day - years)
         /\ years <= 23375 => ~SeniorOn(day, day - years)
<1> DEFINE birth == day - years
           n == Calendar!DateOf(day)
           d == Calendar!DateOf(birth)
           y == Calendar!YearOf(birth)
           z == Calendar!YearOf(day)
           i == InYear(birth)
           j == InYear(day)
           IsSenior == SeniorOn(day, birth)
           anniversary == IF d.month = 2 /\ d.day = 29 /\ Leap(y + 65) = 0 THEN 28 ELSE d.day
<1>1. birth \in Int
  OBVIOUS
<1>2. IsDateOf(n, day) /\ IsDateOf(d, birth)
  BY <1>1, DateOfDay
<1>3. y \in Int /\ z \in Int /\ i \in 0 .. 364 + Leap(y) /\ j \in 0 .. 364 + Leap(z)
  BY <1>1, YearHasDay
<1> HIDE DEF n, d
<1>10. /\ n.year = z /\ n.month \in 1 .. 12 /\ n.day \in Int
       /\ d = [year |-> y, month |-> d.month, day |-> d.day]
       /\ d.year = y /\ d.month \in 1 .. 12 /\ d.day \in Int
  <2>1. /\ n.year = z /\ n.month \in 1 .. 12 /\ n.day = 1 + j - Start(n.month, Leap(z))
        /\ d = [year |-> y, month |-> d.month, day |-> d.day]
        /\ d.year = y /\ d.month \in 1 .. 12 /\ d.day = 1 + i - Start(d.month, Leap(y))
    BY <1>2 DEF IsDateOf
  <2> HIDE DEF y, z, i, j
  <2>2. Leap(y) \in {0, 1} /\ Leap(z) \in {0, 1}
    BY DEF Leap
  <2>3. Start(n.month, Leap(z)) \in Int /\ Start(d.month, Leap(y)) \in Int
    BY <2>1, <2>2 DEF Start
  <2> QED
    BY <1>3, <2>1, <2>3
<1>4. IsSenior <=>
        ~(\/ z < y + 65
          \/ z = y + 65 /\ n.month < d.month
          \/ z = y + 65 /\ n.month = d.month /\ n.day < anniversary)
  <2> DEFINE e == [year |-> y + 65, month |-> d.month, day |-> anniversary]
  <2>1. (Leap(y + 65) = 0) <=> ~Etl!Calendar!IsLeap(y + 65)
    BY DEF Leap, Etl!Calendar!IsLeap
  <2> HIDE DEF y, z
  <2>2. Etl!Calendar!AddYears(d, 65) = e
    <3>1. Etl!Calendar!AddYears(d, 65) =
            [d EXCEPT !.year = d.year + 65, !.day = anniversary]
      BY <1>10, <2>1 DEF Etl!Calendar!AddYears
    <3> QED
      BY <1>10, <3>1
  <2>3. IsSenior <=>
          ~Etl!Calendar!Before(n, Etl!Calendar!AddYears(d, 65))
    BY SameCalendar DEF SeniorOn, Etl!SeniorAge, n, d
  <2>4. e.year = y + 65 /\ e.month = d.month /\ e.day = anniversary
    OBVIOUS
  <2> HIDE DEF e, anniversary, IsSenior
  <2> QED
    BY <1>10, <2>2, <2>3, <2>4 DEF Etl!Calendar!Before
<1>5. years <= 23375 => z < y + 65
  BY DEF Calendar!YearOf
<1>6. years >= 23742 => z >= y + 65
  BY DEF Calendar!YearOf
<1>7. z = y + 65 => /\ Leap(y) + Leap(z) <= 1
                    /\ Calendar!YearStart(z) - Calendar!YearStart(y) = 23741 + Leap(y)
  BY <1>3 DEF Leap, Calendar!YearStart
<1>8. ASSUME years >= 23742, z = y + 65 PROVE j >= i + Leap(z)
  <2>1. j - i = years - (Calendar!YearStart(z) - Calendar!YearStart(y))
    BY <1>3 DEF InYear, Calendar!YearStart
  <2> QED
    BY <1>3, <1>7, <1>8, <2>1 DEF Leap
<1>9. ASSUME years >= 23742, z = y + 65
      PROVE  d.month <= n.month /\ (d.month = n.month => n.day >= d.day)
  <2>1. /\ n.month \in 1 .. 12 /\ IsMonth(n.month, j, Leap(z))
        /\ n.day = 1 + j - Start(n.month, Leap(z))
        /\ d.month \in 1 .. 12 /\ IsMonth(d.month, i, Leap(y))
        /\ d.day = 1 + i - Start(d.month, Leap(y))
    BY <1>2 DEF IsDateOf
  <2>2. Leap(y) \in {0, 1} /\ Leap(z) \in {0, 1} /\ i \in Int /\ j \in Int
    BY <1>3 DEF Leap
  <2> HIDE DEF n, d, y, z, i, j
  <2>3. d.month <= n.month
        /\ (d.month = n.month => j - Start(n.month, Leap(z)) >= i - Start(d.month, Leap(y)))
    BY <1>7, <1>8, <1>9, <2>1, <2>2, DatesInOrder, SMTT(30)
  <2>4. Start(n.month, Leap(z)) \in Int /\ Start(d.month, Leap(y)) \in Int
    BY <2>1, <2>2 DEF Start
  <2> QED
    BY <2>1, <2>2, <2>3, <2>4
<1>11. anniversary \in Int /\ anniversary <= d.day
  BY <1>10
<1> HIDE DEF y, z, anniversary, IsSenior
<1>12. ASSUME years <= 23375 PROVE ~IsSenior
  BY <1>4, <1>5, <1>12
<1>13. ASSUME years >= 23742 PROVE IsSenior
  <2>1. z \in Int /\ y \in Int /\ z >= y + 65
    BY <1>3, <1>6, <1>13
  <2>2. CASE z = y + 65
    <3>1. d.month <= n.month /\ (d.month = n.month => n.day >= d.day)
      BY <1>9, <1>13, <2>2
    <3>2. ~(z < y + 65) /\ ~(n.month < d.month)
      BY <1>10, <2>1, <2>2, <3>1
    <3>3. n.month = d.month => ~(n.day < anniversary)
      BY <1>10, <1>11, <3>1
    <3> QED
      BY <1>4, <3>2, <3>3
  <2>3. CASE z # y + 65
    BY <1>4, <2>1, <2>3
  <2> QED
    BY <2>2, <2>3
<1> QED
  <2>1. (years >= 23742 => IsSenior) /\ (years <= 23375 => ~IsSenior)
    BY <1>12, <1>13
  <2> QED
    BY <2>1 DEF IsSenior, birth

LEMMA SameCard == ASSUME NEW S PROVE Etl!Cardinality(S) = Cardinality(S)
BY DEF Etl!Cardinality, Cardinality

-----------------------------------------------------------------------------
(* The joins.                                                               *)

LEMMA OrNullAtMostOne == ASSUME NEW S, AtMostOne(S) PROVE AtMostOne(Etl!OrNull(S))
BY DEF AtMostOne, Etl!OrNull

LEMMA UntidyAtMostOne ==
  ASSUME NEW table, IsTidy(table), NEW id, NEW name
  PROVE  AtMostOne(Etl!OrNull(Etl!UntidyFeature(table, id, name)))
BY OrNullAtMostOne DEF AtMostOne, IsTidy, Etl!UntidyFeature, Etl!UntidyRows, Etl!Of

LEMMA JoinBillingDataKey ==
  ASSUME NEW billing, LeaveOnce(billing)
  PROVE  HasKey(Etl!JoinBillingData(billing))
<1> DEFINE Left(id) == {e.customerID : e \in
                          {e \in Etl!Of(billing, id) : e.kind = "AccountTermination"}}
           Charged(id) == {e \in Etl!Of(billing, id) : e.kind = "Charge"}
           Row(id, e) == [customerID |-> id, Churn |-> e # Null,
                          tenure |-> Etl!Cardinality(Charged(id)),
                          TotalCharges |-> Etl!SumOfValues(Charged(id))]
<1>1. \A id : AtMostOne(Etl!OrNull(Left(id)))
  BY OrNullAtMostOne DEF AtMostOne, LeaveOnce, Etl!Of
<1>2. \A x \in Etl!JoinBillingData(billing) :
        \E id : \E e \in Etl!OrNull(Left(id)) : x = Row(id, e)
  BY DEF Etl!JoinBillingData
<1> HIDE DEF Left, Charged
<1> QED
  BY <1>1, <1>2 DEF HasKey, AtMostOne

LEMMA JoinPhoneFeaturesKey ==
  ASSUME NEW phone, IsTidy(phone), NEW ids
  PROVE  HasKey(Etl!JoinPhoneFeatures(phone, ids))
BY UntidyAtMostOne DEF HasKey, AtMostOne, Etl!JoinPhoneFeatures

LEMMA JoinAccountFeaturesKey ==
  ASSUME NEW account, IsTidy(account), NEW ids
  PROVE  HasKey(Etl!JoinAccountFeatures(account, ids))
BY UntidyAtMostOne DEF HasKey, AtMostOne, Etl!JoinAccountFeatures

\* The rows of a table are as many as those of M they are matched to.
MatchedTo(table, M) ==
  /\ \A x \in table : x.match \in M
  /\ \A n \in M : \E x \in table : x.match = n
  /\ \A x, y \in table : x.match = y.match => x = y

WideMatchedTo(table, M) ==
  /\ \A x \in table : x.internet.match \in M
  /\ \A n \in M : \E x \in table : x.internet.match = n
  /\ \A x, y \in table : x.internet.match = y.internet.match => x = y

ServiceMatches(internet, id) ==
  Etl!OrRowOfNulls(Etl!UntidyRows(internet, id, "InternetService"))

\* A customer's rows are those of its InternetService: a feature has one value, at most.
LEMMA JoinInternetFeaturesRows ==
  ASSUME NEW internet, IsTidy(internet), NEW ids, NEW id \in ids
  PROVE  MatchedTo(Etl!Of(Etl!JoinInternetFeatures(internet, ids), id),
                   ServiceMatches(internet, id))
<1> DEFINE J == Etl!JoinInternetFeatures(internet, ids)
           Values(i, name) == Etl!OrNull(Etl!UntidyFeature(internet, i, name))
           AddOns(i) == {f \in [AddOn -> UNION {Values(i, a) : a \in AddOn}] :
                           \A a \in AddOn : f[a] \in Values(i, a)}
           Row(i, match, addOn) ==
             [customerID |-> i, match |-> match,
              InternetService |-> Etl!ResolveNullable(match.value),
              addOn |-> [a \in AddOn |-> Etl!ResolveDependent(addOn[a], match.value)]]
<1>1. \A y : y \in J <=> \E i \in ids : \E match \in ServiceMatches(internet, i),
                           addOn \in AddOns(i) : y = Row(i, match, addOn)
  BY DEF Etl!JoinInternetFeatures, ServiceMatches
<1>2. \A name : AtMostOne(Values(id, name)) /\ Values(id, name) # {}
  BY UntidyAtMostOne DEF Etl!OrNull
<1> HIDE DEF Values, J
<1>3. AddOns(id) # {}
  <2> DEFINE f == [a \in AddOn |-> CHOOSE v : v \in Values(id, a)]
  <2>1. \A a \in AddOn : f[a] \in Values(id, a)
    BY <1>2
  <2>2. f \in [AddOn -> UNION {Values(id, a) : a \in AddOn}]
    BY <2>1
  <2> HIDE DEF f
  <2> QED
    BY <2>1, <2>2
<1>4. \A f, g \in AddOns(id) : f = g
  BY <1>2 DEF AtMostOne
<1>5. \A i, match, addOn : Row(i, match, addOn).customerID = i /\ Row(i, match, addOn).match = match
  OBVIOUS
<1> HIDE DEF AddOns, Row
<1>6. \A x : x \in Etl!Of(J, id) <=> \E match \in ServiceMatches(internet, id), addOn \in AddOns(id) :
                                     x = Row(id, match, addOn)
  BY <1>1, <1>5 DEF Etl!Of
<1> QED
  BY <1>3, <1>4, <1>5, <1>6 DEF MatchedTo, J

LEMMA ProcessAccountMetaKey ==
  ASSUME NEW meta, HasKey(meta), NEW calendar
  PROVE  HasKey(Etl!ProcessAccountMeta(meta, calendar))
BY DEF HasKey, Etl!ProcessAccountMeta

\* The rows of the wide table are those of the internet features, if the other tables have
\* keys; and left outer joins keep every customer.
LEMMA JoinWideTableRows ==
  ASSUME NEW ids, NEW b, NEW p, NEW i, NEW a, NEW m,
         HasKey(b), HasKey(p), HasKey(a), HasKey(m),
         NEW internet, \A id \in ids : MatchedTo(Etl!Of(i, id), ServiceMatches(internet, id)),
         NEW T, T = Etl!JoinWideTable(ids, b, p, i, a, m)
  PROVE  /\ {row.customerID : row \in T} = ids
         /\ \A id \in ids : WideMatchedTo({row \in T : row.customerID = id},
                                          ServiceMatches(internet, id))
<1> DEFINE W(id) == {row \in T : row.customerID = id}
           Matches(t, id) == Etl!OrNull(Etl!Of(t, id))
           Row(id, vb, vp, vi, va, vm) ==
             [customerID |-> id, billing |-> vb, phone |-> vp, internet |-> vi,
              account |-> va, meta |-> vm]
<1>1. \A t : HasKey(t) => \A id : AtMostOne(Matches(t, id))
  BY OrNullAtMostOne DEF AtMostOne, HasKey, Etl!Of
<1>2. \A t, id : Matches(t, id) # {}
  BY DEF Etl!OrNull
<1>3. \A id \in ids : Matches(i, id) = Etl!Of(i, id)
  <2> TAKE id \in ids
  <2>1. \E n : n \in ServiceMatches(internet, id)
    BY DEF ServiceMatches, Etl!OrRowOfNulls
  <2>2. Etl!Of(i, id) # {}
    BY <2>1 DEF MatchedTo
  <2> QED
    BY <2>2 DEF Etl!OrNull
<1>4. \A x : x \in T <=>
        \E id \in ids : \E vb \in Matches(b, id), vp \in Matches(p, id), vi \in Matches(i, id),
           va \in Matches(a, id), vm \in Matches(m, id) : x = Row(id, vb, vp, vi, va, vm)
  BY DEF Etl!JoinWideTable
<1>5. \A id, vb, vp, vi, va, vm : /\ Row(id, vb, vp, vi, va, vm).customerID = id
                                 /\ Row(id, vb, vp, vi, va, vm).internet = vi
  OBVIOUS
<1> HIDE DEF Matches, Row
<1>6. ASSUME NEW id \in ids
      PROVE  \A x : x \in W(id) <=>
               \E vb \in Matches(b, id), vp \in Matches(p, id), vi \in Etl!Of(i, id),
                  va \in Matches(a, id), vm \in Matches(m, id) : x = Row(id, vb, vp, vi, va, vm)
  BY <1>3, <1>4, <1>5
<1> HIDE DEF W
<1>7. ASSUME NEW id \in ids, NEW x \in W(id) PROVE x.internet \in Etl!Of(i, id)
  BY <1>5, <1>6
<1>8. ASSUME NEW id \in ids, NEW x \in W(id), NEW y \in W(id), x.internet = y.internet PROVE x = y
  BY <1>1, <1>5, <1>6, <1>8 DEF AtMostOne
<1>9. ASSUME NEW id \in ids, NEW vi \in Etl!Of(i, id) PROVE \E x \in W(id) : x.internet = vi
  <2>1. PICK vb \in Matches(b, id), vp \in Matches(p, id), va \in Matches(a, id),
             vm \in Matches(m, id) : TRUE
    BY <1>2
  <2>2. Row(id, vb, vp, vi, va, vm) \in W(id)
    BY <1>6, <2>1
  <2> QED
    BY <1>5, <2>2
<1>10. {row.customerID : row \in T} = ids
  <2>1. \A x \in T : x.customerID \in ids
    BY <1>4, <1>5
  <2>2. ASSUME NEW id \in ids PROVE \E x \in T : x.customerID = id
    <3>1. PICK vi : vi \in Etl!Of(i, id)
      BY <1>2, <1>3
    <3>2. PICK x \in W(id) : TRUE
      BY <1>9, <3>1
    <3> QED
      BY <3>2 DEF W
  <2> QED
    BY <2>1, <2>2
<1>11. ASSUME NEW id \in ids PROVE WideMatchedTo(W(id), ServiceMatches(internet, id))
  <2>1. MatchedTo(Etl!Of(i, id), ServiceMatches(internet, id))
    OBVIOUS
  <2>2. \A x \in W(id) : x.internet.match \in ServiceMatches(internet, id)
    BY <1>7, <2>1 DEF MatchedTo
  <2>3. \A n \in ServiceMatches(internet, id) : \E x \in W(id) : x.internet.match = n
    BY <1>9, <2>1 DEF MatchedTo
  <2>4. \A x, y \in W(id) : x.internet.match = y.internet.match => x = y
    BY <1>7, <1>8, <2>1 DEF MatchedTo
  <2> QED
    BY <2>2, <2>3, <2>4 DEF WideMatchedTo
<1> QED
  BY <1>10, <1>11 DEF W

\* A customer has as many rows as there are rows its own are matched to.
LEMMA MatchesCount ==
  ASSUME NEW W, NEW u, NEW v, WideMatchedTo(W, {u, v})
  PROVE  Cardinality(W) = IF u = v THEN 1 ELSE 2
<1>1. PICK x \in W : x.internet.match = u
  BY DEF WideMatchedTo
<1>2. PICK y \in W : y.internet.match = v
  BY DEF WideMatchedTo
<1>3. W = {x} \cup {y} /\ (x = y <=> u = v)
  BY <1>1, <1>2 DEF WideMatchedTo
<1>4. IsFiniteSet({x}) /\ Cardinality({x}) = 1
  BY FS_Singleton
<1>5. x # y => Cardinality({x} \cup {y}) = 2
  BY <1>4, FS_AddElement
<1>6. x = y => {x} \cup {y} = {x}
  OBVIOUS
<1> QED
  BY <1>3, <1>4, <1>5, <1>6

-----------------------------------------------------------------------------
(* The tables.                                                              *)

InputInv == file \in Files /\ now \in Int /\ age \in Ages

OptionsInv == cell # TopCell => options.dup_times \in DupTimes

LEMMA ReplicasHaveKey ==
  ASSUME InputInv, NEW dup
  PROVE  /\ HasKey(ReplicateDf(df, dup))
         /\ \A row \in ReplicateDf(df, dup) :
              \E s \in df, r \in Uniques(dup) : row.customerID = CustomerID(s, r)
BY ChurnPipelineAssumption DEF InputInv, HasKey, ReplicateDf, CustomerID, df, LoadSuppliedData

LEMMA CustomerMetaKey == ASSUME InputInv, NEW dup PROVE HasKey(CustomerMeta(df, dup, age, now))
BY ReplicasHaveKey DEF HasKey, CustomerMeta

IsTidySource(table) ==
  \A x \in table : {"customerID", "feature", "value"} \subseteq DOMAIN x

\* Replicas of a table in long form are in long form.
LEMMA ReplicateTidy ==
  ASSUME NEW table, IsTidy(table), IsTidySource(table), NEW dup
  PROVE  IsTidy(ReplicateDf(table, dup))
<1>1. \A x \in ReplicateDf(table, dup) : \E y \in table, r \in Uniques(dup) :
        x.customerID = <<y.customerID, r>> /\ x.feature = y.feature /\ x.value = y.value
  BY DEF ReplicateDf, CustomerID, IsTidySource
<1> QED
  BY <1>1 DEF IsTidy

LEMMA FeatureRows ==
  ASSUME NEW column, NEW name, NEW kept, NEW x \in Feature(column, name, kept)
  PROVE  /\ DOMAIN x = {"customerID", "feature", "value"}
         /\ \E row \in DOMAIN column :
              /\ x.customerID = row.customerID /\ x.feature = name
              /\ x.value = column[row] /\ x.value \in kept
BY DEF Feature

LEMMA PhoneFeaturesTidy == IsTidy(PhoneFeatures(df)) /\ IsTidySource(PhoneFeatures(df))
<1>1. \A x \in PhoneFeatures(df) :
        DOMAIN x = {"customerID", "feature", "value"} /\ x.value = "Yes"
  BY FeatureRows DEF PhoneFeatures, Yes
<1> QED
  BY <1>1 DEF IsTidy, IsTidySource

\* The rows of InternetFeatures, but for the copy, are those of the features.
LEMMA CopiedRows ==
  ASSUME NEW k, NEW rows, NEW x \in Copied(k, rows)
  PROVE  /\ DOMAIN x = {"customerID", "feature", "value", "copy"}
         /\ \E y \in rows : /\ x.customerID = y.customerID /\ x.feature = y.feature
                            /\ x.value = y.value
BY DEF Copied

LEMMA InternetFeaturesTidy ==
  ASSUME InputInv PROVE IsTidy(InternetFeatures(df)) /\ IsTidySource(InternetFeatures(df))
<1>1. \A s, t \in df : s.customerID = t.customerID => s = t
  BY ChurnPipelineAssumption DEF InputInv, df, LoadSuppliedData
<1>2. ASSUME NEW x \in InternetFeatures(df)
      PROVE  /\ {"customerID", "feature", "value"} \subseteq DOMAIN x
             /\ \/ x.feature \in AddOn /\ x.value = "Yes"
                \/ /\ x.feature = "InternetService"
                   /\ \E row \in df :
                        x.customerID = row.customerID /\ x.value = row.InternetService
  <2> DEFINE service == Column(df, "InternetService")
             first == Feature(service, "InternetService", NotNo(service))
                        \cup UNION {Feature(AddOnColumn(df, a), a, Yes) : a \in AddOn}
             again == Feature(service, "InternetService", Yes)
             Fits(y) == \/ y.feature \in AddOn /\ y.value = "Yes"
                        \/ /\ y.feature = "InternetService"
                           /\ \E row \in df :
                                y.customerID = row.customerID /\ y.value = row.InternetService
  <2>1. \A kept : \A y \in Feature(service, "InternetService", kept) : Fits(y)
    BY FeatureRows DEF Column
  <2>2. \A a \in AddOn : \A y \in Feature(AddOnColumn(df, a), a, Yes) : Fits(y)
    BY FeatureRows DEF Yes
  <2>3. \A y \in first \cup again : Fits(y)
    BY <2>1, <2>2
  <2>4. x \in Copied(1, first) \cup Copied(2, again)
    BY DEF InternetFeatures
  <2> HIDE DEF first, again
  <2>5. /\ {"customerID", "feature", "value"} \subseteq DOMAIN x
        /\ \E y \in first \cup again : /\ x.customerID = y.customerID /\ x.feature = y.feature
                                      /\ x.value = y.value
    BY <2>4, CopiedRows
  <2> QED
    BY <2>3, <2>5
<1> QED
  BY <1>1, <1>2, ChurnPipelineAssumption DEF IsTidy, IsTidySource

LEMMA AccountFeaturesTidy ==
  ASSUME InputInv PROVE IsTidy(AccountFeatures(df)) /\ IsTidySource(AccountFeatures(df))
<1>1. \A s, t \in df : s.customerID = t.customerID => s = t
  BY ChurnPipelineAssumption DEF InputInv, df, LoadSuppliedData
<1>2. ASSUME NEW x \in AccountFeatures(df)
      PROVE  /\ DOMAIN x = {"customerID", "feature", "value"}
             /\ \E row \in df : x.customerID = row.customerID /\ x.value = row[x.feature]
  <2>1. PICK name, kept : x \in Feature(Column(df, name), name, kept)
    BY DEF AccountFeatures
  <2> QED
    BY <2>1, FeatureRows DEF Column
<1> QED
  BY <1>1, <1>2 DEF IsTidy, IsTidySource

\* Every billing event belongs to a customer of the file, and has one termination each.
LEMMA BillingEventsRows ==
  ASSUME InputInv, NEW type, NEW month, NEW x \in BillingEvents(df, type, month)
  PROVE  /\ DOMAIN x = {"customerID", "kind", "value", "date"}
         /\ \E row \in df :
              /\ x.customerID = row.customerID
              /\ x.kind = "AccountTermination" => x.value = 0 /\ x.date = month + LastMonth(row)
BY DEF BillingEvents, Charges, ServiceStarts, ServiceTerminations

LEMMA ReplicatedBilling ==
  ASSUME InputInv, NEW type, NEW month, NEW dup,
         NEW x \in ReplicateDf(BillingEvents(df, type, month), dup)
  PROVE  \E row \in df, r \in Uniques(dup) :
           /\ x.customerID = CustomerID(row, r)
           /\ x.kind = "AccountTermination" =>
                x = [customerID |-> CustomerID(row, r), kind |-> "AccountTermination",
                     value |-> 0, date |-> month + LastMonth(row)]
<1>1. PICK y \in BillingEvents(df, type, month), r \in Uniques(dup) :
        x = [y EXCEPT !.customerID = <<y.customerID, r>>]
  BY DEF ReplicateDf, CustomerID
<1>2. PICK row \in df :
        /\ y.customerID = row.customerID
        /\ y.kind = "AccountTermination" => y.value = 0 /\ y.date = month + LastMonth(row)
  BY BillingEventsRows
<1>3. DOMAIN y = {"customerID", "kind", "value", "date"}
  BY BillingEventsRows
<1>4. x = [customerID |-> <<row.customerID, r>>, kind |-> y.kind,
           value |-> y.value, date |-> y.date]
  BY <1>1, <1>2, <1>3
<1> QED
  BY <1>2, <1>4 DEF CustomerID

LEMMA BillingEventsLeaveOnce ==
  ASSUME InputInv, NEW type, NEW month, NEW dup
  PROVE  LeaveOnce(ReplicateDf(BillingEvents(df, type, month), dup))
<1>1. \A s, t \in df : s.customerID = t.customerID => s = t
  BY ChurnPipelineAssumption DEF InputInv, df, LoadSuppliedData
<1> QED
  BY <1>1, ReplicatedBilling DEF LeaveOnce, CustomerID

-----------------------------------------------------------------------------
(* The charges.                                                             *)

\* ChargesFollowCreation, of any billing events.
ChargesOf(rows, id) == {e \in rows : e.customerID = id /\ e.kind = "Charge"}
MonthsOf(rows, id) == {e.date : e \in ChargesOf(rows, id)}
ChargesInOrder(rows) ==
  \A id \in Etl!FindCustomers(rows) :
    /\ \A m \in MonthsOf(rows, id), e \in rows :
         e.customerID = id /\ e.kind = "AccountCreation" => e.date < m
    /\ \E first \in MonthsOf(rows, id) \cup {0} :
         MonthsOf(rows, id) = first .. first + Cardinality(MonthsOf(rows, id)) - 1
    /\ \A c, d \in ChargesOf(rows, id) : c.value = d.value

DfType == \A s \in df : s.tenure \in Nat /\ LastMonth(s) \in Int /\ LastMonth(s) <= 0

LEMMA DfTypeHolds == InputInv => DfType
BY ChurnPipelineAssumption DEF InputInv, DfType, df, LoadSuppliedData, LastMonth

Charge(row, r, type, month, n) ==
  [customerID |-> CustomerID(row, r), kind |-> "Charge",
   value |-> Currency(type, row.TotalCharges \div row.tenure),
   date |-> month - (n + LastMonth(row))]

LEMMA ChargesAre ==
  ASSUME NEW type, NEW month, NEW dup, NEW x
  PROVE  x \in ReplicateDf(BillingEvents(df, type, month), dup) /\ x.kind = "Charge" <=>
           \E row \in df, r \in Uniques(dup) :
             \E n \in 1 .. row.tenure : x = Charge(row, r, type, month, n)
<1> DEFINE Event(row, n) ==
             [customerID |-> row.customerID, kind |-> "Charge",
              value |-> Currency(type, row.TotalCharges \div row.tenure),
              date |-> month - (n + LastMonth(row))]
           Copy(y, r) == [y EXCEPT !.customerID = CustomerID(y, r)]
<1>1. \A y : y \in BillingEvents(df, type, month) =>
        DOMAIN y = {"customerID", "kind", "value", "date"}
  BY DEF BillingEvents, Charges, ServiceStarts, ServiceTerminations
<1>2. \A y : y \in BillingEvents(df, type, month) /\ y.kind = "Charge" <=>
        \E row \in df : \E n \in 1 .. row.tenure : y = Event(row, n)
  BY DEF BillingEvents, Charges, ServiceStarts, ServiceTerminations
<1>3. \A row, r, n : Copy(Event(row, n), r) = Charge(row, r, type, month, n)
  BY DEF Charge, CustomerID
<1>4. \A y, r : DOMAIN y = {"customerID", "kind", "value", "date"} => Copy(y, r).kind = y.kind
  OBVIOUS
<1>5. \A row, r, n : Charge(row, r, type, month, n).kind = "Charge"
  BY DEF Charge
<1>6. x \in ReplicateDf(BillingEvents(df, type, month), dup) <=>
        \E y \in BillingEvents(df, type, month), r \in Uniques(dup) : x = Copy(y, r)
  BY DEF ReplicateDf
<1> HIDE DEF Event, Copy
<1> QED
  BY <1>1, <1>2, <1>3, <1>4, <1>5, <1>6

LEMMA CreationsAre ==
  ASSUME NEW type, NEW month, NEW dup,
         NEW x \in ReplicateDf(BillingEvents(df, type, month), dup), x.kind = "AccountCreation"
  PROVE  \E row \in df, r \in Uniques(dup) :
           x.customerID = CustomerID(row, r) /\ x.date = month - row.tenure - 1 + LastMonth(row)
<1>1. PICK y \in BillingEvents(df, type, month), r \in Uniques(dup) :
        x = [y EXCEPT !.customerID = CustomerID(y, r)]
  BY DEF ReplicateDf
<1>2. DOMAIN y = {"customerID", "kind", "value", "date"}
  BY DEF BillingEvents, Charges, ServiceStarts, ServiceTerminations
<1>3. x.customerID = CustomerID(y, r) /\ x.kind = y.kind /\ x.date = y.date
  BY <1>1, <1>2
<1>4. \E row \in df : /\ y.customerID = row.customerID
                      /\ y.date = month - row.tenure - 1 + LastMonth(row)
  BY <1>3 DEF BillingEvents, Charges, ServiceStarts, ServiceTerminations
<1> QED
  BY <1>3, <1>4 DEF CustomerID

LEMMA BillingEventsChargesInOrder ==
  ASSUME InputInv, NEW type, NEW month \in Int, NEW dup
  PROVE  ChargesInOrder(ReplicateDf(BillingEvents(df, type, month), dup))
<1> DEFINE rows == ReplicateDf(BillingEvents(df, type, month), dup)
<1>1. \A s, t \in df : s.customerID = t.customerID => s = t
  BY ChurnPipelineAssumption DEF InputInv, df, LoadSuppliedData
<1>2. ASSUME NEW id \in Etl!FindCustomers(rows)
      PROVE  /\ \A m \in MonthsOf(rows, id), e \in rows :
                  e.customerID = id /\ e.kind = "AccountCreation" => e.date < m
             /\ \E first \in MonthsOf(rows, id) \cup {0} :
                  MonthsOf(rows, id) = first .. first + Cardinality(MonthsOf(rows, id)) - 1
             /\ \A c, d \in ChargesOf(rows, id) : c.value = d.value
  <2>1. PICK row \in df, r \in Uniques(dup) : id = CustomerID(row, r)
    BY <1>2, ReplicatedBilling DEF Etl!FindCustomers
  <2> DEFINE last == LastMonth(row)
             count == row.tenure
             start == month - count - last
  <2>2. count \in Nat /\ last \in Int /\ last <= 0 /\ start \in Int
    BY DfTypeHolds DEF DfType
  \* The key of the file makes row and r the only ones.
  <2>3. \A s \in df : \A q : CustomerID(s, q) = id => s = row /\ q = r
    BY <1>1, <2>1 DEF CustomerID
  <2>4. \A x : x \in ChargesOf(rows, id) <=>
          \E n \in 1 .. count : x = Charge(row, r, type, month, n)
    <3>1. \A s, q, n : Charge(s, q, type, month, n).customerID = CustomerID(s, q)
      BY DEF Charge
    <3> QED
      BY <2>1, <2>3, <3>1, ChargesAre DEF ChargesOf
  <2>5. \A n : Charge(row, r, type, month, n).date = month - (n + last)
    BY DEF Charge
  <2> HIDE DEF last, count, rows
  <2>6. MonthsOf(rows, id) = start .. start + count - 1
    <3>1. ASSUME NEW m \in MonthsOf(rows, id) PROVE m \in start .. start + count - 1
      <4>1. PICK n \in 1 .. count : m = month - (n + last)
        BY <2>4, <2>5 DEF MonthsOf
      <4> QED
        BY <2>2, <4>1
    <3>2. ASSUME NEW m \in start .. start + count - 1 PROVE m \in MonthsOf(rows, id)
      <4>1. /\ month - last - m \in 1 .. count
            /\ m = month - ((month - last - m) + last)
        BY <2>2
      <4> QED
        BY <2>4, <2>5, <4>1 DEF MonthsOf
    <3> QED
      BY <3>1, <3>2
  <2>7. ASSUME NEW m \in MonthsOf(rows, id), NEW e \in rows,
               e.customerID = id, e.kind = "AccountCreation"
        PROVE  e.date < m
    <3>1. e.date = month - count - 1 + last
      BY <2>3, <2>7, CreationsAre DEF rows, last, count
    <3> QED
      BY <2>2, <2>6, <3>1
  <2>8. Cardinality(MonthsOf(rows, id)) = count
    <3> DEFINE end == start + count - 1
    <3>1. start \in Int /\ end \in Int
      BY <2>2
    <3>2. /\ MonthsOf(rows, id) = start .. end
          /\ count = IF start > end THEN 0 ELSE end - start + 1
      BY <2>2, <2>6
    <3> HIDE DEF start, end
    <3> QED
      BY <3>1, <3>2, FS_Interval
  <2>9. \E first \in MonthsOf(rows, id) \cup {0} : MonthsOf(rows, id) = first .. first + count - 1
    <3>1. CASE count = 0
      BY <2>2, <2>6, <3>1
    <3>2. CASE count # 0
      BY <2>2, <2>6, <3>2
    <3> QED
      BY <3>1, <3>2
  <2>10. \A c, d \in ChargesOf(rows, id) : c.value = d.value
    BY <2>4 DEF Charge
  <2> QED
    BY <2>7, <2>8, <2>9, <2>10
<1> QED
  BY <1>2 DEF ChargesInOrder

-----------------------------------------------------------------------------
(* What the joins make of a customer of the file, from tables of one run.   *)

LEMMA ReplicasDiffer ==
  ASSUME InputInv, NEW s \in df, NEW r, NEW t \in df, NEW q, CustomerID(s, r) = CustomerID(t, q)
  PROVE  s = t /\ r = q
BY ChurnPipelineAssumption DEF InputInv, df, LoadSuppliedData, CustomerID

\* The source row of a customer, whose columns are consistent.
LEMMA SourceIsConsistent ==
  ASSUME InputInv, NEW s \in df
  PROVE  /\ Consistent(s) /\ s.TotalCharges # Null /\ s.tenure \in Nat
         /\ \A t \in df : t.customerID = s.customerID => t = s
         /\ \A dup \in DupTimes : \A r \in Uniques(dup) : CustomerID(s, r) # Null
BY ChurnPipelineAssumption, ChurnSourceAssumption DEF InputInv, df, LoadSuppliedData

\* A table in long form has a value for a feature of a customer.
Shows(table, id, name, v) ==
  \E x \in table : x.customerID = id /\ x.feature = name /\ x.value = v

LEMMA UntidyShows ==
  ASSUME NEW table, NEW id, NEW name, NEW v
  PROVE  v \in Etl!UntidyFeature(table, id, name) <=> Shows(table, id, name, v)
BY DEF Etl!UntidyFeature, Etl!UntidyRows, Etl!Of, Shows

LEMMA UntidyOfReplica ==
  ASSUME InputInv, NEW table, IsTidySource(table), NEW dup, NEW s \in df, NEW r \in Uniques(dup),
         NEW name, NEW v
  PROVE  v \in Etl!UntidyFeature(ReplicateDf(table, dup), CustomerID(s, r), name) <=>
           Shows(table, s.customerID, name, v)
<1> DEFINE Copy(x, q) == [x EXCEPT !.customerID = CustomerID(x, q)]
<1>1. ASSUME NEW x \in table, NEW q
      PROVE  /\ Copy(x, q).customerID = <<x.customerID, q>>
             /\ Copy(x, q).feature = x.feature /\ Copy(x, q).value = x.value
  BY DEF IsTidySource, CustomerID
<1>2. \A y : y \in ReplicateDf(table, dup) <=> \E x \in table, q \in Uniques(dup) : y = Copy(x, q)
  BY DEF ReplicateDf
<1> HIDE DEF Copy
<1>3. Shows(ReplicateDf(table, dup), CustomerID(s, r), name, v) <=>
        Shows(table, s.customerID, name, v)
  <2>1. ASSUME Shows(table, s.customerID, name, v)
        PROVE  Shows(ReplicateDf(table, dup), CustomerID(s, r), name, v)
    <3>1. PICK x \in table : x.customerID = s.customerID /\ x.feature = name /\ x.value = v
      BY <2>1 DEF Shows
    <3>2. Copy(x, r) \in ReplicateDf(table, dup)
      BY <1>2
    <3> QED
      BY <1>1, <3>1, <3>2 DEF Shows, CustomerID
  <2>2. ASSUME Shows(ReplicateDf(table, dup), CustomerID(s, r), name, v)
        PROVE  Shows(table, s.customerID, name, v)
    <3>1. PICK y \in ReplicateDf(table, dup) :
            y.customerID = CustomerID(s, r) /\ y.feature = name /\ y.value = v
      BY <2>2 DEF Shows
    <3>2. PICK x \in table, q \in Uniques(dup) : y = Copy(x, q)
      BY <1>2
    <3> QED
      BY <1>1, <3>1, <3>2 DEF Shows, CustomerID
  <2> QED
    BY <2>1, <2>2
<1> QED
  BY <1>3, UntidyShows

\* A column kept as a feature has the customer's value, if it is kept.
LEMMA FeatureOfCustomer ==
  ASSUME InputInv, NEW column, DOMAIN column = df, NEW name, NEW kept, NEW s \in df, NEW v, NEW n
  PROVE  Shows(Feature(column, name, kept), s.customerID, n, v) <=>
           n = name /\ v = column[s] /\ v \in kept
<1>1. \A t \in df : t.customerID = s.customerID => t = s
  BY SourceIsConsistent
<1>2. \A x \in Feature(column, name, kept) :
        x.customerID = s.customerID => x.feature = name /\ x.value = column[s] /\ column[s] \in kept
  BY <1>1, FeatureRows
<1>3. column[s] \in kept =>
        [customerID |-> s.customerID, feature |-> name, value |-> column[s]]
          \in Feature(column, name, kept)
  BY DEF Feature
<1> QED
  BY <1>2, <1>3 DEF Shows

LEMMA PhoneUntidy ==
  ASSUME InputInv, NEW dup, NEW s \in df, NEW r \in Uniques(dup),
         NEW name \in {"PhoneService", "MultipleLines"}, NEW v
  PROVE  v \in Etl!UntidyFeature(ReplicateDf(PhoneFeatures(df), dup), CustomerID(s, r), name) <=>
           v = s[name] /\ v = "Yes"
<1> DEFINE Found(table) == Shows(table, s.customerID, name, v)
           Kept(n) == Feature(Column(df, n), n, Yes)
<1>1. \A n : Found(Kept(n)) <=> name = n /\ v = s[n] /\ v = "Yes"
  <2> TAKE n
  <2>1. DOMAIN Column(df, n) = df /\ Column(df, n)[s] = s[n]
    BY DEF Column
  <2> QED
    BY <2>1, FeatureOfCustomer DEF Yes
<1>2. Found(PhoneFeatures(df)) <=> Found(Kept("PhoneService")) \/ Found(Kept("MultipleLines"))
  BY DEF PhoneFeatures, Shows
<1>3. v \in Etl!UntidyFeature(ReplicateDf(PhoneFeatures(df), dup), CustomerID(s, r), name)
        <=> Found(PhoneFeatures(df))
  BY PhoneFeaturesTidy, UntidyOfReplica
<1> HIDE DEF Found, Kept
<1> QED
  BY <1>1, <1>2, <1>3

LEMMA AccountUntidy ==
  ASSUME InputInv, NEW dup, NEW s \in df, NEW r \in Uniques(dup),
         NEW name \in {"Contract", "PaperlessBilling"}, NEW v
  PROVE  v \in Etl!UntidyFeature(ReplicateDf(AccountFeatures(df), dup), CustomerID(s, r), name) <=>
           v = s[name] /\ v # "No"
<1> DEFINE Found(table) == Shows(table, s.customerID, name, v)
           Kept(n) == Feature(Column(df, n), n, NotNo(Column(df, n)))
<1>1. \A n : Found(Kept(n)) <=> name = n /\ v = s[n] /\ v # "No"
  <2> TAKE n
  <2>1. DOMAIN Column(df, n) = df /\ Column(df, n)[s] = s[n]
    BY DEF Column
  <2>2. s[n] \in NotNo(Column(df, n)) <=> s[n] # "No"
    BY <2>1 DEF NotNo
  <2> QED
    BY <2>1, <2>2, FeatureOfCustomer
<1>2. Found(AccountFeatures(df)) <=> Found(Kept("Contract")) \/ Found(Kept("PaperlessBilling"))
  BY DEF AccountFeatures, Shows
<1>3. v \in Etl!UntidyFeature(ReplicateDf(AccountFeatures(df), dup), CustomerID(s, r), name)
        <=> Found(AccountFeatures(df))
  BY AccountFeaturesTidy, UntidyOfReplica
<1> HIDE DEF Found, Kept
<1> QED
  BY <1>1, <1>2, <1>3

LEMMA CopiedShows ==
  ASSUME NEW k, NEW rows, NEW id, NEW name, NEW v
  PROVE  Shows(Copied(k, rows), id, name, v) <=> Shows(rows, id, name, v)
<1>1. \A x \in Copied(k, rows) : \E y \in rows :
        x.customerID = y.customerID /\ x.feature = y.feature /\ x.value = y.value
  BY CopiedRows
<1>2. ASSUME NEW y \in rows
      PROVE  \E x \in Copied(k, rows) :
               x.customerID = y.customerID /\ x.feature = y.feature /\ x.value = y.value
  <2> DEFINE x == [customerID |-> y.customerID, feature |-> y.feature, value |-> y.value,
                   copy |-> k]
  <2>1. x \in Copied(k, rows)
    BY DEF Copied
  <2> QED
    BY <2>1
<1> QED
  BY <1>1, <1>2 DEF Shows

LEMMA InternetUntidy ==
  ASSUME InputInv, NEW dup, NEW s \in df, NEW r \in Uniques(dup), NEW v
  PROVE  LET Values(name) == Etl!UntidyFeature(ReplicateDf(InternetFeatures(df), dup),
                                              CustomerID(s, r), name)
         IN /\ v \in Values("InternetService") <=> v = s.InternetService /\ v # "No"
            /\ \A a \in AddOn : v \in Values(a) <=> v = s.addOn[a] /\ v = "Yes"
<1> DEFINE Found(table, name) == Shows(table, s.customerID, name, v)
           service == Column(df, "InternetService")
           Service(kept) == Feature(service, "InternetService", kept)
           Added(a) == Feature(AddOnColumn(df, a), a, Yes)
<1>1. \A name : \A kept : Found(Service(kept), name) <=>
        name = "InternetService" /\ v = s.InternetService /\ v \in kept
  <2> TAKE name
  <2> TAKE kept
  <2>1. DOMAIN service = df /\ service[s] = s.InternetService
    BY DEF Column
  <2> HIDE DEF service
  <2>2. Shows(Service(kept), s.customerID, name, v) <=>
          name = "InternetService" /\ v = service[s] /\ v \in kept
    BY <2>1, FeatureOfCustomer
  <2> QED
    BY <2>1, <2>2
<1>2. \A name, a : Found(Added(a), name) <=> name = a /\ v = s.addOn[a] /\ v = "Yes"
  <2> TAKE name, a
  <2>1. DOMAIN AddOnColumn(df, a) = df /\ AddOnColumn(df, a)[s] = s.addOn[a]
    BY DEF AddOnColumn
  <2> QED
    BY <2>1, FeatureOfCustomer DEF Yes
<1>3. s.InternetService \in NotNo(service) <=> s.InternetService # "No"
  BY DEF NotNo, Column
<1>4. \A name : Found(InternetFeatures(df), name) <=>
        \/ Found(Service(NotNo(service)), name) \/ Found(Service(Yes), name)
        \/ \E a \in AddOn : Found(Added(a), name)
  <2> TAKE name
  <2> DEFINE first == Service(NotNo(service)) \cup UNION {Added(a) : a \in AddOn}
  <2>1. Found(InternetFeatures(df), name) <=>
          Found(Copied(1, first), name) \/ Found(Copied(2, Service(Yes)), name)
    BY DEF InternetFeatures, Shows
  <2>2. Found(first, name) <=>
          Found(Service(NotNo(service)), name) \/ \E a \in AddOn : Found(Added(a), name)
    BY DEF Shows
  <2> HIDE DEF first, Service
  <2>3. \A k, rows : Found(Copied(k, rows), name) <=> Found(rows, name)
    BY CopiedShows
  <2> QED
    BY <2>1, <2>2, <2>3
<1>5. \A name :
        v \in Etl!UntidyFeature(ReplicateDf(InternetFeatures(df), dup), CustomerID(s, r), name)
          <=> Found(InternetFeatures(df), name)
  BY InternetFeaturesTidy, UntidyOfReplica
<1> HIDE DEF Found, Service, Added, service
<1> QED
  BY <1>1, <1>2, <1>3, <1>4, <1>5, ChurnPipelineAssumption DEF Yes

\* A left outer join with one table: the matching rows, of which there is at least one.
LEMMA OrNullOfSome == ASSUME NEW S, S # {} PROVE Etl!OrNull(S) = S
BY DEF Etl!OrNull

LEMMA OrNullMember ==
  ASSUME NEW S, NEW v \in Etl!OrNull(S)
  PROVE  v \in S \/ (S = {} /\ v = Null)
BY DEF Etl!OrNull

LEMMA OrNullIsThere == ASSUME NEW S PROVE \E v : v \in Etl!OrNull(S)
BY DEF Etl!OrNull

LEMMA PhoneJoined ==
  ASSUME InputInv, NEW dup, NEW s \in df, NEW r \in Uniques(dup), NEW ids, CustomerID(s, r) \in ids,
         NEW x \in Etl!OrNull(Etl!Of(
           Etl!JoinPhoneFeatures(ReplicateDf(PhoneFeatures(df), dup), ids), CustomerID(s, r)))
  PROVE  x.PhoneService = s.PhoneService /\ x.MultipleLines = s.MultipleLines
<1> DEFINE id == CustomerID(s, r)
           Values(i, name) == Etl!OrNull(
             Etl!UntidyFeature(ReplicateDf(PhoneFeatures(df), dup), i, name))
           Row(i, service, lines) ==
             [customerID |-> i, PhoneService |-> Etl!YesOrNo(service),
              MultipleLines |-> Etl!ResolveLines(lines, service)]
           J == Etl!JoinPhoneFeatures(ReplicateDf(PhoneFeatures(df), dup), ids)
<1>1. \A y : y \in J <=> \E i \in ids : \E service \in Values(i, "PhoneService"),
                           lines \in Values(i, "MultipleLines") : y = Row(i, service, lines)
  BY DEF Etl!JoinPhoneFeatures
<1>2. \A name \in {"PhoneService", "MultipleLines"} : \A v \in Values(id, name) :
        \/ v = s[name] /\ v = "Yes"
        \/ v = Null /\ s[name] # "Yes"
  <2> TAKE name \in {"PhoneService", "MultipleLines"}
  <2> DEFINE U == Etl!UntidyFeature(ReplicateDf(PhoneFeatures(df), dup), id, name)
  <2>1. \A v : v \in U <=> v = s[name] /\ v = "Yes"
    BY PhoneUntidy
  <2> HIDE DEF U
  <2>2. \A v \in Etl!OrNull(U) : v \in U \/ (U = {} /\ v = Null)
    BY OrNullMember
  <2> QED
    BY <2>1, <2>2 DEF U
<1>3. \A i, name : Values(i, name) # {}
  BY OrNullIsThere
<1> HIDE DEF Values, J
<1>4. \A i, service, lines :
        /\ Row(i, service, lines).customerID = i
        /\ Row(i, service, lines).PhoneService = Etl!YesOrNo(service)
        /\ Row(i, service, lines).MultipleLines = Etl!ResolveLines(lines, service)
  OBVIOUS
<1> HIDE DEF Row
<1>5. Etl!Of(J, id) # {}
  <2>1. PICK service \in Values(id, "PhoneService"), lines \in Values(id, "MultipleLines") : TRUE
    BY <1>3
  <2>2. Row(id, service, lines) \in J
    BY <1>1, <2>1
  <2> QED
    BY <1>4, <2>2 DEF Etl!Of
<1>6. x \in J /\ x.customerID = id
  BY <1>5, OrNullMember DEF Etl!Of, J
<1>7. PICK service \in Values(id, "PhoneService"), lines \in Values(id, "MultipleLines") :
        x = Row(id, service, lines)
  BY <1>1, <1>4, <1>6
<1>8. /\ \/ service = "Yes" /\ s.PhoneService = "Yes"
         \/ service = Null /\ s.PhoneService # "Yes"
      /\ \/ lines = "Yes" /\ s.MultipleLines = "Yes"
         \/ lines = Null /\ s.MultipleLines # "Yes"
  BY <1>2
<1>9. /\ Null # "Yes"
      /\ \/ s.PhoneService = "Yes" /\ s.MultipleLines \in {"Yes", "No"}
         \/ s.PhoneService = "No" /\ s.MultipleLines = "No phone service"
  BY SourceIsConsistent, ChurnSourceAssumption DEF Consistent
<1>10. /\ x.PhoneService = Etl!YesOrNo(service)
       /\ x.MultipleLines = Etl!ResolveLines(lines, service)
  BY <1>4, <1>7
<1>11. Etl!YesOrNo(service) = s.PhoneService
  BY <1>8, <1>9 DEF Etl!YesOrNo
<1>12. Etl!ResolveLines(lines, service) = s.MultipleLines
  BY <1>8, <1>9 DEF Etl!YesOrNo, Etl!ResolveLines
<1> QED
  BY <1>10, <1>11, <1>12

LEMMA AccountJoined ==
  ASSUME InputInv, NEW dup, NEW s \in df, NEW r \in Uniques(dup), NEW ids, CustomerID(s, r) \in ids,
         NEW x \in Etl!OrNull(Etl!Of(
           Etl!JoinAccountFeatures(ReplicateDf(AccountFeatures(df), dup), ids), CustomerID(s, r)))
  PROVE  x.Contract = s.Contract /\ x.PaperlessBilling = s.PaperlessBilling
<1> DEFINE id == CustomerID(s, r)
           Values(i, name) == Etl!OrNull(
             Etl!UntidyFeature(ReplicateDf(AccountFeatures(df), dup), i, name))
           Row(i, contract, paperless) ==
             [customerID |-> i, Contract |-> contract,
              PaperlessBilling |-> Etl!ResolveNullable(paperless)]
           J == Etl!JoinAccountFeatures(ReplicateDf(AccountFeatures(df), dup), ids)
<1>1. \A y : y \in J <=> \E i \in ids : \E contract \in Values(i, "Contract"),
                           paperless \in Values(i, "PaperlessBilling") : y = Row(i, contract, paperless)
  BY DEF Etl!JoinAccountFeatures
<1>2. \A name \in {"Contract", "PaperlessBilling"} : \A v \in Values(id, name) :
        \/ v = s[name] /\ v # "No"
        \/ v = Null /\ s[name] = "No"
  <2> TAKE name \in {"Contract", "PaperlessBilling"}
  <2> DEFINE U == Etl!UntidyFeature(ReplicateDf(AccountFeatures(df), dup), id, name)
  <2>1. \A v : v \in U <=> v = s[name] /\ v # "No"
    BY AccountUntidy
  <2> HIDE DEF U
  <2>2. \A v \in Etl!OrNull(U) : v \in U \/ (U = {} /\ v = Null)
    BY OrNullMember
  <2> QED
    BY <2>1, <2>2 DEF U
<1>3. \A i, name : Values(i, name) # {}
  BY OrNullIsThere
<1> HIDE DEF Values, J
<1>4. \A i, contract, paperless :
        /\ Row(i, contract, paperless).customerID = i
        /\ Row(i, contract, paperless).Contract = contract
        /\ Row(i, contract, paperless).PaperlessBilling = Etl!ResolveNullable(paperless)
  OBVIOUS
<1> HIDE DEF Row
<1>5. Etl!Of(J, id) # {}
  <2>1. PICK contract \in Values(id, "Contract"), paperless \in Values(id, "PaperlessBilling") : TRUE
    BY <1>3
  <2>2. Row(id, contract, paperless) \in J
    BY <1>1, <2>1
  <2> QED
    BY <1>4, <2>2 DEF Etl!Of
<1>6. x \in J /\ x.customerID = id
  BY <1>5, OrNullMember DEF Etl!Of, J
<1>7. PICK contract \in Values(id, "Contract"), paperless \in Values(id, "PaperlessBilling") :
        x = Row(id, contract, paperless)
  BY <1>1, <1>4, <1>6
<1>8. /\ contract = s.Contract \/ s.Contract = "No"
      /\ \/ paperless = s.PaperlessBilling
         \/ paperless = Null /\ s.PaperlessBilling = "No"
  BY <1>2
<1>9. s.Contract # "No" /\ Null # "Yes" /\ Null # "No" /\ s.PaperlessBilling \in {"Yes", "No"}
  BY SourceIsConsistent, ChurnSourceAssumption DEF Consistent
<1> QED
  BY <1>4, <1>7, <1>8, <1>9 DEF Etl!ResolveNullable

LEMMA InternetJoined ==
  ASSUME InputInv, NEW dup, NEW s \in df, NEW r \in Uniques(dup), NEW ids, CustomerID(s, r) \in ids,
         NEW x \in Etl!OrNull(Etl!Of(
           Etl!JoinInternetFeatures(ReplicateDf(InternetFeatures(df), dup), ids), CustomerID(s, r)))
  PROVE  x.InternetService = s.InternetService /\ x.addOn = s.addOn
<1> DEFINE id == CustomerID(s, r)
           Values(i, name) == Etl!OrNull(
             Etl!UntidyFeature(ReplicateDf(InternetFeatures(df), dup), i, name))
           AddOns(i) == {f \in [AddOn -> UNION {Values(i, a) : a \in AddOn}] :
                           \A a \in AddOn : f[a] \in Values(i, a)}
           Matches(i) == ServiceMatches(ReplicateDf(InternetFeatures(df), dup), i)
           Row(i, match, addOn) ==
             [customerID |-> i, match |-> match,
              InternetService |-> Etl!ResolveNullable(match.value),
              addOn |-> [a \in AddOn |-> Etl!ResolveDependent(addOn[a], match.value)]]
           J == Etl!JoinInternetFeatures(ReplicateDf(InternetFeatures(df), dup), ids)
<1>0. \A i : /\ Matches(i) # {}
             /\ \A match \in Matches(i) : match.value \in Values(i, "InternetService")
  <2> TAKE i
  <2> DEFINE rows == Etl!UntidyRows(ReplicateDf(InternetFeatures(df), dup), i, "InternetService")
  <2>1. /\ Matches(i) = IF rows = {} THEN {[value |-> Null]} ELSE rows
        /\ Values(i, "InternetService") = Etl!OrNull({y.value : y \in rows})
    BY DEF ServiceMatches, Etl!OrRowOfNulls, Etl!UntidyFeature
  <2> HIDE DEF rows, Matches, Values
  <2>2. CASE rows = {}
    <3>1. Null \in Etl!OrNull({y.value : y \in rows})
      BY <2>2 DEF Etl!OrNull
    <3> QED
      BY <2>1, <2>2, <3>1
  <2>3. CASE rows # {}
    <3>1. Etl!OrNull({y.value : y \in rows}) = {y.value : y \in rows}
      BY <2>3 DEF Etl!OrNull
    <3> QED
      BY <2>1, <2>3, <3>1
  <2> QED
    BY <2>2, <2>3
<1>1. \A y : y \in J <=> \E i \in ids : \E match \in Matches(i),
                           addOn \in AddOns(i) : y = Row(i, match, addOn)
  BY DEF Etl!JoinInternetFeatures, ServiceMatches
<1>2. /\ \A v \in Values(id, "InternetService") :
           (v = s.InternetService /\ v # "No") \/ (v = Null /\ s.InternetService = "No")
      /\ \A a \in AddOn : \A v \in Values(id, a) :
           (v = "Yes" /\ s.addOn[a] = "Yes") \/ (v = Null /\ s.addOn[a] # "Yes")
  <2> DEFINE U(name) == Etl!UntidyFeature(ReplicateDf(InternetFeatures(df), dup), id, name)
  <2>1. /\ \A v : v \in U("InternetService") <=> v = s.InternetService /\ v # "No"
        /\ \A a \in AddOn : \A v : v \in U(a) <=> v = s.addOn[a] /\ v = "Yes"
    BY InternetUntidy
  <2>2. \A name : Values(id, name) = Etl!OrNull(U(name))
    OBVIOUS
  <2> HIDE DEF U, Values
  <2>3. \A name : \A v \in Values(id, name) : v \in U(name) \/ (U(name) = {} /\ v = Null)
    BY <2>2, OrNullMember
  <2> QED
    BY <2>1, <2>3
<1>3. \A i, name : Values(i, name) # {}
  BY OrNullIsThere
<1> HIDE DEF Values, Matches, J
<1>4. AddOns(id) # {}
  <2> DEFINE f == [a \in AddOn |-> CHOOSE v : v \in Values(id, a)]
  <2>1. \A a \in AddOn : f[a] \in Values(id, a)
    BY <1>3
  <2>2. f \in [AddOn -> UNION {Values(id, a) : a \in AddOn}]
    BY <2>1
  <2> HIDE DEF f
  <2> QED
    BY <2>1, <2>2
<1>5. \A addOn \in AddOns(id) : \A a \in AddOn : addOn[a] \in Values(id, a)
  OBVIOUS
<1> HIDE DEF AddOns
<1>6. \A i, match, addOn :
        /\ Row(i, match, addOn).customerID = i
        /\ Row(i, match, addOn).InternetService = Etl!ResolveNullable(match.value)
        /\ Row(i, match, addOn).addOn =
             [a \in AddOn |-> Etl!ResolveDependent(addOn[a], match.value)]
  OBVIOUS
<1> HIDE DEF Row
<1>7. Etl!Of(J, id) # {}
  <2>1. PICK match \in Matches(id), addOn \in AddOns(id) : TRUE
    BY <1>0, <1>4
  <2>2. Row(id, match, addOn) \in J
    BY <1>1, <2>1
  <2> QED
    BY <1>6, <2>2 DEF Etl!Of
<1>8. x \in J /\ x.customerID = id
  BY <1>7, OrNullMember DEF Etl!Of, J
<1>9. PICK match \in Matches(id), addOn \in AddOns(id) : x = Row(id, match, addOn)
  BY <1>1, <1>6, <1>8
<1> DEFINE service == match.value
<1>10. /\ \/ service = s.InternetService /\ service # "No"
          \/ service = Null /\ s.InternetService = "No"
       /\ \A a \in AddOn : \/ addOn[a] = "Yes" /\ s.addOn[a] = "Yes"
                           \/ addOn[a] = Null /\ s.addOn[a] # "Yes"
  BY <1>0, <1>2, <1>5
<1> HIDE DEF service
<1>11. /\ Null # "Yes" /\ Null # "No"
       /\ \/ s.InternetService \notin {"No", Null} /\ s.addOn \in [AddOn -> {"Yes", "No"}]
          \/ s.InternetService = "No" /\ s.addOn = [a \in AddOn |-> "No internet service"]
  BY SourceIsConsistent, ChurnSourceAssumption DEF Consistent
<1>12. x.InternetService = s.InternetService
  <2>1. x.InternetService = Etl!ResolveNullable(service)
    BY <1>6, <1>9 DEF service
  <2>2. Etl!ResolveNullable(service) = s.InternetService
    BY <1>10, <1>11 DEF Etl!ResolveNullable
  <2> QED
    BY <2>1, <2>2
<1>13. \A a \in AddOn : Etl!ResolveDependent(addOn[a], service) = s.addOn[a]
  BY <1>10, <1>11 DEF Etl!ResolveDependent, Etl!ResolveNullable
<1>14. s.addOn = [a \in AddOn |-> s.addOn[a]]
  BY <1>11
<1>15. x.addOn = s.addOn
  BY <1>6, <1>9, <1>13, <1>14 DEF service
<1> QED
  BY <1>12, <1>15

\* internet_features makes the row of InternetService twice if it says "Yes".
LEMMA InternetTwiceIfYes ==
  ASSUME InputInv, NEW dup PROVE TwiceIfYes(ReplicateDf(InternetFeatures(df), dup))
<1> DEFINE table == ReplicateDf(InternetFeatures(df), dup)
           service == Column(df, "InternetService")
           IsRow(y) == y.feature = "InternetService"
           Kept(v, k) == v # "No" /\ (k = 1 \/ (k = 2 /\ v = "Yes"))
           Replica(x, q) == [x EXCEPT !.customerID = CustomerID(x, q)]
<1>1. \A x : x \in InternetFeatures(df) /\ IsRow(x) <=>
        \E s \in df, k \in {1, 2} :
          Kept(s.InternetService, k) /\ x = ServiceRow(s.customerID, s.InternetService, k)
  <2> DEFINE Served(kept) == Feature(service, "InternetService", kept)
             addOns == UNION {Feature(AddOnColumn(df, a), a, Yes) : a \in AddOn}
  <2>1. \A k, kept : \A x : x \in Copied(k, Served(kept)) <=>
          \E s \in df : s.InternetService \in kept /\ x = ServiceRow(s.customerID, s.InternetService, k)
    <3> TAKE k, kept
    <3>1. \A y : y \in Served(kept) <=> \E s \in df : s.InternetService \in kept
             /\ y = [customerID |-> s.customerID, feature |-> "InternetService",
                    value |-> s.InternetService]
      BY DEF Feature, Column
    <3>2. \A x : x \in Copied(k, Served(kept)) <=> \E y \in Served(kept) :
             x = [customerID |-> y.customerID, feature |-> y.feature, value |-> y.value,
                  copy |-> k]
      BY DEF Copied
    <3> DEFINE Plain(s) == [customerID |-> s.customerID, feature |-> "InternetService",
                            value |-> s.InternetService]
               With(y) == [customerID |-> y.customerID, feature |-> y.feature,
                           value |-> y.value, copy |-> k]
    <3>3. \A s : With(Plain(s)) = ServiceRow(s.customerID, s.InternetService, k)
      BY DEF ServiceRow
    <3> HIDE DEF Served, Plain, With
    <3>4. ASSUME NEW x \in Copied(k, Served(kept))
          PROVE  \E s \in df : /\ s.InternetService \in kept
                               /\ x = ServiceRow(s.customerID, s.InternetService, k)
      <4>1. PICK y \in Served(kept) : x = With(y)
        BY <3>2 DEF With
      <4>2. PICK s \in df : s.InternetService \in kept /\ y = Plain(s)
        BY <3>1 DEF Plain
      <4> QED
        BY <3>3, <4>1, <4>2
    <3>5. ASSUME NEW s \in df, s.InternetService \in kept
          PROVE  ServiceRow(s.customerID, s.InternetService, k) \in Copied(k, Served(kept))
      <4>1. Plain(s) \in Served(kept)
        BY <3>1, <3>5 DEF Plain
      <4>2. With(Plain(s)) \in Copied(k, Served(kept))
        BY <3>2, <4>1 DEF With
      <4> QED
        BY <3>3, <4>2
    <3> QED
      BY <3>4, <3>5
  <2>2. \A x \in Copied(1, addOns) : ~IsRow(x)
    <3>1. \A y \in addOns : y.feature \in AddOn
      BY FeatureRows
    <3> HIDE DEF addOns
    <3> QED
      BY <3>1, CopiedRows, ChurnPipelineAssumption
  <2>3. \A x : x \in InternetFeatures(df) <=>
          \/ x \in Copied(1, Served(NotNo(service))) \/ x \in Copied(1, addOns)
          \/ x \in Copied(2, Served(Yes))
    BY DEF InternetFeatures, Copied
  <2>4. \A s \in df : /\ s.InternetService \in NotNo(service) <=> s.InternetService # "No"
                      /\ s.InternetService \in Yes <=> s.InternetService = "Yes"
    BY DEF NotNo, Column, Yes
  <2>5. \A s, k : IsRow(ServiceRow(s.customerID, s.InternetService, k))
    BY DEF ServiceRow
  <2> HIDE DEF Served, addOns, service, IsRow
  <2> QED
    BY <2>1, <2>2, <2>3, <2>4, <2>5
<1>2. \A id, v, k, q : Replica(ServiceRow(id, v, k), q) = ServiceRow(<<id, q>>, v, k)
  BY DEF ServiceRow, CustomerID
<1>3. \A x \in InternetFeatures(df) : \A q : IsRow(Replica(x, q)) <=> IsRow(x)
  BY InternetFeaturesTidy DEF IsTidySource
<1>4. \A y : y \in table <=> \E x \in InternetFeatures(df), q \in Uniques(dup) : y = Replica(x, q)
  BY DEF ReplicateDf
<1> HIDE DEF table, IsRow, Replica, Kept
<1>5. \A y : y \in table /\ IsRow(y) <=>
        \E s \in df, q \in Uniques(dup), k \in {1, 2} :
          Kept(s.InternetService, k) /\ y = ServiceRow(CustomerID(s, q), s.InternetService, k)
  <2>1. \A y : y \in table /\ IsRow(y) <=>
          \E x \in InternetFeatures(df), q \in Uniques(dup) : IsRow(x) /\ y = Replica(x, q)
    BY <1>3, <1>4
  <2>2. \A s \in df : \A k, q :
          Replica(ServiceRow(s.customerID, s.InternetService, k), q) =
            ServiceRow(CustomerID(s, q), s.InternetService, k)
    BY <1>2 DEF CustomerID
  <2> DEFINE Made(s, q, k) == ServiceRow(CustomerID(s, q), s.InternetService, k)
  <2>3. ASSUME NEW y \in table, IsRow(y)
        PROVE  \E s \in df, q \in Uniques(dup), k \in {1, 2} :
                 Kept(s.InternetService, k) /\ y = Made(s, q, k)
    <3>1. PICK x \in InternetFeatures(df), q \in Uniques(dup) : IsRow(x) /\ y = Replica(x, q)
      BY <2>1, <2>3
    <3>2. PICK s \in df, k \in {1, 2} :
            Kept(s.InternetService, k) /\ x = ServiceRow(s.customerID, s.InternetService, k)
      BY <1>1, <3>1
    <3> QED
      BY <2>2, <3>1, <3>2
  <2>4. ASSUME NEW s \in df, NEW q \in Uniques(dup), NEW k \in {1, 2}, Kept(s.InternetService, k)
        PROVE  Made(s, q, k) \in table /\ IsRow(Made(s, q, k))
    <3> DEFINE x == ServiceRow(s.customerID, s.InternetService, k)
    <3>1. x \in InternetFeatures(df) /\ IsRow(x)
      BY <1>1, <2>4
    <3> HIDE DEF x
    <3>2. Replica(x, q) \in table /\ IsRow(Replica(x, q))
      BY <2>1, <3>1
    <3> QED
      BY <2>2, <3>2 DEF x
  <2> QED
    BY <2>3, <2>4
<1> SUFFICES ASSUME NEW id
             PROVE  LET rows == {y \in table : y.customerID = id /\ IsRow(y)}
                    IN \/ rows = {}
                       \/ \E v : v # "Yes" /\ rows = {ServiceRow(id, v, 1)}
                       \/ rows = {ServiceRow(id, "Yes", 1), ServiceRow(id, "Yes", 2)}
  <2>1. \A i : Etl!UntidyRows(table, i, "InternetService") = {y \in table : y.customerID = i /\ IsRow(y)}
    BY DEF Etl!UntidyRows, Etl!Of, IsRow
  <2> QED
    BY <2>1 DEF TwiceIfYes, table
<1> DEFINE rows == {y \in table : y.customerID = id /\ IsRow(y)}
<1>6. \A i, v, k : ServiceRow(i, v, k).customerID = i
  BY DEF ServiceRow
<1>7. CASE rows = {}
  BY <1>7
<1>8. ASSUME NEW y0 \in rows
      PROVE  \/ \E v : v # "Yes" /\ rows = {ServiceRow(id, v, 1)}
             \/ rows = {ServiceRow(id, "Yes", 1), ServiceRow(id, "Yes", 2)}
  <2>1. PICK s \in df, r \in Uniques(dup) : id = CustomerID(s, r) /\ s.InternetService # "No"
    BY <1>5, <1>6 DEF Kept
  <2>2. \A t \in df : \A q : CustomerID(t, q) = id => t = s
    BY <2>1, ReplicasDiffer
  <2>3. \A y : y \in rows <=> \E k \in {1, 2} :
          Kept(s.InternetService, k) /\ y = ServiceRow(id, s.InternetService, k)
    BY <1>5, <1>6, <2>1, <2>2
  <2>4. CASE s.InternetService = "Yes"
    BY <2>3, <2>4 DEF Kept
  <2>5. CASE s.InternetService # "Yes"
    <3>1. rows = {ServiceRow(id, s.InternetService, 1)}
      BY <2>1, <2>3, <2>5 DEF Kept
    <3> QED
      BY <2>5, <3>1
  <2> QED
    BY <2>4, <2>5
<1> QED
  BY <1>7, <1>8

-----------------------------------------------------------------------------
(* What the charges of a customer add up to.                                *)

LEMMA Multiply ==
  ASSUME NEW n \in Nat, NEW x \in Int, NEW y \in Int, x <= y
  PROVE  n * x \in Int /\ n * y \in Int /\ n * x <= n * y
OBVIOUS

LEMMA DivideBy ==
  ASSUME NEW a \in Int, NEW b \in Nat \ {0}
  PROVE  /\ a \div b \in Int
         /\ b * (a \div b) <= a /\ a < b * (a \div b) + b
OBVIOUS

\* A cast to the currency type is off by half a cent at most.
LEMMA CurrencyRounds ==
  ASSUME NEW type, NEW a \in Int
  PROVE  /\ Currency(type, a) \in Int
         /\ 2 * (Currency(type, a) - a) <= Cent /\ -2 * (Currency(type, a) - a) <= Cent
<1>1. Cent \in Nat \ {0}
  BY ChurnSourceAssumption
<1>2. CASE type = "decimal"
  <2> DEFINE q == (2 * a + Cent) \div (2 * Cent)
             b == 2 * Cent
             e == 2 * a + Cent
  <2>1. q \in Int /\ b * q <= e /\ e < b * q + b
    <3>1. e \in Int /\ b \in Nat \ {0}
      BY <1>1
    <3>2. q = e \div b
      OBVIOUS
    <3> HIDE DEF e, b, q
    <3> QED
      BY <3>1, <3>2, DivideBy
  <2>2. Currency(type, a) = Cent * q
    BY <1>2 DEF Currency
  <2> HIDE DEF q
  <2>3. Cent * q \in Int /\ b * q = 2 * (Cent * q)
    BY <1>1, <2>1
  <2> DEFINE c == Cent * q
  <2>4. c \in Int /\ 2 * c <= 2 * a + Cent /\ 2 * a + Cent < 2 * c + 2 * Cent
    BY <2>1, <2>3
  <2> HIDE DEF c
  <2>5. 2 * (c - a) <= Cent /\ -2 * (c - a) <= Cent
    BY <1>1, <2>4
  <2> QED
    BY <2>2, <2>4, <2>5 DEF c
<1>3. CASE type # "decimal"
  BY <1>1, <1>3 DEF Currency
<1> QED
  BY <1>2, <1>3

\* Values that are all the same add up to a multiple.
LEMMA SumOfEqualValues ==
  ASSUME NEW S, IsFiniteSet(S), NEW v \in Int, \A x \in S : x.value = v
  PROVE  Etl!SumOfValues(S) = Cardinality(S) * v
<1> DEFINE First(s) == CHOOSE x \in s : TRUE
           Given(g) == g = [s \in SUBSET S |->
                              IF s = {} THEN 0 ELSE First(s).value + g[s \ {First(s)}]]
           sum == CHOOSE g : Given(g)
<1>1. Etl!SumOfValues(S) = sum[S]
  BY Zenon DEF Etl!SumOfValues, Etl!MapThenSumSet, Etl!MapThenFoldSet
<1> DEFINE Counted(s) == IsFiniteSet(s) /\ Cardinality(s) \in Nat /\ (s = {} <=> Cardinality(s) = 0)
           Taken(s) == /\ First(s) \in s /\ First(s).value = v /\ s \ {First(s)} \in SUBSET S
                       /\ Cardinality(s \ {First(s)}) = Cardinality(s) - 1
<1>2. \A s \in SUBSET S : Counted(s)
  BY FS_Subset, FS_CardinalityType, FS_EmptySet
<1>3. ASSUME NEW s \in SUBSET S, s # {} PROVE Taken(s)
  <2>1. First(s) \in s
    BY <1>3
  <2> HIDE DEF First
  <2>2. Cardinality(s \ {First(s)}) = Cardinality(s) - 1
    BY <1>2, <2>1, FS_RemoveElement
  <2> QED
    BY <2>1, <2>2
<1> HIDE DEF First
<1>4. \E g : Given(g)
  <2> DEFINE g == [s \in SUBSET S |-> Cardinality(s) * v]
  <2>1. ASSUME NEW s \in SUBSET S
        PROVE  g[s] = IF s = {} THEN 0 ELSE First(s).value + g[s \ {First(s)}]
    <3> DEFINE c == Cardinality(s)
    <3>1. CASE s = {}
      <4>1. c = 0 /\ g[s] = c * v
        BY <1>2, <3>1
      <4> HIDE DEF c, g
      <4> QED
        BY <3>1, <4>1
    <3>2. CASE s # {}
      <4>1. Taken(s)
        BY <1>3, <3>2
      <4>2. c \in Nat /\ g[s] = c * v /\ g[s \ {First(s)}] = (c - 1) * v
        BY <1>2, <4>1
      <4>3. First(s).value = v
        BY <4>1
      <4> HIDE DEF c, g, Taken
      <4>4. v + (c - 1) * v = c * v
        BY <4>2
      <4> QED
        BY <3>2, <4>2, <4>3, <4>4
    <3> QED
      BY <3>1, <3>2
  <2>2. g = [s \in SUBSET S |-> g[s]]
    OBVIOUS
  <2> HIDE DEF g
  <2>3. Given(g)
    BY <2>1, <2>2
  <2> QED
    BY <2>3
<1>5. Given(sum)
  BY <1>4, Zenon
<1> HIDE DEF sum
<1>6. \A s \in SUBSET S : sum[s] = IF s = {} THEN 0 ELSE First(s).value + sum[s \ {First(s)}]
  BY <1>5
<1> HIDE DEF Given
<1> DEFINE n == Cardinality(S)
           G == {k \in 0 .. n : \A s \in SUBSET S : Cardinality(s) = k => sum[s] = k * v}
<1>7. n \in Nat
  BY FS_CardinalityType
<1>8. Inductive(G, 0, n)
  <2>1. 0 \in G
    <3>1. ASSUME NEW s \in SUBSET S, Cardinality(s) = 0 PROVE sum[s] = 0
      <4>1. s = {}
        BY <1>2, <3>1
      <4> QED
        BY <1>6, <4>1
    <3> QED
      BY <1>7, <3>1
  <2>2. ASSUME NEW k \in 0 + 1 .. n, k - 1 \in G PROVE k \in G
    <3>1. ASSUME NEW s \in SUBSET S, Cardinality(s) = k PROVE sum[s] = k * v
      <4>1. s # {} /\ k \in Int
        <5>1. k # 0 /\ k \in Int
          BY <1>7
        <5> QED
          BY <1>2, <3>1, <5>1
      <4>2. Taken(s)
        BY <1>3, <4>1
      <4>3. sum[s \ {First(s)}] = (k - 1) * v
        BY <2>2, <3>1, <4>2
      <4>4. sum[s] = v + (k - 1) * v
        BY <1>6, <4>1, <4>2, <4>3
      <4> QED
        BY <4>1, <4>4
    <3> QED
      BY <1>7, <3>1
  <2> HIDE DEF G
  <2> QED
    BY <2>1, <2>2 DEF Inductive
<1>9. n \in G
  <2> HIDE DEF G, n
  <2>1. 0 \in Nat /\ n \in Int /\ n \in 0 .. n
    BY <1>7
  <2> QED
    BY <1>8, <2>1, IntervalInduction
<1> QED
  BY <1>1, <1>9

CreationAt(row, r, month) ==
  [customerID |-> CustomerID(row, r), kind |-> "AccountCreation", value |-> 0,
   date |-> month - row.tenure - 1 + LastMonth(row)]
TerminationAt(row, r, month) ==
  [customerID |-> CustomerID(row, r), kind |-> "AccountTermination", value |-> 0,
   date |-> month + LastMonth(row)]

\* Each replica of each customer has one creation, and a termination if it churned.
LEMMA OtherEventsAre ==
  ASSUME NEW type, NEW month, NEW dup, NEW x
  PROVE  LET B == ReplicateDf(BillingEvents(df, type, month), dup)
         IN /\ x \in B /\ x.kind = "AccountCreation" <=>
                 \E row \in df, r \in Uniques(dup) : x = CreationAt(row, r, month)
            /\ x \in B /\ x.kind = "AccountTermination" <=>
                 \E row \in df, r \in Uniques(dup) : row.Churn /\ x = TerminationAt(row, r, month)
<1> DEFINE B == ReplicateDf(BillingEvents(df, type, month), dup)
           Copy(y, r) == [y EXCEPT !.customerID = CustomerID(y, r)]
           Creation(row) ==
             [customerID |-> row.customerID, kind |-> "AccountCreation", value |-> 0,
              date |-> month - row.tenure - 1 + LastMonth(row)]
           Termination(row) ==
             [customerID |-> row.customerID, kind |-> "AccountTermination", value |-> 0,
              date |-> month + LastMonth(row)]
<1>1. \A y : y \in BillingEvents(df, type, month) =>
        DOMAIN y = {"customerID", "kind", "value", "date"}
  BY DEF BillingEvents, Charges, ServiceStarts, ServiceTerminations
<1>2. \A y : y \in BillingEvents(df, type, month) /\ y.kind = "AccountCreation" <=>
        \E row \in df : y = Creation(row)
  BY DEF BillingEvents, Charges, ServiceStarts, ServiceTerminations
<1>3. \A y : y \in BillingEvents(df, type, month) /\ y.kind = "AccountTermination" <=>
        \E row \in df : row.Churn /\ y = Termination(row)
  BY DEF BillingEvents, Charges, ServiceStarts, ServiceTerminations
<1>4. \A row, r : /\ Copy(Creation(row), r) = CreationAt(row, r, month)
                  /\ Copy(Termination(row), r) = TerminationAt(row, r, month)
  BY DEF CreationAt, TerminationAt, CustomerID
<1>5. \A y, r : DOMAIN y = {"customerID", "kind", "value", "date"} => Copy(y, r).kind = y.kind
  OBVIOUS
<1>6. \A row, r : /\ CreationAt(row, r, month).kind = "AccountCreation"
                  /\ TerminationAt(row, r, month).kind = "AccountTermination"
  BY DEF CreationAt, TerminationAt
<1>7. \A z : z \in B <=>
        \E y \in BillingEvents(df, type, month), r \in Uniques(dup) : z = Copy(y, r)
  BY DEF ReplicateDf
<1> HIDE DEF Creation, Termination, Copy, B
<1>8. x \in B /\ x.kind = "AccountCreation" <=>
        \E row \in df, r \in Uniques(dup) : x = CreationAt(row, r, month)
  BY <1>1, <1>2, <1>4, <1>5, <1>6, <1>7
<1>9. x \in B /\ x.kind = "AccountTermination" <=>
        \E row \in df, r \in Uniques(dup) : row.Churn /\ x = TerminationAt(row, r, month)
  BY <1>1, <1>3, <1>4, <1>5, <1>6, <1>7
<1> QED
  BY <1>8, <1>9 DEF B

\* The customers of the billing events are the replicas of those of the file.
LEMMA CustomersAre ==
  ASSUME InputInv, NEW type, NEW month, NEW dup
  PROVE  Etl!FindCustomers(ReplicateDf(BillingEvents(df, type, month), dup)) =
           {CustomerID(row, r) : row \in df, r \in Uniques(dup)}
<1> DEFINE B == ReplicateDf(BillingEvents(df, type, month), dup)
<1>1. \A x \in B : \E row \in df, r \in Uniques(dup) : x.customerID = CustomerID(row, r)
  BY ReplicatedBilling
<1>2. ASSUME NEW row \in df, NEW r \in Uniques(dup)
      PROVE  \E x \in B : x.customerID = CustomerID(row, r)
  <2>1. CreationAt(row, r, month) \in B
    BY OtherEventsAre
  <2> QED
    BY <2>1 DEF CreationAt
<1> HIDE DEF B
<1>3. Etl!FindCustomers(B) = {CustomerID(row, r) : row \in df, r \in Uniques(dup)}
  BY <1>1, <1>2 DEF Etl!FindCustomers
<1> QED
  BY <1>3 DEF B

\* A customer has a charge for each month of its tenure, all of them the same.
LEMMA CustomerCharged ==
  ASSUME InputInv, NEW type, NEW month \in Int, NEW dup, NEW s \in df, NEW r \in Uniques(dup),
         NEW C, C = ChargesOf(ReplicateDf(BillingEvents(df, type, month), dup), CustomerID(s, r))
  PROVE  /\ IsFiniteSet(C) /\ Cardinality(C) = s.tenure /\ s.tenure \in Nat
         /\ \A e \in C : e.value = Currency(type, s.TotalCharges \div s.tenure)
<1> DEFINE n == s.tenure
           last == LastMonth(s)
           f == [i \in 1 .. n |-> Charge(s, r, type, month, i)]
<1>1. n \in Nat /\ last \in Int
  BY DfTypeHolds DEF DfType
<1>2. \A t \in df : \A q : CustomerID(t, q) = CustomerID(s, r) => t = s /\ q = r
  BY ReplicasDiffer
<1>3. \A t, q, i : Charge(t, q, type, month, i).customerID = CustomerID(t, q)
  BY DEF Charge
<1>4. \A x : x \in C <=> \E i \in 1 .. n : x = Charge(s, r, type, month, i)
  BY <1>2, <1>3, ChargesAre DEF ChargesOf
<1>5. \A i : Charge(s, r, type, month, i).date = month - (i + last)
  BY DEF Charge
<1>6. \A i : Charge(s, r, type, month, i).value = Currency(type, s.TotalCharges \div s.tenure)
  BY DEF Charge
<1> HIDE DEF n, last
<1>7. f \in Bijection(1 .. n, C)
  <2>1. f \in [1 .. n -> C]
    BY <1>4
  <2>2. ASSUME NEW i \in 1 .. n, NEW j \in 1 .. n, f[i] = f[j] PROVE i = j
    <3>1. month - (i + last) = month - (j + last)
      BY <1>5, <2>2
    <3>2. i \in Int /\ j \in Int
      BY <1>1
    <3> QED
      BY <1>1, <3>1, <3>2
  <2>3. \A x \in C : \E i \in 1 .. n : f[i] = x
    BY <1>4
  <2> HIDE DEF f
  <2> QED
    BY <2>1, <2>2, <2>3 DEF Bijection, Injection, Surjection, IsInjective
<1> HIDE DEF f
<1>8. IsFiniteSet(1 .. n) /\ Cardinality(1 .. n) = n
  <2>1. n \in Int /\ 1 \in Int /\ (1 > n => n = 0) /\ n - 1 + 1 = n
    BY <1>1
  <2> QED
    BY <2>1, FS_Interval
<1>9. IsFiniteSet(C) /\ Cardinality(C) = Cardinality(1 .. n)
  BY <1>7, <1>8, FS_Bijection DEF ExistsBijection
<1> QED
  BY <1>1, <1>4, <1>6, <1>8, <1>9 DEF n

\* What the customer was charged in total is the source's amount, give or take half a cent
\* for each charge.
LEMMA TotalIsNear ==
  ASSUME InputInv, NEW type, NEW s \in df, NEW C, IsFiniteSet(C), Cardinality(C) = s.tenure,
         \A e \in C : e.value = Currency(type, s.TotalCharges \div s.tenure),
         NEW row, row.TotalCharges = Etl!SumOfValues(C)
  PROVE  TotalAgrees(row, s)
<1> DEFINE n == s.tenure
           total == s.TotalCharges
           sum == Etl!SumOfValues(C)
<1>1. /\ n \in Nat /\ Cent \in Nat
      /\ \/ total = 0 /\ n = 0
         \/ total \in Int /\ n # 0 /\ total = n * (total \div n)
  BY SourceIsConsistent, ChurnSourceAssumption DEF Consistent
<1>2. CASE n = 0
  <2>1. C = {} /\ 0 \in Int
    BY <1>2, FS_EmptySet
  <2>2. sum = Cardinality(C) * 0
    BY <2>1, SumOfEqualValues
  <2>3. sum = 0 /\ total = 0
    BY <1>1, <1>2, <2>2
  <2> HIDE DEF sum, n, total
  <2> QED
    BY <1>1, <1>2, <2>3 DEF TotalAgrees, sum, n, total
<1>3. CASE n # 0
  <2> DEFINE a == total \div n
             v == Currency(type, a)
  <2>1. a \in Int /\ total = n * a
    BY <1>1, <1>3, DivideBy
  <2>2. v \in Int /\ 2 * (v - a) <= Cent /\ -2 * (v - a) <= Cent
    BY <2>1, CurrencyRounds
  <2>3. sum = n * v
    <3>1. \A e \in C : e.value = v
      OBVIOUS
    <3> HIDE DEF v
    <3> QED
      BY <2>2, <3>1, SumOfEqualValues
  <2> HIDE DEF sum, n, total, a, v
  <2> DEFINE x == v - a
  <2>4. x \in Int /\ 2 * x \in Int /\ -2 * x \in Int /\ n * v = n * x + n * a
    BY <1>1, <2>1, <2>2
  <2>5. n * (2 * x) <= n * Cent /\ n * (-2 * x) <= n * Cent
    BY <1>1, <2>2, <2>4, Multiply
  <2>6. sum - total = n * x /\ n * x \in Int
    BY <1>1, <2>1, <2>3, <2>4
  <2> HIDE DEF x
  <2>7. 2 * (sum - total) <= Cent * n /\ -2 * (sum - total) <= Cent * n
    BY <1>1, <2>4, <2>5, <2>6
  <2> QED
    BY <2>7 DEF TotalAgrees, sum, n, total
<1> QED
  BY <1>2, <1>3

LEMMA BillingJoined ==
  ASSUME InputInv, NEW type, NEW month \in Int, NEW dup \in DupTimes,
         NEW s \in df, NEW r \in Uniques(dup),
         NEW x \in Etl!OrNull(Etl!Of(
           Etl!JoinBillingData(ReplicateDf(BillingEvents(df, type, month), dup)),
           CustomerID(s, r)))
  PROVE  x.Churn = s.Churn /\ x.tenure = s.tenure /\ TotalAgrees(x, s)
<1> DEFINE id == CustomerID(s, r)
           B == ReplicateDf(BillingEvents(df, type, month), dup)
           J == Etl!JoinBillingData(B)
           Left(i) == {e.customerID : e \in
                         {e \in Etl!Of(B, i) : e.kind = "AccountTermination"}}
           Charged(i) == {e \in Etl!Of(B, i) : e.kind = "Charge"}
           Row(i, t) == [customerID |-> i, Churn |-> t # Null,
                         tenure |-> Etl!Cardinality(Charged(i)),
                         TotalCharges |-> Etl!SumOfValues(Charged(i))]
<1>1. \A y : y \in J <=>
        \E i \in Etl!FindCustomers(B) : \E t \in Etl!OrNull(Left(i)) : y = Row(i, t)
  <2>1. J = UNION {{Row(i, t) : t \in Etl!OrNull(Left(i))} : i \in Etl!FindCustomers(B)}
    BY Zenon DEF Etl!JoinBillingData
  <2> HIDE DEF J, Row, Left, B
  <2> QED
    BY <2>1
<1>2. id \in Etl!FindCustomers(B)
  BY CustomersAre
<1>3. Charged(id) = ChargesOf(B, id)
  BY DEF ChargesOf, Etl!Of
<1>4. \A t : t \in Left(id) <=> s.Churn /\ t = id
  <2>1. \A t : t \in Left(id) <=>
          t = id /\ \E e \in B : e.customerID = id /\ e.kind = "AccountTermination"
    BY DEF Etl!Of
  <2>2. ASSUME NEW e \in B, e.customerID = id, e.kind = "AccountTermination" PROVE s.Churn
    <3>1. PICK row \in df, q \in Uniques(dup) : row.Churn /\ e = TerminationAt(row, q, month)
      BY <2>2, OtherEventsAre
    <3>2. e.customerID = CustomerID(row, q)
      BY <3>1 DEF TerminationAt
    <3>3. row = s
      BY <2>2, <3>2, ReplicasDiffer
    <3> QED
      BY <3>1, <3>3
  <2>3. ASSUME s.Churn PROVE \E e \in B : e.customerID = id /\ e.kind = "AccountTermination"
    <3>1. TerminationAt(s, r, month) \in B
      BY <2>3, OtherEventsAre
    <3>2. /\ TerminationAt(s, r, month).customerID = id
          /\ TerminationAt(s, r, month).kind = "AccountTermination"
      BY DEF TerminationAt
    <3> QED
      BY <3>1, <3>2
  <2> HIDE DEF B, Left
  <2> QED
    BY <2>1, <2>2, <2>3
<1> HIDE DEF Left
<1>5. \A i, t : /\ Row(i, t).customerID = i /\ Row(i, t).Churn = (t # Null)
                /\ Row(i, t).tenure = Cardinality(Charged(i))
                /\ Row(i, t).TotalCharges = Etl!SumOfValues(Charged(i))
  BY SameCard
<1> HIDE DEF Row, Charged, J
<1>6. Etl!Of(J, id) # {}
  <2>1. PICK t : t \in Etl!OrNull(Left(id))
    BY OrNullIsThere
  <2>2. Row(id, t) \in J
    BY <1>1, <1>2, <2>1
  <2> QED
    BY <1>5, <2>2 DEF Etl!Of
<1>7. x \in J /\ x.customerID = id
  BY <1>6, OrNullMember DEF Etl!Of, J
<1>8. PICK t \in Etl!OrNull(Left(id)) : x = Row(id, t)
  BY <1>1, <1>5, <1>7
<1>9. t # Null <=> s.Churn
  <2>1. t \in Left(id) \/ (Left(id) = {} /\ t = Null)
    BY OrNullMember
  <2>2. id # Null
    BY SourceIsConsistent
  <2> QED
    BY <1>4, <2>1, <2>2
<1>10. x.Churn = s.Churn
  <2>1. s.Churn \in BOOLEAN /\ x.Churn = (t # Null)
    BY <1>5, <1>8, SourceIsConsistent DEF Consistent
  <2> QED
    BY <1>9, <2>1
<1> DEFINE C == Charged(id)
<1>11. /\ IsFiniteSet(C) /\ Cardinality(C) = s.tenure
       /\ \A e \in C : e.value = Currency(type, s.TotalCharges \div s.tenure)
  BY <1>3, CustomerCharged
<1>12. x.tenure = Cardinality(C) /\ x.TotalCharges = Etl!SumOfValues(C)
  BY <1>5, <1>8
<1> HIDE DEF C
<1>13. TotalAgrees(x, s)
  BY <1>11, <1>12, TotalIsNear
<1> QED
  BY <1>10, <1>11, <1>12, <1>13

\* The date of birth of a replica, from the age that its hash makes.
Born(s, r) == now - age[s.SeniorCitizen][r]

LEMMA MetaRows ==
  ASSUME InputInv, NEW dup, NEW s \in df, NEW r \in Uniques(dup)
  PROVE  /\ \A y \in CustomerMeta(df, dup, age, now) :
              y.customerID = CustomerID(s, r) => y.now = now /\ y.dateOfBirth = Born(s, r)
         /\ \E y \in CustomerMeta(df, dup, age, now) : y.customerID = CustomerID(s, r)
<1> DEFINE Copy(t, q) == [t EXCEPT !.customerID = CustomerID(t, q)]
           Row(z) == [customerID |-> z.customerID, now |-> now,
                      dateOfBirth |-> now - age[z.SeniorCitizen][z.customerID[2]]]
           M == CustomerMeta(df, dup, age, now)
<1>1. ASSUME NEW t \in df, NEW q
      PROVE  /\ Row(Copy(t, q)).customerID = CustomerID(t, q)
             /\ Row(Copy(t, q)).now = now /\ Row(Copy(t, q)).dateOfBirth = Born(t, q)
  <2>1. "customerID" \in DOMAIN t
    BY ChurnPipelineAssumption DEF InputInv, df, LoadSuppliedData
  <2>2. /\ Copy(t, q).customerID = CustomerID(t, q)
        /\ Copy(t, q).SeniorCitizen = t.SeniorCitizen
    BY <2>1
  <2>3. CustomerID(t, q)[2] = q
    BY DEF CustomerID
  <2> HIDE DEF Copy
  <2> QED
    BY <2>2, <2>3 DEF Born
<1>2. \A z : z \in ReplicateDf(df, dup) <=> \E t \in df, q \in Uniques(dup) : z = Copy(t, q)
  BY DEF ReplicateDf
<1>3. \A y : y \in M <=> \E z \in ReplicateDf(df, dup) : y = Row(z)
  BY DEF CustomerMeta
<1> HIDE DEF Copy, Row, M
<1>4. ASSUME NEW y \in M, y.customerID = CustomerID(s, r)
      PROVE  y.now = now /\ y.dateOfBirth = Born(s, r)
  <2>1. PICK t \in df, q \in Uniques(dup) : y = Row(Copy(t, q))
    BY <1>2, <1>3
  <2>2. t = s /\ q = r
    BY <1>1, <1>4, <2>1, ReplicasDiffer
  <2> QED
    BY <1>1, <2>1, <2>2
<1>5. Row(Copy(s, r)) \in M
  BY <1>2, <1>3
<1> QED
  BY <1>1, <1>4, <1>5 DEF M

\* Whom the calendar arithmetic finds is whom the source calls a senior citizen, but for
\* those of the least age.
LEMMA MetaJoined ==
  ASSUME InputInv, NEW dup \in DupTimes, NEW s \in df, NEW r \in Uniques(dup),
         useCalendarArithmetic,
         NEW x \in Etl!OrNull(Etl!Of(
           Etl!ProcessAccountMeta(CustomerMeta(df, dup, age, now), useCalendarArithmetic),
           CustomerID(s, r)))
  PROVE  \/ x.SeniorCitizen = s.SeniorCitizen
         \/ s.SeniorCitizen /\ age[TRUE][r] = LeastAge(TRUE)
<1> DEFINE id == CustomerID(s, r)
           M == CustomerMeta(df, dup, age, now)
           P == Etl!ProcessAccountMeta(M, useCalendarArithmetic)
           Row(y) == [customerID |-> y.customerID, SeniorCitizen |-> SeniorOn(y.now, y.dateOfBirth)]
<1>1. \A p : p \in P <=> \E y \in M : p = Row(y)
  BY DEF Etl!ProcessAccountMeta, Etl!IsSeniorCitizen, SeniorOn
<1>2. /\ \A y \in M : y.customerID = id => y.now = now /\ y.dateOfBirth = Born(s, r)
      /\ \E y \in M : y.customerID = id
  BY MetaRows
<1>3. \A y : Row(y).customerID = y.customerID
  OBVIOUS
<1> HIDE DEF P, M
<1>4. Etl!Of(P, id) # {}
  <2> HIDE DEF Row
  <2> QED
    BY <1>1, <1>2, <1>3 DEF Etl!Of
<1>5. x \in P /\ x.customerID = id
  BY <1>4, OrNullMember DEF Etl!Of, P, M
<1>6. PICK y \in M : x = Row(y)
  BY <1>1, <1>5
<1>7. x.SeniorCitizen = SeniorOn(now, Born(s, r))
  BY <1>2, <1>3, <1>5, <1>6
<1>8. /\ \A senior \in BOOLEAN : age[senior][r] \in AgesOf(senior)
      /\ now \in Int
  BY ChurnPipelineAssumption DEF InputInv
<1>9. CASE s.SeniorCitizen = TRUE
  <2> DEFINE years == age[TRUE][r]
             least == LeastAge(TRUE)
  <2>1. Born(s, r) = now - years
    BY <1>9 DEF Born
  <2>2. years \in AgesOf(TRUE)
    BY <1>8
  <2> HIDE DEF years
  <2>3. years \in Int /\ least = 23741 /\ years >= 23741
    BY <2>2 DEF AgesOf, LeastAge
  <2> HIDE DEF least
  <2>4. years # least => SeniorOn(now, now - years)
    BY <1>8, <2>3, SeniorByCalendar
  <2>5. years = least \/ x.SeniorCitizen = s.SeniorCitizen
    BY <1>7, <1>9, <2>1, <2>4
  <2> QED
    BY <1>9, <2>5, Zenon DEF years, least
<1>10. CASE s.SeniorCitizen = FALSE
  <2> DEFINE years == age[FALSE][r]
  <2>1. Born(s, r) = now - years
    BY <1>10 DEF Born
  <2>2. years \in AgesOf(FALSE)
    BY <1>8
  <2> HIDE DEF years
  <2>3. years \in Int /\ years <= 23375
    BY <2>2 DEF AgesOf
  <2>4. ~SeniorOn(now, now - years)
    BY <1>8, <2>3, SeniorByCalendar
  <2>5. SeniorOn(now, now - years) = FALSE
    BY <2>4 DEF SeniorOn
  <2>6. x.SeniorCitizen = s.SeniorCitizen
    BY <1>7, <1>10, <2>1, <2>5
  <2> QED
    BY <2>6
<1> QED
  BY <1>9, <1>10, SourceIsConsistent DEF Consistent

-----------------------------------------------------------------------------
(* The wide table from tables of one run.                                   *)

LEMMA WideRows ==
  ASSUME NEW ids, NEW b, NEW p, NEW i, NEW a, NEW m,
         NEW row \in Etl!JoinWideTable(ids, b, p, i, a, m)
  PROVE  /\ row.customerID \in ids
         /\ row.billing \in Etl!OrNull(Etl!Of(b, row.customerID))
         /\ row.phone \in Etl!OrNull(Etl!Of(p, row.customerID))
         /\ row.internet \in Etl!OrNull(Etl!Of(i, row.customerID))
         /\ row.account \in Etl!OrNull(Etl!Of(a, row.customerID))
         /\ row.meta \in Etl!OrNull(Etl!Of(m, row.customerID))
<1> DEFINE Matches(t, id) == Etl!OrNull(Etl!Of(t, id))
<1>1. PICK id \in ids : \E vb \in Matches(b, id), vp \in Matches(p, id), vi \in Matches(i, id),
                          va \in Matches(a, id), vm \in Matches(m, id) :
        row = [customerID |-> id, billing |-> vb, phone |-> vp, internet |-> vi,
               account |-> va, meta |-> vm]
  BY DEF Etl!JoinWideTable
<1> HIDE DEF Matches
<1>2. /\ row.customerID = id /\ row.billing \in Matches(b, id) /\ row.phone \in Matches(p, id)
      /\ row.internet \in Matches(i, id) /\ row.account \in Matches(a, id)
      /\ row.meta \in Matches(m, id)
  BY <1>1
<1> QED
  BY <1>2 DEF Matches

\* The tables of a run with the given options, which are settled when it writes one.
RunOptions == [dup_times : DupTimes, type : Types]
RowsOf(name, o) ==
  CASE name = "billing_events" ->
         ReplicateDf(BillingEvents(df, o.type, Calendar!MonthOf(now)), o.dup_times)
    [] name = "customer_meta" -> CustomerMeta(df, o.dup_times, age, now)
    [] name = "customer_phone_features" -> ReplicateDf(PhoneFeatures(df), o.dup_times)
    [] name = "customer_internet_features" -> ReplicateDf(InternetFeatures(df), o.dup_times)
    [] name = "customer_account_features" -> ReplicateDf(AccountFeatures(df), o.dup_times)

\* What a row of the wide table says of a replica of a customer.
SaysOf(row, s, r) ==
  /\ row.customerID = CustomerID(s, r) /\ SourceOf(row) = s /\ row.customerID[2] = r
  /\ Agrees(row, s)
  /\ useCalendarArithmetic =>
       \/ row.meta.SeniorCitizen = s.SeniorCitizen
       \/ s.SeniorCitizen /\ age[TRUE][r] = LeastAge(TRUE)

LEMMA OneRunReconstitutes ==
  ASSUME InputInv, NEW o \in RunOptions, NEW ids, ids = Etl!FindCustomers(RowsOf("billing_events", o)),
         NEW row \in Etl!JoinWideTable(ids,
           Etl!JoinBillingData(RowsOf("billing_events", o)),
           Etl!JoinPhoneFeatures(RowsOf("customer_phone_features", o), ids),
           Etl!JoinInternetFeatures(RowsOf("customer_internet_features", o), ids),
           Etl!JoinAccountFeatures(RowsOf("customer_account_features", o), ids),
           Etl!ProcessAccountMeta(RowsOf("customer_meta", o), useCalendarArithmetic))
  PROVE  \E s \in df : \E r \in Uniques(o.dup_times) : SaysOf(row, s, r)
<1> DEFINE dup == o.dup_times
           month == Calendar!MonthOf(now)
           b == Etl!JoinBillingData(RowsOf("billing_events", o))
           p == Etl!JoinPhoneFeatures(RowsOf("customer_phone_features", o), ids)
           i == Etl!JoinInternetFeatures(RowsOf("customer_internet_features", o), ids)
           a == Etl!JoinAccountFeatures(RowsOf("customer_account_features", o), ids)
           m == Etl!ProcessAccountMeta(RowsOf("customer_meta", o), useCalendarArithmetic)
<1>1. dup \in DupTimes /\ month \in Int
  BY MonthOfDay DEF RunOptions, InputInv
<1>2. /\ RowsOf("billing_events", o) = ReplicateDf(BillingEvents(df, o.type, month), dup)
      /\ RowsOf("customer_phone_features", o) = ReplicateDf(PhoneFeatures(df), dup)
      /\ RowsOf("customer_internet_features", o) = ReplicateDf(InternetFeatures(df), dup)
      /\ RowsOf("customer_account_features", o) = ReplicateDf(AccountFeatures(df), dup)
      /\ RowsOf("customer_meta", o) = CustomerMeta(df, dup, age, now)
  BY DEF RowsOf
<1> HIDE DEF dup, month
<1>3. ids = {CustomerID(s, r) : s \in df, r \in Uniques(dup)}
  BY <1>2, CustomersAre
<1> HIDE DEF b, p, i, a, m
<1>4. /\ row.customerID \in ids
      /\ row.billing \in Etl!OrNull(Etl!Of(b, row.customerID))
      /\ row.phone \in Etl!OrNull(Etl!Of(p, row.customerID))
      /\ row.internet \in Etl!OrNull(Etl!Of(i, row.customerID))
      /\ row.account \in Etl!OrNull(Etl!Of(a, row.customerID))
      /\ row.meta \in Etl!OrNull(Etl!Of(m, row.customerID))
  BY WideRows DEF b, p, i, a, m
<1>5. PICK s \in df, r \in Uniques(dup) : row.customerID = CustomerID(s, r)
  BY <1>3, <1>4
<1>6. CustomerID(s, r) \in ids
  BY <1>3
<1>7. /\ row.billing.Churn = s.Churn /\ row.billing.tenure = s.tenure
      /\ TotalAgrees(row.billing, s)
  BY <1>1, <1>2, <1>4, <1>5, BillingJoined DEF b
<1>8. row.phone.PhoneService = s.PhoneService /\ row.phone.MultipleLines = s.MultipleLines
  BY <1>2, <1>4, <1>5, <1>6, PhoneJoined DEF p
<1>9. row.internet.InternetService = s.InternetService /\ row.internet.addOn = s.addOn
  BY <1>2, <1>4, <1>5, <1>6, InternetJoined DEF i
<1>10. row.account.Contract = s.Contract /\ row.account.PaperlessBilling = s.PaperlessBilling
  BY <1>2, <1>4, <1>5, <1>6, AccountJoined DEF a
<1>11. ASSUME useCalendarArithmetic
       PROVE  \/ row.meta.SeniorCitizen = s.SeniorCitizen
              \/ s.SeniorCitizen /\ age[TRUE][r] = LeastAge(TRUE)
  BY <1>1, <1>2, <1>4, <1>5, <1>11, MetaJoined, ZenonT(40) DEF m
<1>12. SourceOf(row) = s /\ row.customerID[2] = r
  <2>1. row.customerID[1] = s.customerID /\ row.customerID[2] = r
    BY <1>5 DEF CustomerID
  <2>2. \A t \in df : t.customerID = s.customerID => t = s
    BY SourceIsConsistent
  <2> QED
    BY <2>1, <2>2 DEF SourceOf
<1>13. Agrees(row, s)
  BY <1>7, <1>8, <1>9, <1>10 DEF Agrees
<1>14. SaysOf(row, s, r)
  BY <1>5, <1>11, <1>12, <1>13 DEF SaysOf
<1> QED
  BY <1>14 DEF dup

-----------------------------------------------------------------------------
(* The invariant.                                                           *)

\* What holds of each table, whichever run it is from.
KeyedAs(name, rows) ==
  /\ name = "billing_events" =>
       LeaveOnce(rows) /\ ChargesInOrder(rows)
  /\ name = "customer_meta" => HasKey(rows)
  /\ name \in {"customer_phone_features", "customer_internet_features",
               "customer_account_features"} => IsTidy(rows)
  /\ name = "customer_internet_features" => TwiceIfYes(rows)

TablesInv ==
  /\ DOMAIN tables = Table
  /\ \A n \in Table : tables[n] # Null => KeyedAs(n, tables[n].rows)

JoinedInv ==
  /\ DOMAIN joined = Table
  /\ \A n \in Table : joined[n] # Null => KeyedAs(n, joined[n].rows)
  /\ joined["billing_events"] # Null =>
       customers = Etl!FindCustomers(joined["billing_events"].rows)

ReadInv == wide # Null => AllRead

IInv == InputInv /\ OptionsInv /\ TablesInv /\ JoinedInv /\ ReadInv /\ RowsPerCustomer

LEMMA TableIs ==
  Table = {"billing_events", "customer_meta", "customer_phone_features",
           "customer_internet_features", "customer_account_features"}
<1>1. DOMAIN Names = 1 .. 5
  BY DEF Names
<1> QED
  BY <1>1 DEF Table, Names

LEMMA RowsKeyed ==
  ASSUME InputInv, OptionsInv, cell # TopCell, NEW name \in Table
  PROVE  KeyedAs(name, Rows(name))
<1>1. CASE name = "billing_events"
  BY <1>1, BillingEventsLeaveOnce, BillingEventsChargesInOrder, MonthOfDay
     DEF KeyedAs, Rows, OptionsInv, InputInv
<1>2. CASE name = "customer_meta"
  BY <1>2, CustomerMetaKey DEF KeyedAs, Rows
<1>3. CASE name = "customer_phone_features"
  BY <1>3, PhoneFeaturesTidy, ReplicateTidy DEF KeyedAs, Rows
<1>4. CASE name = "customer_internet_features"
  BY <1>4, InternetFeaturesTidy, ReplicateTidy, InternetTwiceIfYes DEF KeyedAs, Rows
<1>5. CASE name = "customer_account_features"
  BY <1>5, AccountFeaturesTidy, ReplicateTidy DEF KeyedAs, Rows
<1> QED
  BY <1>1, <1>2, <1>3, <1>4, <1>5, TableIs

LEMMA WriteWideRows == ASSUME IInv, WriteWide PROVE RowsPerCustomer'
<1> DEFINE internet == joined["customer_internet_features"].rows
           b == Etl!JoinBillingData(joined["billing_events"].rows)
           p == Etl!JoinPhoneFeatures(joined["customer_phone_features"].rows, customers)
           i == Etl!JoinInternetFeatures(internet, customers)
           a == Etl!JoinAccountFeatures(joined["customer_account_features"].rows, customers)
           m == Etl!ProcessAccountMeta(joined["customer_meta"].rows, useCalendarArithmetic)
           W(id) == {row \in wide' : row.customerID = id}
<1>1. \A n \in Table : KeyedAs(n, joined[n].rows)
  BY DEF IInv, JoinedInv, WriteWide, AllRead
<1>2. HasKey(b) /\ HasKey(p) /\ HasKey(a) /\ HasKey(m)
  BY <1>1, TableIs, JoinBillingDataKey, JoinPhoneFeaturesKey, JoinAccountFeaturesKey,
     ProcessAccountMetaKey DEF KeyedAs
<1>3. IsTidy(internet) /\ TwiceIfYes(internet)
  BY <1>1, TableIs DEF KeyedAs
<1>4. wide' = Etl!JoinWideTable(customers, b, p, i, a, m) /\ customers' = customers /\ joined' = joined
  BY DEF WriteWide
<1> HIDE DEF internet
<1>5. \A id \in customers : MatchedTo(Etl!Of(i, id), ServiceMatches(internet, id))
  BY <1>3, JoinInternetFeaturesRows
<1> HIDE DEF b, p, i, a, m
<1>6. /\ {row.customerID : row \in wide'} = customers
      /\ \A id \in customers : WideMatchedTo(W(id), ServiceMatches(internet, id))
  BY <1>2, <1>4, <1>5, JoinWideTableRows
<1> HIDE DEF W
<1>7. ASSUME NEW id \in customers
      PROVE  Cardinality(W(id)) = IF id \in ServiceIsYes THEN 2 ELSE 1
  <2> DEFINE rows == Etl!UntidyRows(internet, id, "InternetService")
             M == ServiceMatches(internet, id)
  <2>1. id \in ServiceIsYes <=> \E e \in rows : e.value = "Yes"
    BY DEF ServiceIsYes, Etl!UntidyRows, Etl!Of, internet
  <2>2. M = Etl!OrRowOfNulls(rows)
    BY DEF ServiceMatches
  <2>3. \/ rows = {}
        \/ \E v : v # "Yes" /\ rows = {ServiceRow(id, v, 1)}
        \/ rows = {ServiceRow(id, "Yes", 1), ServiceRow(id, "Yes", 2)}
    BY <1>3 DEF TwiceIfYes
  <2> HIDE DEF rows, M
  <2>4. \E u, v : M = {u, v} /\ (u = v <=> id \notin ServiceIsYes)
    <3>1. \A v, k : ServiceRow(id, v, k).value = v /\ ServiceRow(id, v, k).copy = k
      BY DEF ServiceRow
    <3>2. CASE rows = {}
      BY <2>1, <2>2, <3>2 DEF Etl!OrRowOfNulls
    <3>3. ASSUME NEW v, v # "Yes", rows = {ServiceRow(id, v, 1)}
          PROVE  \E x, y : M = {x, y} /\ (x = y <=> id \notin ServiceIsYes)
      BY <2>1, <2>2, <3>1, <3>3 DEF Etl!OrRowOfNulls
    <3>4. CASE rows = {ServiceRow(id, "Yes", 1), ServiceRow(id, "Yes", 2)}
      <4>1. ServiceRow(id, "Yes", 1) # ServiceRow(id, "Yes", 2)
        BY <3>1
      <4>2. M = rows /\ id \in ServiceIsYes
        BY <2>1, <2>2, <3>1, <3>4 DEF Etl!OrRowOfNulls
      <4> QED
        BY <3>4, <4>1, <4>2
    <3> QED
      BY <2>3, <3>2, <3>3, <3>4
  <2>5. PICK u, v : M = {u, v} /\ (u = v <=> id \notin ServiceIsYes)
    BY <2>4
  <2>6. WideMatchedTo(W(id), {u, v})
    BY <1>6, <2>5 DEF M
  <2>7. Cardinality(W(id)) = IF u = v THEN 1 ELSE 2
    BY <2>6, MatchesCount
  <2> QED
    BY <2>5, <2>7
<1>8. ServiceIsYes' = ServiceIsYes
  BY <1>4 DEF ServiceIsYes
<1> QED
  BY <1>4, <1>6, <1>7, <1>8 DEF RowsPerCustomer, W

LEMMA IInvInit == Init => IInv
BY TableIs, ChurnPipelineAssumption DEF Init, IInv, InputInv, OptionsInv, TablesInv, JoinedInv, ReadInv, RowsPerCustomer, TopCell

LEMMA ReadInvStep == IInv /\ [Next]_vars => ReadInv'
<1> SUFFICES ASSUME IInv, [Next]_vars PROVE ReadInv'
  OBVIOUS
<1>1. /\ ReadInv /\ DOMAIN joined = Table /\ "billing_events" \in Table
  BY TableIs DEF IInv, JoinedInv
<1> USE DEF inputs, augmentVars, etlVars, AllRead
<1>2. CASE WriteWide
  BY <1>2 DEF WriteWide, ReadInv
<1>3. CASE RestartEtl
  BY <1>3 DEF RestartEtl, ReadInv
<1>4. CASE JoinBilling
  BY <1>4 DEF JoinBilling, ReadInv
<1>5. ASSUME NEW n \in Table, Join(n) PROVE ReadInv'
  BY <1>1, <1>5 DEF Join, ReadInv
<1>6. CASE UNCHANGED <<joined, wide>>
  BY <1>1, <1>6 DEF ReadInv
<1> QED
  BY <1>2, <1>3, <1>4, <1>5, <1>6 DEF Next, vars, RegisterOptions, BillingEventsCell,
                                      OverwriteDf, WriteDf, Interrupt

LEMMA IInvStep == IInv /\ [Next]_vars => IInv'
<1> SUFFICES ASSUME IInv, [Next]_vars PROVE IInv'
  OBVIOUS
<1> USE DEF inputs, augmentVars, etlVars
<1>1. InputInv'
  BY DEF IInv, InputInv, Next, vars, RegisterOptions, BillingEventsCell, OverwriteDf, WriteDf,
         Interrupt, JoinBilling, Join, WriteWide, RestartEtl
<1>2. OptionsInv'
  BY DEF IInv, OptionsInv, Next, vars, RegisterOptions, BillingEventsCell, OverwriteDf, WriteDf,
         Interrupt, JoinBilling, Join, WriteWide, RestartEtl, TopCell, BillingCell
<1>3. TablesInv'
  <2>1. CASE UNCHANGED tables
    BY <2>1 DEF IInv, TablesInv
  <2>2. CASE OverwriteDf
    BY <2>2 DEF OverwriteDf, IInv, TablesInv
  <2>3. CASE WriteDf
    <3>1. cell # TopCell
      BY <2>3 DEF WriteDf, TopCell, BillingCell
    <3>2. \A n \in Table : KeyedAs(n, Rows(n))
      BY <3>1, RowsKeyed DEF IInv
    <3> QED
      BY <2>3, <3>2 DEF WriteDf, IInv, TablesInv
  <2> QED
    BY <2>1, <2>2, <2>3 DEF Next, vars, RegisterOptions, BillingEventsCell, Interrupt,
                            JoinBilling, Join, WriteWide, RestartEtl
<1>4. JoinedInv'
  <2>1. CASE UNCHANGED <<joined, customers>>
    BY <2>1 DEF IInv, JoinedInv
  <2>2. CASE JoinBilling
    BY <2>2, TableIs DEF JoinBilling, IInv, TablesInv, JoinedInv
  <2>3. ASSUME NEW n \in Table \ {"billing_events"}, Join(n) PROVE JoinedInv'
    BY <2>3 DEF Join, IInv, TablesInv, JoinedInv
  <2>4. CASE RestartEtl
    BY <2>4, TableIs DEF RestartEtl, JoinedInv
  <2> QED
    BY <2>1, <2>2, <2>3, <2>4 DEF Next, vars, RegisterOptions, BillingEventsCell,
                                  OverwriteDf, WriteDf, Interrupt, WriteWide
<1>5. RowsPerCustomer'
  <2>1. CASE WriteWide
    BY <2>1, WriteWideRows
  <2>2. CASE RestartEtl
    BY <2>2 DEF RestartEtl, RowsPerCustomer
  <2>3. CASE JoinBilling \/ \E n \in Table : Join(n)
    BY <2>3 DEF IInv, ReadInv, AllRead, RowsPerCustomer, JoinBilling, Join
  <2>4. CASE UNCHANGED <<joined, customers, wide>>
    <3>1. ServiceIsYes' = ServiceIsYes
      BY <2>4 DEF ServiceIsYes
    <3> QED
      BY <2>4, <3>1 DEF IInv, RowsPerCustomer
  <2> QED
    BY <2>1, <2>2, <2>3, <2>4 DEF Next, vars, RegisterOptions, BillingEventsCell, OverwriteDf,
                                  WriteDf, Interrupt
<1> QED
  BY <1>1, <1>2, <1>3, <1>4, <1>5, ReadInvStep DEF IInv

-----------------------------------------------------------------------------
(* Which run made which table.                                              *)

\* The options a run writes its tables with, once it has settled the currency type.
Settled == [dup_times |-> options.dup_times, type |-> GetCurrencyType]

CellsInv ==
  /\ runs \in Nat /\ cell \in TopCell .. BillingCell + 5
  /\ currencyType \in Types \cup {Null}
  /\ cell # TopCell => runs # 0 /\ options.type \in Types
  /\ cell > BillingCell => currencyType = GetCurrencyType

MadeBy(h, name, table) == table.run \in 1 .. runs /\ table.rows = RowsOf(name, h[table.run])

IsHistory(h) ==
  /\ h \in [1 .. runs -> RunOptions]
  /\ \A n \in Table : tables[n] # Null => MadeBy(h, n, tables[n])
  /\ \A n \in Table : joined[n] # Null => MadeBy(h, n, joined[n])
  /\ cell # TopCell => h[runs] = Settled

\* Every table, on disk or read, is one that the run it is marked with makes.
HistoryInv == \E h : IsHistory(h)

SaysAllOf(table, dup) ==
  /\ {row.customerID : row \in table} = Replicas(dup)
  /\ \A row \in table : \E s \in df : \E r \in Uniques(dup) : SaysOf(row, s, r)

WideInv == wide # Null /\ SameRun(joined) => \E dup \in DupTimes : SaysAllOf(wide, dup)

RunInv == IInv /\ CellsInv /\ HistoryInv /\ WideInv

LEMMA RunInvInit == Init => RunInv
<1> SUFFICES ASSUME Init PROVE RunInv
  OBVIOUS
<1>1. CellsInv /\ WideInv
  BY DEF Init, CellsInv, WideInv, TopCell, BillingCell
<1>2. HistoryInv
  <2> DEFINE h == [i \in 1 .. 0 |-> CHOOSE o : o \in RunOptions]
  <2>1. 1 .. 0 = {} /\ h \in [1 .. 0 -> RunOptions]
    OBVIOUS
  <2> HIDE DEF h
  <2>2. IsHistory(h)
    BY <2>1 DEF Init, IsHistory
  <2> QED
    BY <2>2 DEF HistoryInv
<1> QED
  BY <1>1, <1>2, IInvInit DEF RunInv

LEMMA RowsAreRowsOf ==
  ASSUME CellsInv, cell > BillingCell, NEW name
  PROVE  Rows(name) = RowsOf(name, Settled)
<1>1. currencyType = GetCurrencyType
  BY DEF CellsInv
<1>2. Settled.dup_times = options.dup_times /\ Settled.type = currencyType
  BY <1>1 DEF Settled
<1> QED
  BY <1>2 DEF Rows, RowsOf

LEMMA SettledIsOptions ==
  ASSUME OptionsInv, CellsInv, cell # TopCell
  PROVE  Settled \in RunOptions
BY DEF Settled, RunOptions, OptionsInv, CellsInv, GetCurrencyType

LEMMA InputsStay == RunInv /\ [Next]_vars => UNCHANGED inputs
BY DEF Next, vars, inputs, RegisterOptions, BillingEventsCell, OverwriteDf, WriteDf,
       Interrupt, JoinBilling, Join, WriteWide, RestartEtl

LEMMA RowsOfStay ==
  ASSUME UNCHANGED inputs
  PROVE  \A name, o : RowsOf(name, o)' = RowsOf(name, o)
BY DEF inputs, RowsOf, df

LEMMA CellsInvStep == RunInv /\ [Next]_vars => CellsInv'
<1> SUFFICES ASSUME CellsInv, [Next]_vars PROVE CellsInv'
  BY DEF RunInv
<1> USE DEF CellsInv, TopCell, BillingCell, GetCurrencyType, augmentVars, etlVars
<1>1. CASE RegisterOptions
  BY <1>1 DEF RegisterOptions
<1>2. CASE BillingEventsCell
  BY <1>2 DEF BillingEventsCell
<1>3. CASE OverwriteDf
  BY <1>3 DEF OverwriteDf
<1>4. CASE WriteDf
  BY <1>4 DEF WriteDf
<1>5. CASE Interrupt
  BY <1>5 DEF Interrupt
<1>6. CASE UNCHANGED augmentVars
  BY <1>6
<1> QED
  BY <1>1, <1>2, <1>3, <1>4, <1>5, <1>6
     DEF Next, vars, JoinBilling, Join, WriteWide, RestartEtl

LEMMA HistoryInvStep == RunInv /\ [Next]_vars => HistoryInv'
<1> SUFFICES ASSUME RunInv, [Next]_vars PROVE HistoryInv'
  OBVIOUS
<1> USE DEF augmentVars, etlVars
<1>1. PICK h : IsHistory(h)
  BY DEF RunInv, HistoryInv
<1>2. /\ CellsInv /\ CellsInv' /\ OptionsInv /\ OptionsInv'
      /\ DOMAIN tables = Table /\ DOMAIN joined = Table
  BY CellsInvStep, IInvStep DEF RunInv, IInv, TablesInv, JoinedInv
<1>3. \A name, o : RowsOf(name, o)' = RowsOf(name, o)
  BY InputsStay, RowsOfStay
<1>4. CASE RegisterOptions
  <2>1. PICK g : g = [i \in 1 .. runs + 1 |-> IF i = runs + 1 THEN Settled' ELSE h[i]]
    OBVIOUS
  <2>2. runs \in Nat /\ runs' = runs + 1 /\ cell' # TopCell
    BY <1>2, <1>4 DEF CellsInv, RegisterOptions, TopCell, BillingCell
  <2>3. Settled' \in RunOptions
    BY <1>2, <2>2, SettledIsOptions DEF OptionsInv, CellsInv, Settled, RunOptions, GetCurrencyType
  <2>4. g \in [1 .. runs' -> RunOptions] /\ g[runs'] = Settled'
    BY <1>1, <2>1, <2>2, <2>3 DEF IsHistory
  <2>5. \A i \in 1 .. runs : g[i] = h[i] /\ i \in 1 .. runs'
    BY <2>1, <2>2
  <2>6. ASSUME NEW name, NEW table, MadeBy(h, name, table) PROVE MadeBy(g, name, table)'
    BY <1>3, <2>5, <2>6 DEF MadeBy
  <2>7. tables' = tables /\ joined' = joined
    BY <1>4 DEF RegisterOptions
  <2>8. IsHistory(g)'
    BY <1>1, <2>4, <2>6, <2>7 DEF IsHistory
  <2> QED
    BY <2>8 DEF HistoryInv
<1>5. CASE UNCHANGED runs /\ (cell' = TopCell \/ (cell # TopCell /\ Settled' = Settled))
  <2>1. /\ h \in [1 .. runs' -> RunOptions]
        /\ cell' # TopCell => h[runs'] = Settled'
    BY <1>1, <1>5 DEF IsHistory
  <2>2. ASSUME NEW n \in Table, joined'[n] # Null PROVE MadeBy(h, n, joined'[n])
    <3>1. joined'[n] = joined[n] \/ joined'[n] = tables[n]
      BY <1>2, <2>2 DEF Next, vars, RegisterOptions, BillingEventsCell, OverwriteDf, WriteDf,
                        Interrupt, JoinBilling, Join, WriteWide, RestartEtl
    <3> QED
      BY <1>1, <2>2, <3>1 DEF IsHistory
  <2>3. ASSUME NEW n \in Table, tables'[n] # Null PROVE MadeBy(h, n, tables'[n])
    <3>1. CASE WriteDf /\ n = NameAt(cell)
      <4>1. tables'[n] = [rows |-> Rows(n), run |-> runs] /\ cell > BillingCell
        BY <1>2, <3>1 DEF WriteDf
      <4>2. Rows(n) = RowsOf(n, Settled)
        BY <1>2, <4>1, RowsAreRowsOf
      <4>3. h[runs] = Settled /\ runs \in 1 .. runs
        BY <1>1, <1>2, <4>1 DEF IsHistory, CellsInv, TopCell, BillingCell
      <4> QED
        BY <4>1, <4>2, <4>3 DEF MadeBy
    <3>2. CASE ~(WriteDf /\ n = NameAt(cell))
      <4>1. tables'[n] = tables[n] \/ tables'[n] = Null
        BY <1>2, <3>2 DEF Next, vars, RegisterOptions, BillingEventsCell, OverwriteDf, WriteDf,
                          Interrupt, JoinBilling, Join, WriteWide, RestartEtl
      <4> QED
        BY <1>1, <2>3, <4>1 DEF IsHistory
    <3> QED
      BY <3>1, <3>2
  <2>4. (\A n \in Table : joined[n] # Null => MadeBy(h, n, joined[n]))'
    BY <1>3, <1>5, <2>2 DEF MadeBy
  <2>5. (\A n \in Table : tables[n] # Null => MadeBy(h, n, tables[n]))'
    BY <1>3, <1>5, <2>3 DEF MadeBy
  <2>6. IsHistory(h)'
    BY <2>1, <2>4, <2>5 DEF IsHistory
  <2> QED
    BY <2>6 DEF HistoryInv
<1>6. ASSUME ~RegisterOptions
      PROVE  UNCHANGED runs /\ (cell' = TopCell \/ (cell # TopCell /\ Settled' = Settled))
  <2>1. CASE BillingEventsCell
    BY <1>2, <2>1 DEF BillingEventsCell, Settled, GetCurrencyType, CellsInv, TopCell, BillingCell
  <2>2. CASE OverwriteDf \/ WriteDf \/ Interrupt
    BY <1>2, <2>2 DEF OverwriteDf, WriteDf, Interrupt, Settled, GetCurrencyType, CellsInv,
                      TopCell, BillingCell
  <2>3. CASE UNCHANGED augmentVars
    BY <2>3 DEF Settled, GetCurrencyType
  <2> QED
    BY <1>6, <2>1, <2>2, <2>3 DEF Next, vars, JoinBilling, Join, WriteWide, RestartEtl
<1> QED
  BY <1>4, <1>5, <1>6

\* Tables read from one run are those of its options.
LEMMA ReadFromOneRun ==
  ASSUME IInv, HistoryInv, AllRead, SameRun(joined),
         NEW W, {row.customerID : row \in W} = customers,
         W = Etl!JoinWideTable(customers,
               Etl!JoinBillingData(joined["billing_events"].rows),
               Etl!JoinPhoneFeatures(joined["customer_phone_features"].rows, customers),
               Etl!JoinInternetFeatures(joined["customer_internet_features"].rows, customers),
               Etl!JoinAccountFeatures(joined["customer_account_features"].rows, customers),
               Etl!ProcessAccountMeta(joined["customer_meta"].rows, useCalendarArithmetic))
  PROVE  \E dup \in DupTimes : SaysAllOf(W, dup)
<1>1. PICK h : IsHistory(h)
  BY DEF HistoryInv
<1> DEFINE o == h[joined["billing_events"].run]
<1>2. ASSUME NEW n \in Table PROVE joined[n].rows = RowsOf(n, o)
  <2>1. MadeBy(h, n, joined[n])
    BY <1>1, <1>2 DEF IsHistory, AllRead
  <2>2. joined[n].run = joined["billing_events"].run
    BY <1>2, TableIs DEF SameRun
  <2> QED
    BY <2>1, <2>2 DEF MadeBy
<1>3. o \in RunOptions
  <2>1. MadeBy(h, "billing_events", joined["billing_events"])
    BY <1>1, TableIs DEF IsHistory, AllRead
  <2> QED
    BY <1>1, <2>1 DEF MadeBy, IsHistory
<1> HIDE DEF o
<1>4. /\ joined["billing_events"].rows = RowsOf("billing_events", o)
      /\ joined["customer_phone_features"].rows = RowsOf("customer_phone_features", o)
      /\ joined["customer_internet_features"].rows = RowsOf("customer_internet_features", o)
      /\ joined["customer_account_features"].rows = RowsOf("customer_account_features", o)
      /\ joined["customer_meta"].rows = RowsOf("customer_meta", o)
  BY <1>2, TableIs
<1>5. customers = Etl!FindCustomers(RowsOf("billing_events", o))
  BY <1>4, TableIs DEF IInv, JoinedInv, AllRead
<1>6. InputInv
  BY DEF IInv
<1>7. \A row \in W : \E s \in df : \E r \in Uniques(o.dup_times) : SaysOf(row, s, r)
  BY <1>3, <1>4, <1>5, <1>6, OneRunReconstitutes
<1>8. customers = Replicas(o.dup_times)
  <2>1. RowsOf("billing_events", o) =
          ReplicateDf(BillingEvents(df, o.type, Calendar!MonthOf(now)), o.dup_times)
    BY DEF RowsOf
  <2> QED
    BY <1>5, <1>6, <2>1, CustomersAre DEF Replicas
<1>9. o.dup_times \in DupTimes
  BY <1>3 DEF RunOptions
<1>10. SaysAllOf(W, o.dup_times)
  BY <1>7, <1>8 DEF SaysAllOf
<1> QED
  BY <1>9, <1>10

LEMMA SaysAllOfStay ==
  ASSUME UNCHANGED inputs, NEW table, NEW dup, SaysAllOf(table, dup)
  PROVE  SaysAllOf(table, dup)'
<1>1. df' = df /\ age' = age /\ useCalendarArithmetic' = useCalendarArithmetic
  BY DEF df, inputs
<1>2. \A row : SourceOf(row)' = SourceOf(row)
  BY <1>1 DEF SourceOf
<1>3. \A row, s, r : SaysOf(row, s, r) => SaysOf(row, s, r)'
  BY <1>1, <1>2 DEF SaysOf
<1>4. Replicas(dup)' = Replicas(dup)
  BY <1>1 DEF Replicas
<1> QED
  BY <1>1, <1>3, <1>4 DEF SaysAllOf

LEMMA WideInvStep == RunInv /\ [Next]_vars => WideInv'
<1> SUFFICES ASSUME RunInv, [Next]_vars PROVE WideInv'
  OBVIOUS
<1> SUFFICES ASSUME wide' # Null, SameRun(joined')
             PROVE  \E dup \in DupTimes : SaysAllOf(wide', dup)
  <2>1. ASSUME NEW dup \in DupTimes, SaysAllOf(wide', dup) PROVE WideInv'
    <3>1. ASSUME NEW table, SaysAllOf(table, dup) PROVE SaysAllOf(table, dup)'
      BY <3>1, InputsStay, SaysAllOfStay
    <3>2. SaysAllOf(wide, dup)'
      BY <2>1, <3>1
    <3> QED
      BY <3>2 DEF WideInv
  <2>2. (wide # Null /\ SameRun(joined))' <=> wide' # Null /\ SameRun(joined')
    BY DEF SameRun
  <2> QED
    BY <2>1, <2>2 DEF WideInv
<1>1. CASE WriteWide
  <2>1. RowsPerCustomer' /\ customers' = customers /\ joined' = joined
    BY <1>1, IInvStep DEF RunInv, IInv, WriteWide
  <2>2. {row.customerID : row \in wide'} = customers
    BY <2>1 DEF RowsPerCustomer
  <2>3. /\ IInv /\ HistoryInv /\ AllRead /\ SameRun(joined)
    BY <1>1, <2>1 DEF RunInv, WriteWide
  <2> QED
    BY <1>1, <2>2, <2>3, ReadFromOneRun DEF WriteWide
<1>2. CASE UNCHANGED <<joined, wide>>
  BY <1>2 DEF RunInv, WideInv
<1>3. CASE \/ RestartEtl \/ JoinBilling \/ \E n \in Table : Join(n)
  <2>1. ReadInv /\ wide # Null
    BY <1>3 DEF RunInv, IInv, RestartEtl, JoinBilling, Join
  <2> QED
    BY <1>3, <2>1 DEF RestartEtl, JoinBilling, Join, ReadInv, AllRead
<1> QED
  BY <1>1, <1>2, <1>3 DEF Next, vars, etlVars, RegisterOptions, BillingEventsCell, OverwriteDf,
                          WriteDf, Interrupt

LEMMA RunInvStep == RunInv /\ [Next]_vars => RunInv'
BY IInvStep, CellsInvStep, HistoryInvStep, WideInvStep DEF RunInv

-----------------------------------------------------------------------------
\* Whatever runs of the augmentation notebook the tables are from, interrupted or not, the
\* ETL notebook loses no customer of the billing events and makes one row for each, but for
\* those whose InternetService is "Yes": internet_features makes their row twice, and the
\* joins make two of them.
THEOREM CustomersKeepTheirRows == Spec => []RowsPerCustomer
<1>1. IInv => RowsPerCustomer
  BY DEF IInv
<1> QED
  BY <1>1, IInvInit, IInvStep, PTL DEF Spec

\* In whatever billing events are on disk, a customer is charged in consecutive months
\* after its account was created, and always the same.
THEOREM ChargesComeAfterCreation == Spec => []ChargesFollowCreation
<1>1. IInv => ChargesFollowCreation
  <2> SUFFICES ASSUME IInv, "billing_events" \in Written
               PROVE  ChargesInOrder(tables["billing_events"].rows)
    BY DEF ChargesFollowCreation, ChargesInOrder, MonthsOf, ChargesOf, BillingOf, Billing
  <2> QED
    BY DEF IInv, TablesInv, KeyedAs, Written
<1> QED
  BY <1>1, IInvInit, IInvStep, PTL DEF Spec

\* Whatever is interrupted and run again, tables of one run of the augmentation notebook are
\* joined into the table that was taken apart: each replica of each customer, with the values
\* of the source, those that are in no table among them.
THEOREM JoinsReconstitute == Spec => []Reconstituted
<1>1. RunInv => Reconstituted
  <2> SUFFICES ASSUME RunInv, wide # Null, SameRun(joined)
               PROVE  /\ \A row \in wide : Agrees(row, SourceOf(row))
                      /\ \E dup \in DupTimes :
                           {row.customerID : row \in wide} = Replicas(dup)
    BY DEF Reconstituted
  <2>1. PICK dup \in DupTimes : SaysAllOf(wide, dup)
    BY DEF RunInv, WideInv
  <2>2. \A row \in wide : Agrees(row, SourceOf(row))
    BY <2>1 DEF SaysAllOf, SaysOf
  <2>3. {row.customerID : row \in wide} = Replicas(dup)
    BY <2>1 DEF SaysAllOf
  <2> QED
    BY <2>2, <2>3
<1> QED
  BY <1>1, RunInvInit, RunInvStep, PTL DEF Spec

\* On every day, for every age, the calendar arithmetic of is_senior_citizen recovers from
\* the date of birth whom the source calls a senior citizen, but for those of the least age.
THEOREM SeniorsAreFound == Spec => []CalendarFindsSeniors
<1>1. RunInv => CalendarFindsSeniors
  <2> SUFFICES ASSUME RunInv, wide # Null, SameRun(joined), useCalendarArithmetic, NEW row \in wide
               PROVE  \/ row.meta.SeniorCitizen = SourceOf(row).SeniorCitizen
                      \/ SourceOf(row).SeniorCitizen
                           /\ age[TRUE][row.customerID[2]] = LeastAge(TRUE)
    BY DEF CalendarFindsSeniors
  <2>1. PICK dup \in DupTimes : SaysAllOf(wide, dup)
    BY DEF RunInv, WideInv
  <2>2. PICK s \in df, r \in Uniques(dup) : SaysOf(row, s, r)
    BY <2>1 DEF SaysAllOf
  <2>3. /\ SourceOf(row) = s /\ row.customerID[2] = r
        /\ row.meta.SeniorCitizen = s.SeniorCitizen
             \/ (s.SeniorCitizen /\ age[TRUE][r] = LeastAge(TRUE))
    BY <2>2, Zenon DEF SaysOf
  <2> QED
    BY <2>3, Zenon
<1> QED
  BY <1>1, RunInvInit, RunInvStep, PTL DEF Spec
=============================================================================
