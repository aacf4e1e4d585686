------------------------------- MODULE ChurnEtl -------------------------------
(***************************************************************************)
(* churn/etl.py: the five tables are joined back into one wide table.  A    *)
(* table is a set of rows, in which a field tells apart rows that would be  *)
(* equal; a left outer join makes a row for each match, or one with nulls.  *)
(***************************************************************************)
EXTENDS Integers, FiniteSets, FiniteSetsExt

CONSTANTS AddOn, Null

Calendar == INSTANCE CivilCalendar

SeniorAge == 65

OrNull(S) == IF S = {} THEN {Null} ELSE S
Of(df, id) == {row \in df : row.customerID = id}

\* find_customers
FindCustomers(billing) == {row.customerID : row \in billing}

\* untidy_feature, for one customer: the rows, and their values.
UntidyRows(df, id, name) == {row \in Of(df, id) : row.feature = name}
UntidyFeature(df, id, name) == {row.value : row \in UntidyRows(df, id, name)}

\* resolve_nullable_column
ResolveNullable(v) == IF v = Null THEN "No" ELSE v

\* Mutant: only a parent that says so has no service.
ResolveExplicit(v, parent) ==
  IF parent = "No" THEN "No internet service" ELSE ResolveNullable(v)

\* resolve_dependent_column; the parent is the column before its nulls are resolved.
ResolveDependent(v, parent) ==
  IF parent \in {"No", Null} THEN "No internet service" ELSE ResolveNullable(v)

SumOfValues(events) == MapThenSumSet(LAMBDA e : e.value, events)

\* join_billing_data: tenure and TotalCharges from the charges, Churn from a
\* termination.
JoinBillingData(billing) ==
  LET Events(id, kind) == {e \in Of(billing, id) : e.kind = kind}
  IN UNION {{[customerID |-> id,
              Churn |-> termination # Null,
              tenure |-> Cardinality(Events(id, "Charge")),
              TotalCharges |-> SumOfValues(Events(id, "Charge"))] :
               termination \in OrNull({e.customerID : e \in Events(id, "AccountTermination")})} :
            id \in FindCustomers(billing)}

\* A feature of a phone is there if its row is.
YesOrNo(v) == IF v = Null THEN "No" ELSE "Yes"
ResolveLines(v, service) == IF service = Null THEN "No phone service" ELSE YesOrNo(v)

\* join_phone_features
JoinPhoneFeatures(phone, customers) ==
  UNION {{[customerID |-> id,
           PhoneService |-> YesOrNo(service),
           MultipleLines |-> ResolveLines(lines, service)] :
            service \in OrNull(UntidyFeature(phone, id, "PhoneService")),
            lines \in OrNull(UntidyFeature(phone, id, "MultipleLines"))} :
         id \in customers}

\* The matching rows themselves, or one of nulls.
OrRowOfNulls(rows) == IF rows = {} THEN {[value |-> Null]} ELSE rows

\* join_internet_features.  match is the row of InternetService a row is made with.
JoinInternetFeatures(internet, customers) ==
  LET Joined(id, name) == OrNull(UntidyFeature(internet, id, name))
      Matches(id) == OrRowOfNulls(UntidyRows(internet, id, "InternetService"))
      AddOns(id) == {f \in [AddOn -> UNION {Joined(id, a) : a \in AddOn}] :
                       \A a \in AddOn : f[a] \in Joined(id, a)}
  IN UNION {{[customerID |-> id, match |-> match,
              InternetService |-> ResolveNullable(match.value),
              addOn |-> [a \in AddOn |-> ResolveDependent(addOn[a], match.value)]] :
               match \in Matches(id), addOn \in AddOns(id)} :
            id \in customers}

\* join_account_features
JoinAccountFeatures(account, customers) ==
  UNION {{[customerID |-> id, Contract |-> contract,
           PaperlessBilling |-> ResolveNullable(paperless)] :
            contract \in OrNull(UntidyFeature(account, id, "Contract")),
            paperless \in OrNull(UntidyFeature(account, id, "PaperlessBilling"))} :
         id \in customers}

\* Mutant: senior citizens only from the 66th birthday on.
IsSeniorLate(now, dob, useCalendarArithmetic) ==
  LET n == Calendar!DateOf(now)
      d == Calendar!DateOf(dob)
  IN ~ Calendar!Before(n, Calendar!AddYears(d, SeniorAge + 1))

\* is_senior_citizen.  The comparison of the days of the month is of now with itself.
IsSeniorCitizen(now, dob, useCalendarArithmetic) ==
  LET n == Calendar!DateOf(now)
      d == Calendar!DateOf(dob)
  IN IF useCalendarArithmetic
     THEN ~ Calendar!Before(n, Calendar!AddYears(d, SeniorAge))
     ELSE \/ n.year > d.year + SeniorAge
          \/ n.year = d.year + SeniorAge /\ n.month <= d.month

\* process_account_meta
ProcessAccountMeta(meta, useCalendarArithmetic) ==
  {[customerID |-> row.customerID,
    SeniorCitizen |-> IsSeniorCitizen(row.now, row.dateOfBirth, useCalendarArithmetic)] :
     row \in meta}

\* Mutant: the features of an account are joined by an inner join.
JoinWithAccounts(customers, billing, phone, internet, account, meta) ==
  UNION {{[customerID |-> id, billing |-> b, phone |-> p, internet |-> i,
           account |-> a, meta |-> m] :
            b \in OrNull(Of(billing, id)), p \in OrNull(Of(phone, id)),
            i \in OrNull(Of(internet, id)), a \in Of(account, id),
            m \in Of(meta, id)} :
         id \in customers}

\* join_wide_table: what each customer's row is made of, null where a table has
\* nothing about it.
JoinWideTable(customers, billing, phone, internet, account, meta) ==
  UNION {{[customerID |-> id, billing |-> b, phone |-> p, internet |-> i,
           account |-> a, meta |-> m] :
            b \in OrNull(Of(billing, id)), p \in OrNull(Of(phone, id)),
            i \in OrNull(Of(internet, id)), a \in OrNull(Of(account, id)),
            m \in OrNull(Of(meta, id))} :
         id \in customers}
=============================================================================
