----------------------------- MODULE ChurnPipeline -----------------------------
(***************************************************************************)
(* The two notebooks of the customer churn example.  The augmentation       *)
(* notebook takes a file of customers apart into five tables on disk        *)
(* (ChurnAugment); the ETL notebook joins them again (ChurnEtl).  The       *)
(* augmentation may be interrupted at any cell and run again from the top   *)
(* with another number of duplicates; the tables it wrote stay.  The ETL    *)
(* notebook may run at any time.                                           *)
(*                                                                         *)
(* External: a table that is being overwritten is gone until it is written, *)
(* and a job that reads one replaced since fails.                           *)
(***************************************************************************)
EXTENDS ChurnAugment

CONSTANTS
  Files,        \* the customers of an input file
  DupTimes,     \* values of dup_times
  Types,        \* currency types the options may ask for
  Days,         \* values of now: days of CivilCalendar
  Ages,         \* functions that give each replica an age, by SeniorCitizen
  MaxRuns       \* bound: runs of the augmentation notebook

Etl == INSTANCE ChurnEtl
Calendar == INSTANCE CivilCalendar

ASSUME ChurnPipelineAssumption ==
  /\ DupTimes \subseteq Nat \ {0} /\ Types \subseteq {"decimal", "double"}
  /\ \A a \in Ages : \A senior \in BOOLEAN :
       /\ \A r \in DOMAIN a[senior] : a[senior][r] \in AgesOf(senior)
       /\ \A dup \in DupTimes : Uniques(dup) \subseteq DOMAIN a[senior]
  \* The input file has a key, and InternetService is not a column that depends on it.
  /\ \A f \in Files :
       /\ IsFiniteSet(f)
       /\ \A s, t \in f :
            "customerID" \in DOMAIN s /\ (s.customerID = t.customerID => s = t)
       /\ \A s \in f : s.tenure \in Nat /\ s.lastMonth \in Int /\ s.lastMonth <= 0
  /\ "InternetService" \notin AddOn
  /\ Days \subseteq Int

\* What the ETL takes for granted about the columns of the source: those that depend on
\* a service say so if there is none.  The unit of amounts divides the average charge.
Consistent(s) ==
  /\ s.Churn \in BOOLEAN /\ s.SeniorCitizen \in BOOLEAN
  /\ \/ s.PhoneService = "Yes" /\ s.MultipleLines \in {"Yes", "No"}
     \/ s.PhoneService = "No" /\ s.MultipleLines = "No phone service"
  /\ \/ s.InternetService \notin {"No", Null} /\ s.addOn \in [AddOn -> {"Yes", "No"}]
     \/ s.InternetService = "No" /\ s.addOn = [a \in AddOn |-> "No internet service"]
  /\ s.Contract \notin {"No", Null} /\ s.PaperlessBilling \in {"Yes", "No"}
  /\ \/ s.TotalCharges = Null
     \/ s.TotalCharges = 0 /\ s.tenure = 0
     \/ /\ s.TotalCharges \in Int /\ s.tenure # 0
        /\ s.TotalCharges = s.tenure * (s.TotalCharges \div s.tenure)

ASSUME ChurnSourceAssumption ==
  /\ Cent \in Nat \ {0} /\ Null \notin {"Yes", "No"}
  /\ \A f \in Files : \A s \in f :
       Consistent(s) /\ \A dup \in DupTimes : \A r \in Uniques(dup) : CustomerID(s, r) # Null

VARIABLES
  file, now, age,         \* what the notebooks are run on
  useCalendarArithmetic,  \* an option of the ETL
  runs,                   \* augmentation: runs so far
  cell,                   \* the next cell: see below
  options,                \* dup_times and the currency type asked for
  currencyType,           \* the type get_currency_type has settled on, or Null
  tables,                 \* name -> table on disk, or Null
  joined,                 \* ETL: name -> table as it was read, or Null
  customers,              \* the view "customers"
  wide                    \* the result, or Null

inputs == <<file, now, age, useCalendarArithmetic>>
augmentVars == <<runs, cell, options, currencyType>>
etlVars == <<joined, customers, wide>>
vars == <<inputs, augmentVars, tables, etlVars>>

\* The cells: the options, the billing events, and a write_df for each table.
TopCell == 0
BillingCell == 1
Names == <<"billing_events", "customer_meta", "customer_phone_features",
           "customer_internet_features", "customer_account_features">>
Table == {Names[i] : i \in DOMAIN Names}
NameAt(c) == Names[c - BillingCell]

Init ==
  /\ file \in Files /\ now \in Days /\ age \in Ages
  /\ useCalendarArithmetic \in BOOLEAN
  /\ runs = 0 /\ cell = TopCell /\ options = Null /\ currencyType = Null
  /\ tables = [n \in Table |-> Null]
  /\ joined = [n \in Table |-> Null] /\ customers = Null /\ wide = Null

-----------------------------------------------------------------------------
(* The augmentation notebook.                                               *)

\* register_options, in the same process or in a new one.
RegisterOptions ==
  /\ cell = TopCell /\ runs < MaxRuns
  /\ \E dup \in DupTimes, type \in Types : options' = [dup_times |-> dup, type |-> type]
  /\ currencyType' \in {currencyType, Null}
  /\ runs' = runs + 1 /\ cell' = BillingCell
  /\ UNCHANGED <<inputs, tables, etlVars>>

df == LoadSuppliedData(file)

\* get_currency_type keeps its first answer.
GetCurrencyType == IF currencyType = Null THEN options.type ELSE currencyType

\* The cell that makes the billing events settles the currency type.
BillingEventsCell ==
  /\ cell = BillingCell
  /\ currencyType' = GetCurrencyType
  /\ cell' = BillingCell + 1
  /\ UNCHANGED <<inputs, runs, options, tables, etlVars>>

\* The frames, which Spark evaluates when they are written; customer_meta
\* replicates its rows itself.
Rows(name) ==
  CASE name = "billing_events" ->
         ReplicateDf(BillingEvents(df, currencyType, Calendar!MonthOf(now)), options.dup_times)
    [] name = "customer_meta" -> CustomerMeta(df, options.dup_times, age, now)
    [] name = "customer_phone_features" -> ReplicateDf(PhoneFeatures(df), options.dup_times)
    [] name = "customer_internet_features" ->
         ReplicateDf(InternetFeatures(df), options.dup_times)
    [] name = "customer_account_features" ->
         ReplicateDf(AccountFeatures(df), options.dup_times)

\* write_df overwrites ...
OverwriteDf ==
  /\ cell > BillingCell /\ tables[NameAt(cell)] # Null
  /\ tables' = [tables EXCEPT ![NameAt(cell)] = Null]
  /\ UNCHANGED <<inputs, augmentVars, etlVars>>

\* ... and writes.  run tells which run wrote the table.
WriteDf ==
  /\ cell > BillingCell /\ tables[NameAt(cell)] = Null
  /\ tables' = [tables EXCEPT ![NameAt(cell)] = [rows |-> Rows(NameAt(cell)), run |-> runs]]
  /\ cell' = IF cell = BillingCell + 5 THEN TopCell ELSE cell + 1
  /\ UNCHANGED <<inputs, runs, options, currencyType, etlVars>>

Interrupt ==
  /\ cell # TopCell
  /\ cell' = TopCell
  /\ UNCHANGED <<inputs, runs, options, currencyType, tables, etlVars>>

-----------------------------------------------------------------------------
(* The ETL notebook.                                                        *)

\* The cell with join_billing_data makes the view of customers.
JoinBilling ==
  /\ wide = Null /\ customers = Null /\ tables["billing_events"] # Null
  /\ joined' = [joined EXCEPT !["billing_events"] = tables["billing_events"]]
  /\ customers' = Etl!FindCustomers(tables["billing_events"].rows)
  /\ UNCHANGED <<inputs, augmentVars, tables, wide>>

\* The other join cells, from top to bottom.
CellBefore(name) ==
  CASE name = "customer_phone_features" -> "billing_events"
    [] name = "customer_internet_features" -> "customer_phone_features"
    [] name = "customer_account_features" -> "customer_internet_features"
    [] name = "customer_meta" -> "customer_account_features"

Join(name) ==
  /\ joined[name] = Null /\ joined[CellBefore(name)] # Null /\ tables[name] # Null
  /\ joined' = [joined EXCEPT ![name] = tables[name]]
  /\ UNCHANGED <<inputs, augmentVars, tables, customers, wide>>

AllRead == \A n \in Table : joined[n] # Null
Unchanged == \A n \in Table : tables[n] = joined[n]

\* The frames are evaluated when the result is written.
WriteWide ==
  /\ AllRead /\ wide = Null /\ Unchanged
  /\ wide' = Etl!JoinWideTable(customers,
       Etl!JoinBillingData(joined["billing_events"].rows),
       Etl!JoinPhoneFeatures(joined["customer_phone_features"].rows, customers),
       Etl!JoinInternetFeatures(joined["customer_internet_features"].rows, customers),
       Etl!JoinAccountFeatures(joined["customer_account_features"].rows, customers),
       Etl!ProcessAccountMeta(joined["customer_meta"].rows, useCalendarArithmetic))
  /\ UNCHANGED <<inputs, augmentVars, tables, joined, customers>>

\* A table was replaced since it was read, or the notebook is run anew.
RestartEtl ==
  /\ AllRead /\ (wide # Null \/ ~Unchanged)
  /\ joined' = [n \in Table |-> Null] /\ customers' = Null /\ wide' = Null
  /\ UNCHANGED <<inputs, augmentVars, tables>>

Next ==
  \/ RegisterOptions \/ BillingEventsCell
  \/ OverwriteDf \/ WriteDf \/ Interrupt
  \/ JoinBilling \/ (\E n \in Table \ {"billing_events"} : Join(n))
  \/ WriteWide \/ RestartEtl
Spec == Init /\ [][Next]_vars

-----------------------------------------------------------------------------
Written == {n \in Table : tables[n] # Null}
SameRun(read) == \A m, n \in Table : read[m].run = read[n].run

\* The amounts agree with the source within half a cent for each charge.
TotalAgrees(row, source) ==
  LET off == row.TotalCharges - source.TotalCharges
  IN 2 * off <= Cent * source.tenure /\ -2 * off <= Cent * source.tenure

Agrees(row, source) ==
  /\ row.billing.Churn = source.Churn /\ row.billing.tenure = source.tenure
  /\ TotalAgrees(row.billing, source)
  /\ row.phone.PhoneService = source.PhoneService
  /\ row.phone.MultipleLines = source.MultipleLines
  /\ row.internet.InternetService = source.InternetService
  /\ row.internet.addOn = source.addOn
  /\ row.account.Contract = source.Contract
  /\ row.account.PaperlessBilling = source.PaperlessBilling

Replicas(dup) == {CustomerID(row, r) : row \in df, r \in Uniques(dup)}
SourceOf(row) == CHOOSE s \in df : s.customerID = row.customerID[1]

\* The joins reconstitute the table that was taken apart, although the values "No"
\* and "No ... service" are not in any of the tables: read from one run of the
\* augmentation, the wide table has each replica of each customer, with the source's
\* values.  RowsPerCustomer says how often.
Reconstituted ==
  wide # Null /\ SameRun(joined) =>
    /\ \A row \in wide : Agrees(row, SourceOf(row))
    /\ \E dup \in DupTimes : {row.customerID : row \in wide} = Replicas(dup)

\* The customers of whom the table of internet features has the row that
\* internet_features makes twice.
ServiceIsYes ==
  {e.customerID : e \in {e \in joined["customer_internet_features"].rows :
                           e.feature = "InternetService" /\ e.value = "Yes"}}

\* Whatever runs the tables are from, the wide table has the customers of the billing
\* events, and one row for each but those whose InternetService is "Yes", who have two.
RowsPerCustomer ==
  wide # Null =>
    /\ {row.customerID : row \in wide} = customers
    /\ \A id \in customers :
         Cardinality({row \in wide : row.customerID = id}) =
           IF id \in ServiceIsYes THEN 2 ELSE 1

\* The calendar arithmetic recovers from the date of birth whom the source calls a
\* senior citizen, but for those of the least age: 65 years of 365.25 days, cut to
\* whole days, may end a day before the birthday.
CalendarFindsSeniors ==
  wide # Null /\ SameRun(joined) /\ useCalendarArithmetic =>
    \A row \in wide :
      \/ row.meta.SeniorCitizen = SourceOf(row).SeniorCitizen
      \/ SourceOf(row).SeniorCitizen /\ age[TRUE][row.customerID[2]] = LeastAge(TRUE)

Billing == tables["billing_events"].rows
BillingOf(id, kind) == {e \in Billing : e.customerID = id /\ e.kind = kind}

\* A customer is charged in consecutive months, all after its account was created,
\* and all in the one currency type the process has settled on.
ChargesFollowCreation ==
  "billing_events" \in Written =>
    \A id \in Etl!FindCustomers(Billing) :
      LET months == {e.date : e \in BillingOf(id, "Charge")}
      IN /\ \A m \in months, e \in BillingOf(id, "AccountCreation") : e.date < m
         /\ \E first \in months \cup {0} :
              months = first .. first + Cardinality(months) - 1
         /\ \A c, d \in BillingOf(id, "Charge") : c.value = d.value

\* etl.ipynb: "date of birth (we'll derive age and senior citizen status from this)",
\* to "reconstitute a training data set".
SeniorsReconstituted ==
  wide # Null /\ SameRun(joined) =>
    \A row \in wide : row.meta.SeniorCitizen = SourceOf(row).SeniorCitizen
=============================================================================
