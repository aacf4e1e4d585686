----------------------------- MODULE ChurnAugment -----------------------------
(***************************************************************************)
(* churn/augment.py: a wide table, one row for each customer, is taken      *)
(* apart into five tables in long form, each optionally replicated.         *)
(*                                                                         *)
(* The date of an event is its month, since events are months apart; a date *)
(* of birth is a day.  Amounts are in units of which Cent make a cent.      *)
(* Columns that are only copied (gender, Partner, Dependents, PaymentMethod, *)
(* MonthlyCharges) are left out; Contract stands for PaymentMethod too.     *)
(***************************************************************************)
EXTENDS Integers, FiniteSets

CONSTANTS
  AddOn,       \* OnlineSecurity, OnlineBackup, ...: columns that depend on InternetService
  Null,        \* SQL's null
  Cent         \* units of a cent

\* A customer's id, and the replica's number; 0 when there are no replicas.
CustomerID(row, r) == <<row.customerID, r>>

\* _get_uniques makes the same unique strings every time: its generator is seeded.
Uniques(dup) == IF dup > 1 THEN 1 .. dup ELSE {0}

\* replicate_df: every row with every unique string, if there is more than one.
ReplicateDf(df, dup) ==
  {[row EXCEPT !.customerID = CustomerID(row, r)] : row \in df, r \in Uniques(dup)}

\* load_supplied_data: rows with a null are dropped.
LoadSuppliedData(file) == {row \in file : row.TotalCharges # Null}

\* A cast to the currency type: decimals are rounded to the nearest cent.
Currency(type, amount) ==
  IF type = "decimal" THEN Cent * ((2 * amount + Cent) \div (2 * Cent)) ELSE amount

-----------------------------------------------------------------------------
(* billing_events.                                                          *)

LastMonth(row) == IF row.Churn THEN row.lastMonth ELSE 0

\* One charge for each month of the tenure, numbered by row_number().
Charges(df, type, now) ==
  UNION {{[customerID |-> row.customerID, kind |-> "Charge",
           value |-> Currency(type, row.TotalCharges \div row.tenure),
           date |-> now - (n + LastMonth(row))] : n \in 1 .. row.tenure} : row \in df}

\* Mutant: the account is created with its first charge.
StartsWithFirstCharge(df, now) ==
  {[customerID |-> row.customerID, kind |-> "AccountCreation", value |-> 0,
    date |-> now - row.tenure + LastMonth(row)] : row \in df}

ServiceStarts(df, now) ==
  {[customerID |-> row.customerID, kind |-> "AccountCreation", value |-> 0,
    date |-> now - row.tenure - 1 + LastMonth(row)] : row \in df}

ServiceTerminations(df, now) ==
  {[customerID |-> row.customerID, kind |-> "AccountTermination", value |-> 0,
    date |-> now + LastMonth(row)] : row \in {row \in df : row.Churn}}

BillingEvents(df, type, now) ==
  Charges(df, type, now) \cup ServiceStarts(df, now) \cup ServiceTerminations(df, now)

-----------------------------------------------------------------------------
(* The other tables.                                                        *)

\* Ages in days, of 365.25 days a year: 18 to less than 64 years, or 65 and more, cut
\* to whole days.  age[senior][r] is what the hash of a replica's id makes of it.
LeastAge(senior) == (IF senior THEN 65 * 36525 ELSE 18 * 36525) \div 100
AgesOf(senior) == {d \in Nat : d >= LeastAge(senior) /\ (senior \/ 100 * d < 64 * 36525)}
CustomerMeta(df, dup, age, now) ==
  {[customerID |-> row.customerID, now |-> now,
    dateOfBirth |-> now - age[row.SeniorCitizen][row.customerID[2]]] :
     row \in ReplicateDf(df, dup)}

\* A feature is the function from rows to values of one column.
Column(df, name) == [row \in df |-> row[name]]
AddOnColumn(df, a) == [row \in df |-> row.addOn[a]]

Yes == {"Yes"}
NotNo(column) == {column[row] : row \in DOMAIN column} \ {"No"}

Feature(column, name, kept) ==
  {[customerID |-> row.customerID, feature |-> name, value |-> column[row]] :
     row \in {row \in DOMAIN column : column[row] \in kept}}

PhoneFeatures(df) ==
  UNION {Feature(Column(df, name), name, Yes) : name \in {"PhoneService", "MultipleLines"}}

\* A union of frames keeps equal rows, a set of rows does not: the copy tells them apart.
Copied(k, rows) ==
  {[customerID |-> row.customerID, feature |-> row.feature, value |-> row.value,
    copy |-> k] : row \in rows}

\* InternetService is kept unless it is "No", and once more if it is "Yes".  No other
\* table has equal rows.
InternetFeatures(df) ==
  LET service == Column(df, "InternetService")
      addOns == UNION {Feature(AddOnColumn(df, a), a, Yes) : a \in AddOn}
  IN Copied(1, Feature(service, "InternetService", NotNo(service)) \cup addOns)
       \cup Copied(2, Feature(service, "InternetService", Yes))

AccountFeatures(df) ==
  UNION {Feature(Column(df, name), name, NotNo(Column(df, name))) :
           name \in {"Contract", "PaperlessBilling"}}
=============================================================================
