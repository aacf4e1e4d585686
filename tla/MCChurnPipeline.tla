---------------------------- MODULE MCChurnPipeline ----------------------------
(* Instances of ChurnPipeline for TLC: a customer of several kinds beside one *)
(* that is fixed and one with a null, which is dropped.     *)
EXTENDS ChurnPipeline, TLC

Every(v) == [a \in AddOn |-> v]
Customer(id, phone, internet, addOn, charged, paperless, senior) ==
  [customerID |-> id, PhoneService |-> phone[1], MultipleLines |-> phone[2],
   InternetService |-> internet, addOn |-> addOn,
   Contract |-> "One year", PaperlessBilling |-> paperless, SeniorCitizen |-> senior,
   Churn |-> charged[1], lastMonth |-> charged[2], tenure |-> charged[3],
   TotalCharges |-> charged[4]]

\* <<Churn, the months since, tenure, TotalCharges>>
Fixed == Customer("fixed", <<"Yes", "No">>, "DSL", Every("Yes"),
                  <<TRUE, -1, 2, 30>>, "Yes", TRUE)
Dropped == [Fixed EXCEPT !.customerID = "dropped", !.TotalCharges = Null]

\* The five tables are made from different columns, so the values of one need not
\* meet all values of another.
AnyCustomer ==
  {Customer("any", <<"No", "No phone service">>, "No", Every("No internet service"),
            <<FALSE, 0, 1, 6>>, "No", FALSE),
   Customer("any", <<"Yes", "Yes">>, "DSL", [Every("Yes") EXCEPT !["StreamingTV"] = "No"],
            <<TRUE, -2, 3, 48>>, "Yes", TRUE),
   Customer("any", <<"No", "No phone service">>, "Yes", Every("No"),
            <<TRUE, 0, 2, 18>>, "No", TRUE),
   Customer("any", <<"Yes", "No">>, "No", Every("No internet service"),
            <<FALSE, 0, 3, 30>>, "Yes", FALSE)}
AllFiles == {{c, Fixed, Dropped} : c \in AnyCustomer}

\* 15 January 2023 and 1 July 2024; ages at both ends of what the code makes, and one
\* of 65 years and some months.
SomeDays == {44574, 45107}
SomeAges ==
  {(TRUE :> [r \in 0 .. 2 |-> IF r = 1 THEN a ELSE 30000]) @@
   (FALSE :> [r \in 0 .. 2 |-> IF r = 1 THEN 23371 ELSE 6574]) : a \in {23741, 24000}}
=============================================================================
