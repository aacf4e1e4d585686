------------------------------ MODULE RapidsUdfs ------------------------------
(***************************************************************************)
(* The RAPIDS-accelerated UDFs.  Each has a row-by-row implementation for   *)
(* the CPU and a columnar one for the GPU; Spark may use either for a batch, *)
(* and may use both for one query when an operation falls back to the CPU.  *)
(* The native ones load their library on first use; the tasks of an         *)
(* executor are threads of one JVM.                                        *)
(*                                                                         *)
(* A row is the tuple of its arguments.  A string is a sequence of          *)
(* characters, a decimal its unscaled value, and a cosine the three sums it *)
(* is made of.                                                              *)
(*                                                                         *)
(* External: the column operations of cudf, URLDecoder, Spark's retries.    *)
(***************************************************************************)
EXTENDS Integers, Sequences, FiniteSets, SequencesExt

CONSTANTS
  Task,          \* tasks of one executor
  Batches,       \* [udf |-> name, rows |-> sequence of rows]
  Null,          \* SQL's null
  Raised,        \* the outcome of a batch whose evaluation throws
  Char,          \* characters; an escape is one of them
  NoTask,        \* nobody holds the loader's lock
  MaxIOFailures  \* bound: failed loads

One == 10        \* the decimal 1, of one fractional digit

\* What a UDF takes, and how many of them.
Argument(udf) ==
  CASE udf \in {"wordcount", "urldecode"} -> Seq(Char)
    [] udf = "fraction" -> Int
    [] udf = "cosine" -> Seq(Int \cup {Null})
Arity(udf) == IF udf = "cosine" THEN 2 ELSE 1

ASSUME RapidsUdfsAssumption ==
  /\ MaxIOFailures \in Nat /\ NoTask \notin Task /\ {" ", "A"} \subseteq Char
  /\ Null \notin Int \cup Seq(Char)
  /\ Raised \notin {Null} \cup Int \cup Seq(Char) \cup Int \X Int \X Int
  /\ \A b \in Batches :
       /\ b.udf \in {"wordcount", "fraction", "urldecode", "cosine"}
       /\ b.rows \in Seq([1 .. Arity(b.udf) -> Argument(b.udf) \cup {Null}])

VARIABLES
  batch,         \* what every task has to evaluate
  pc,            \* where each task is
  outcome,       \* of each task
  lock,          \* who is in the synchronized method
  isLoaded,      \* NativeUDFExamplesLoader.isLoaded
  loads,         \* times the library was loaded
  ioFailures     \* times it could not be

loaderVars == <<lock, isLoaded, loads, ioFailures>>
vars == <<batch, pc, outcome, loaderVars>>

Init ==
  /\ batch \in Batches
  /\ pc = [t \in Task |-> "new"] /\ outcome = [t \in Task |-> <<>>]
  /\ lock = NoTask /\ isLoaded = FALSE /\ loads = 0 /\ ioFailures = 0

-----------------------------------------------------------------------------
(* Row by row.                                                              *)

\* Truncated towards zero, as BigDecimal.toBigInteger does.
Truncate(v) == IF v >= 0 THEN v - (v % One) ELSE -((-v) - ((-v) % One))

\* The run a character belongs to; the flag "spaces" of both loops says which one.
Run(ch) == IF ch = " " THEN "spaces" ELSE "word"

\* Counts a word at each change from spaces to another character.
WordCountRow(str) ==
  LET counted[i \in 0 .. Len(str)] ==
        IF i = 0 THEN [run |-> "spaces", words |-> 0]
        ELSE LET acc == counted[i - 1]
             IN IF acc.run = Run(str[i]) THEN acc
                ELSE [run |-> Run(str[i]),
                      words |-> acc.words + (IF acc.run = "spaces" THEN 1 ELSE 0)]
  IN counted[Len(str)].words

\* URLDecoder.decode, and the string itself where that throws.
Decoded(ch) == CASE ch = "+" -> " " [] ch = "%41" -> "A" [] OTHER -> ch
Malformed(str) == \E i \in DOMAIN str : str[i] = "%"
UrlDecodeRow(str) == IF Malformed(str) THEN str ELSE [i \in DOMAIN str |-> Decoded(str[i])]

Sum(f, n) ==
  LET sum[i \in 0 .. n] == IF i = 0 THEN 0 ELSE sum[i - 1] + f[i]
  IN sum[n]

HasNullFloat(v) == \E i \in DOMAIN v : v[i] = Null

\* A null entry throws when it is unboxed.
CosineRow(v1, v2) ==
  IF Len(v1) # Len(v2) \/ HasNullFloat(v1) \/ HasNullFloat(v2) THEN Raised
  ELSE LET n == Len(v1)
       IN <<Sum([i \in 1 .. n |-> v1[i] * v2[i]], n),
            Sum([i \in 1 .. n |-> v1[i] * v1[i]], n), Sum([i \in 1 .. n |-> v2[i] * v2[i]], n)>>

EvaluateRow(row) ==
  IF \E i \in DOMAIN row : row[i] = Null THEN Null
  ELSE CASE batch.udf = "wordcount" -> WordCountRow(row[1])
         [] batch.udf = "fraction" -> row[1] - Truncate(row[1])
         [] batch.udf = "urldecode" -> UrlDecodeRow(row[1])
         [] batch.udf = "cosine" -> CosineRow(row[1], row[2])

\* An exception for one row fails the task.
EvaluateRows ==
  LET values == [r \in DOMAIN batch.rows |-> EvaluateRow(batch.rows[r])]
  IN IF \E r \in DOMAIN values : values[r] = Raised THEN Raised ELSE values

-----------------------------------------------------------------------------
(* Columns.  A column of lists has offsets into its child and a null mask.  *)

Rows == DOMAIN batch.rows
Column(arg) == [r \in Rows |-> batch.rows[r][arg]]

ListColumn(col) ==
  LET lists == [r \in Rows |-> IF col[r] = Null THEN <<>> ELSE col[r]]
      Before(r) == FlattenSeq(SubSeq(lists, 1, r - 1))
  IN [valid |-> {r \in Rows : col[r] # Null},
      offsets |-> [r \in 1 .. Len(batch.rows) + 1 |-> Len(Before(r))],
      child |-> FlattenSeq(lists)]

\* count_words: the iterator stays where it is when a run begins or ends.
CountWords(str) ==
  LET count[at \in (1 .. Len(str) + 1) \X {"spaces", "word"}] ==
        LET i == at[1]
            run == at[2]
        IN IF i > Len(str) THEN 0
           ELSE IF run = Run(str[i]) THEN count[<<i + 1, run>>]
           ELSE (IF run = "spaces" THEN 1 ELSE 0) + count[<<i, Run(str[i])>>]
  IN count[<<1, "spaces">>]

\* The mask of the result is the argument's.
StringWordCount == [r \in Rows |-> IF Column(1)[r] = Null THEN Null ELSE CountWords(Column(1)[r])]

\* floor is towards minus infinity.
DecimalFraction ==
  [r \in Rows |-> LET v == Column(1)[r] IN IF v = Null THEN Null ELSE v - (v - (v % One))]

\* Plus signs are replaced before urlDecode, which leaves alone what is no escape.
UrlDecode ==
  LET replaced == [r \in Rows |-> IF Column(1)[r] = Null THEN Null
                                  ELSE [i \in DOMAIN Column(1)[r] |->
                                         IF Column(1)[r][i] = "+" THEN " " ELSE Column(1)[r][i]]]
  IN [r \in Rows |-> IF replaced[r] = Null THEN Null
                     ELSE [i \in DOMAIN replaced[r] |-> Decoded(replaced[r][i])]]

Length(lv, r) == lv.offsets[r + 1] - lv.offsets[r]

\* Mutant: lists are compared even where one is null.
SameLengths(lv1, lv2) == \A r \in Rows : Length(lv1, r) = Length(lv2, r)

AreOffsetsEqual(lv1, lv2) ==
  \A r \in Rows : r \notin lv1.valid \/ r \notin lv2.valid \/ Length(lv1, r) = Length(lv2, r)

\* One thread for each row, over as many elements as both lists have.
CosineFunctor(lv1, lv2, r) ==
  LET n == IF Length(lv1, r) < Length(lv2, r) THEN Length(lv1, r) ELSE Length(lv2, r)
      At(lv, i) == lv.child[lv.offsets[r] + i]
  IN <<Sum([i \in 1 .. n |-> At(lv1, i) * At(lv2, i)], n),
       Sum([i \in 1 .. n |-> At(lv1, i) * At(lv1, i)], n),
       Sum([i \in 1 .. n |-> At(lv2, i) * At(lv2, i)], n)>>

CosineSimilarity ==
  LET lv1 == ListColumn(Column(1))
      lv2 == ListColumn(Column(2))
  IN IF Rows = {} THEN <<>>
     ELSE IF HasNullFloat(lv1.child) \/ HasNullFloat(lv2.child) \/ ~AreOffsetsEqual(lv1, lv2)
     THEN Raised
     ELSE [r \in Rows |-> IF r \in lv1.valid \cap lv2.valid THEN CosineFunctor(lv1, lv2, r)
                          ELSE Null]

IsNative == batch.udf \in {"wordcount", "cosine"}

EvaluateColumnar ==
  CASE batch.udf = "wordcount" -> StringWordCount
    [] batch.udf = "fraction" -> DecimalFraction
    [] batch.udf = "urldecode" -> UrlDecode
    [] batch.udf = "cosine" -> CosineSimilarity

-----------------------------------------------------------------------------
(* The tasks.                                                               *)

Ends(t, result) ==
  /\ pc' = [pc EXCEPT ![t] = "done"] /\ outcome' = [outcome EXCEPT ![t] = result]
  /\ UNCHANGED batch

\* External: the operation runs on the CPU.
FallBack(t) ==
  /\ pc[t] = "new"
  /\ Ends(t, EvaluateRows)
  /\ UNCHANGED loaderVars

\* Mutant: the method is not synchronized.
EnterAnyTime(t) ==
  /\ pc[t] = "new" /\ IsNative
  /\ lock' = t
  /\ pc' = [pc EXCEPT ![t] = "loading"]
  /\ UNCHANGED <<batch, outcome, isLoaded, loads, ioFailures>>

\* ensureLoaded: one thread at a time.
EnsureLoaded(t) ==
  /\ pc[t] = "new" /\ IsNative /\ lock = NoTask
  /\ lock' = t
  /\ pc' = [pc EXCEPT ![t] = "loading"]
  /\ UNCHANGED <<batch, outcome, isLoaded, loads, ioFailures>>

AlreadyLoaded(t) ==
  /\ pc[t] = "loading" /\ isLoaded
  /\ lock' = NoTask
  /\ pc' = [pc EXCEPT ![t] = "calling"]
  /\ UNCHANGED <<batch, outcome, isLoaded, loads, ioFailures>>

LoadNativeDeps(t) ==
  /\ pc[t] = "loading" /\ ~isLoaded
  /\ loads' = loads + 1
  /\ pc' = [pc EXCEPT ![t] = "loaded"]
  /\ UNCHANGED <<batch, outcome, lock, isLoaded, ioFailures>>

SetIsLoaded(t) ==
  /\ pc[t] = "loaded"
  /\ isLoaded' = TRUE /\ lock' = NoTask
  /\ pc' = [pc EXCEPT ![t] = "calling"]
  /\ UNCHANGED <<batch, outcome, loads, ioFailures>>

\* The IOException becomes a RuntimeException, and the task fails.
LoadFails(t) ==
  /\ pc[t] = "loading" /\ ~isLoaded /\ ioFailures < MaxIOFailures
  /\ ioFailures' = ioFailures + 1
  /\ lock' = NoTask
  /\ pc' = [pc EXCEPT ![t] = "failed"]
  /\ UNCHANGED <<batch, outcome, isLoaded, loads>>

\* External: a failed task is run again.
Retry(t) ==
  /\ pc[t] = "failed"
  /\ pc' = [pc EXCEPT ![t] = "new"]
  /\ UNCHANGED <<batch, outcome, loaderVars>>

\* The native method of a library that is not there throws.
CallNative(t) ==
  /\ pc[t] = "calling"
  /\ Ends(t, IF loads = 0 THEN Raised ELSE EvaluateColumnar)
  /\ UNCHANGED loaderVars

CallCudf(t) ==
  /\ pc[t] = "new" /\ ~IsNative
  /\ Ends(t, EvaluateColumnar)
  /\ UNCHANGED loaderVars

Next ==
  \E t \in Task :
    \/ FallBack(t) \/ CallCudf(t)
    \/ EnsureLoaded(t) \/ AlreadyLoaded(t) \/ LoadNativeDeps(t) \/ SetIsLoaded(t)
    \/ LoadFails(t) \/ Retry(t) \/ CallNative(t)
Spec == Init /\ [][Next]_vars

-----------------------------------------------------------------------------
\* Inputs on which the two implementations are not the same function: decimals
\* below zero with a fraction, malformed URLs, and lists with null entries, which
\* the code says it does not support.
Unlike ==
  \E r \in Rows : \E a \in DOMAIN batch.rows[r] :
    LET v == batch.rows[r][a]
    IN /\ v # Null
       /\ \/ batch.udf = "fraction" /\ v < 0 /\ v % One # 0
          \/ batch.udf = "urldecode" /\ Malformed(v)
          \/ batch.udf = "cosine" /\ HasNullFloat(v)

\* It does not matter where a batch is evaluated, nor how many tasks load the
\* library, nor whether loading failed before: every task that ends has the same
\* rows to show, or has thrown for the same batch.
FallBackIsInvisible ==
  ~Unlike => \A s, t \in Task : pc[s] = "done" /\ pc[t] = "done" => outcome[s] = outcome[t]

\* The library is loaded at most once, and before anybody calls into it.
LoadedOnceBeforeUse ==
  loads <= 1 /\ \A t \in Task : pc[t] = "calling" => loads = 1
=============================================================================
