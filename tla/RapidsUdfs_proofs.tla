--------------------------- MODULE RapidsUdfs_proofs ---------------------------
(***************************************************************************)
(* Proofs about the RAPIDS-accelerated UDFs, for any number of tasks and of *)
(* failed loads and for batches of any length: the loader of the native      *)
(* library, and that both implementations of each UDF are one function where *)
(* they are meant to be.                                                     *)
(***************************************************************************)
EXTENDS RapidsUdfs, DataLemmas

PcType == pc \in [Task -> {"new", "loading", "loaded", "calling", "failed", "done"}]

\* Whoever is in the synchronized method holds its lock, so there is one at most.
Exclusive == \A t \in Task : pc[t] \in {"loading", "loaded"} => lock = t

\* The flag is behind the library only while the task that loaded it is on its way to
\* set the flag.
FlagFollowsLoad ==
  /\ isLoaded => loads = 1
  /\ ~isLoaded /\ (\A t \in Task : pc[t] # "loaded") => loads = 0
  /\ \A t \in Task : pc[t] = "loaded" => ~isLoaded /\ loads = 1

CallersSawFlag == \A t \in Task : pc[t] = "calling" => isLoaded

LoaderInv == PcType /\ Exclusive /\ FlagFollowsLoad /\ CallersSawFlag

LEMMA LoaderInvInit == Init => LoaderInv
BY DEF Init, LoaderInv, PcType, Exclusive, FlagFollowsLoad, CallersSawFlag

LEMMA LoaderInvStep == LoaderInv /\ [Next]_vars => LoaderInv'
<1> SUFFICES ASSUME LoaderInv, [Next]_vars PROVE LoaderInv'
  OBVIOUS
<1> USE DEF LoaderInv, PcType, Exclusive, FlagFollowsLoad, CallersSawFlag
<1>1. CASE UNCHANGED vars
  BY <1>1 DEF vars, loaderVars
<1>2. ASSUME NEW t \in Task, FallBack(t) PROVE LoaderInv'
  BY <1>2 DEF FallBack, Ends, loaderVars
<1>3. ASSUME NEW t \in Task, CallCudf(t) PROVE LoaderInv'
  BY <1>3 DEF CallCudf, Ends, loaderVars
<1>4. ASSUME NEW t \in Task, EnsureLoaded(t) PROVE LoaderInv'
  \* The lock was free, so nobody was in the method.
  <2>1. \A u \in Task : pc[u] \notin {"loading", "loaded"}
    BY <1>4, RapidsUdfsAssumption DEF EnsureLoaded
  <2> QED
    BY <1>4, <2>1 DEF EnsureLoaded
<1>5. ASSUME NEW t \in Task, AlreadyLoaded(t) PROVE LoaderInv'
  <2>1. \A u \in Task \ {t} : pc[u] \notin {"loading", "loaded"}
    BY <1>5 DEF AlreadyLoaded
  <2> QED
    BY <1>5, <2>1 DEF AlreadyLoaded
<1>6. ASSUME NEW t \in Task, LoadNativeDeps(t) PROVE LoaderInv'
  \* Nobody else is in the method, so nobody has loaded the library yet.
  <2>1. \A u \in Task \ {t} : pc[u] \notin {"loading", "loaded"}
    BY <1>6 DEF LoadNativeDeps
  <2>2. loads = 0
    BY <1>6, <2>1 DEF LoadNativeDeps
  <2> QED
    BY <1>6, <2>1, <2>2 DEF LoadNativeDeps
<1>7. ASSUME NEW t \in Task, SetIsLoaded(t) PROVE LoaderInv'
  <2>1. \A u \in Task \ {t} : pc[u] \notin {"loading", "loaded"}
    BY <1>7 DEF SetIsLoaded
  <2> QED
    BY <1>7, <2>1 DEF SetIsLoaded
<1>8. ASSUME NEW t \in Task, LoadFails(t) PROVE LoaderInv'
  <2>1. \A u \in Task \ {t} : pc[u] \notin {"loading", "loaded"}
    BY <1>8 DEF LoadFails
  <2> QED
    BY <1>8, <2>1 DEF LoadFails
<1>9. ASSUME NEW t \in Task, Retry(t) PROVE LoaderInv'
  BY <1>9 DEF Retry, loaderVars
<1>10. ASSUME NEW t \in Task, CallNative(t) PROVE LoaderInv'
  BY <1>10 DEF CallNative, Ends, loaderVars
<1> QED
  BY <1>1, <1>2, <1>3, <1>4, <1>5, <1>6, <1>7, <1>8, <1>9, <1>10 DEF Next

\* NativeUDFExamplesLoader.ensureLoaded is synchronized and sets its flag last: however
\* many tasks race for it, and however often loading fails, the library is loaded once
\* at most and before anybody calls into it.
THEOREM LoaderIsSafe == Spec => []LoadedOnceBeforeUse
<1>1. LoaderInv => LoadedOnceBeforeUse
  <2> SUFFICES ASSUME LoaderInv PROVE LoadedOnceBeforeUse
    OBVIOUS
  <2> USE DEF LoaderInv, Exclusive, FlagFollowsLoad, CallersSawFlag
  <2>1. CASE isLoaded
    BY <2>1 DEF LoadedOnceBeforeUse
  <2>2. CASE ~isLoaded
    <3>1. loads \in {0, 1}
      BY <2>2
    <3> QED
      BY <2>2, <3>1 DEF LoadedOnceBeforeUse
  <2> QED
    BY <2>1, <2>2
<1> QED
  BY <1>1, LoaderInvInit, LoaderInvStep, PTL DEF Spec

-----------------------------------------------------------------------------
(* The number of words, by both implementations.                            *)

Runs == {"spaces", "word"}

LEMMA RunType == ASSUME NEW ch PROVE Run(ch) \in Runs
BY DEF Run, Runs

\* The row implementation's loop: its state after each character.
Looped(state, str) ==
  /\ \A i \in 0 .. Len(str) : state[i].words \in Nat /\ state[i].run \in Runs
  /\ state[0].run = "spaces" /\ state[0].words = 0
  /\ \A i \in 1 .. Len(str) :
       /\ state[i].run = Run(str[i])
       /\ state[i].words = state[i - 1].words +
            (IF state[i - 1].run = "spaces" /\ Run(str[i]) = "word" THEN 1 ELSE 0)

LEMMA RowLoop ==
  ASSUME NEW str \in Seq(Char)
  PROVE  \E state : Looped(state, str) /\ WordCountRow(str) = state[Len(str)].words
<1> DEFINE n == Len(str)
           S == [run : Runs, words : Nat]
           base == [run |-> "spaces", words |-> 0]
           Stepped(acc, ch) ==
             IF acc.run = Run(ch) THEN acc
             ELSE [run |-> Run(ch), words |-> acc.words + (IF acc.run = "spaces" THEN 1 ELSE 0)]
           step == [p \in (1 .. n) \X S |-> Stepped(p[2], str[p[1]])]
           Given(f) == f = [i \in 0 .. n |-> IF i = 0 THEN base ELSE Stepped(f[i - 1], str[i])]
<1>1. n \in Nat /\ base \in S
  BY LenProperties DEF Runs
<1>2. ASSUME NEW acc \in S, NEW ch
      PROVE  /\ Stepped(acc, ch) \in S /\ Stepped(acc, ch).run = Run(ch)
             /\ Stepped(acc, ch).words =
                  acc.words + (IF acc.run = "spaces" /\ Run(ch) = "word" THEN 1 ELSE 0)
  <2>1. acc.words \in Nat /\ acc.run \in Runs /\ Run(ch) \in Runs
    BY RunType
  <2>2. CASE acc.run = Run(ch)
    BY <2>1, <2>2
  <2>3. CASE acc.run # Run(ch)
    <3>1. acc.words + (IF acc.run = "spaces" THEN 1 ELSE 0) \in Nat
      BY <2>1
    <3>2. Stepped(acc, ch) \in S
      BY <2>1, <2>3, <3>1
    <3>3. acc.run = "spaces" => Run(ch) = "word"
      BY <2>1, <2>3 DEF Runs
    <3> QED
      BY <2>3, <3>2, <3>3
  <2> QED
    BY <2>2, <2>3
<1>3. step \in [(1 .. n) \X S -> S]
  BY <1>2
<1>4. \A i \in 1 .. n, acc \in S : step[<<i, acc>>] = Stepped(acc, str[i])
  OBVIOUS
<1>5. WordCountRow(str) = (CHOOSE g : Given(g))[n].words
  BY DEF WordCountRow
<1>6. \A acc \in S : acc.words \in Nat /\ acc.run \in Runs
  OBVIOUS
<1>7. base.run = "spaces" /\ base.words = 0
  OBVIOUS
<1> HIDE DEF n, S, base, step, Stepped
<1>8. PICK f : Recurrence(f, n, S, base, step)
  BY <1>1, <1>3, RecursionExists
<1>9. /\ f \in [0 .. n -> S] /\ f[0] = base
      /\ \A i \in 1 .. n : f[i - 1] \in S /\ f[i] = Stepped(f[i - 1], str[i])
  <2>1. \A i \in 1 .. n : f[i - 1] \in S /\ f[i] = step[<<i, f[i - 1]>>]
    BY <1>1, <1>8 DEF Recurrence
  <2> QED
    BY <1>4, <1>8, <2>1 DEF Recurrence
<1>10. Given(f)
  BY <1>1, <1>9
<1> DEFINE state == CHOOSE g : Given(g)
<1>11. Given(state)
  BY <1>10, Zenon
<1> HIDE DEF state
<1>12. \A i \in 0 .. n : state[i] = f[i]
  <2>1. state[0] = f[0] /\ \A i \in 1 .. n : state[i - 1] = f[i - 1] => state[i] = f[i]
    BY <1>1, <1>9, <1>11
  <2>2. Alike(state, f, n)
    BY <1>1, <2>1, SameByRecursion DEF GoAlike
  <2> QED
    BY <2>2 DEF Alike
<1>13. Looped(state, str)
  <2>1. \A i \in 0 .. n : state[i].words \in Nat /\ state[i].run \in Runs
    BY <1>6, <1>9, <1>12
  <2>2. state[0].run = "spaces" /\ state[0].words = 0
    BY <1>1, <1>7, <1>9, <1>12
  <2>3. ASSUME NEW i \in 1 .. n
        PROVE  /\ state[i].run = Run(str[i])
               /\ state[i].words = state[i - 1].words +
                    (IF state[i - 1].run = "spaces" /\ Run(str[i]) = "word" THEN 1 ELSE 0)
    <3>1. i \in 0 .. n /\ i - 1 \in 0 .. n
      BY <1>1
    <3>2. state[i] = Stepped(state[i - 1], str[i]) /\ state[i - 1] \in S
      BY <1>9, <1>12, <3>1
    <3> QED
      BY <1>2, <3>2
  <2> QED
    BY <2>1, <2>2, <2>3 DEF Looped, n
<1> QED
  BY <1>5, <1>13 DEF n, state

\* The device function's loop: the words from character i on, in a run of spaces or not.
Counted(count, str) ==
  /\ count[<<Len(str) + 1, "spaces">>] = 0 /\ count[<<Len(str) + 1, "word">>] = 0
  /\ \A i \in 1 .. Len(str) + 1, r \in Runs : count[<<i, r>>] \in Nat
  /\ \A i \in 1 .. Len(str), r \in Runs :
       count[<<i, r>>] = count[<<i + 1, Run(str[i])>>] +
         (IF r = "spaces" /\ Run(str[i]) = "word" THEN 1 ELSE 0)

LEMMA ColumnLoop ==
  ASSUME NEW str \in Seq(Char)
  PROVE  \E count : Counted(count, str) /\ CountWords(str) = count[<<1, "spaces">>]
<1> DEFINE n == Len(str)
           D == (1 .. n + 1) \X Runs
           Body(c, i, r) ==
             IF i > n THEN 0
             ELSE IF r = Run(str[i]) THEN c[<<i + 1, r>>]
             ELSE (IF r = "spaces" THEN 1 ELSE 0) + c[<<i, Run(str[i])>>]
           Given(c) == c = [at \in D |-> Body(c, at[1], at[2])]
<1>1. n \in Nat
  BY LenProperties
<1>2. CountWords(str) = (CHOOSE c : Given(c))[<<1, "spaces">>]
  BY DEF CountWords, Runs
\* Existence, from the last character to the first.
<1> DEFINE S == [Runs -> Nat]
           base == [r \in Runs |-> 0]
           Stepped(p, ch) == [r \in Runs |->
             p[Run(ch)] + (IF r = "spaces" /\ Run(ch) = "word" THEN 1 ELSE 0)]
           step == [a \in (1 .. n) \X S |-> Stepped(a[2], str[n + 1 - a[1]])]
<1>3. base \in S
  OBVIOUS
<1>4. ASSUME NEW p \in S, NEW ch PROVE Stepped(p, ch) \in S
  <2>1. p[Run(ch)] \in Nat
    BY RunType
  <2> QED
    BY <2>1
<1>5. step \in [(1 .. n) \X S -> S]
  BY <1>4
<1>6. \A k \in 1 .. n, p \in S : step[<<k, p>>] = Stepped(p, str[n + 1 - k])
  OBVIOUS
<1> HIDE DEF n, step
<1>7. PICK f : Recurrence(f, n, S, base, step)
  BY <1>1, <1>3, <1>5, RecursionExists
<1>8. /\ f \in [0 .. n -> S] /\ f[0] = base
      /\ \A k \in 1 .. n : f[k - 1] \in S /\ f[k] = Stepped(f[k - 1], str[n + 1 - k])
  <2>1. \A k \in 1 .. n : f[k - 1] \in S /\ f[k] = step[<<k, f[k - 1]>>]
    BY <1>1, <1>7 DEF Recurrence
  <2> QED
    BY <1>6, <1>7, <2>1, ZenonT(40) DEF Recurrence
<1> HIDE DEF S
<1>9. ASSUME NEW i \in 1 .. n, NEW r \in Runs
      PROVE  f[n + 1 - i][r] = f[n - i][Run(str[i])] +
               (IF r = "spaces" /\ Run(str[i]) = "word" THEN 1 ELSE 0)
  <2> DEFINE k == n + 1 - i
  <2>1. k \in 1 .. n /\ n + 1 - k = i /\ k - 1 = n - i
    BY <1>1
  <2> HIDE DEF k, Stepped
  <2>2. f[k] = Stepped(f[k - 1], str[n + 1 - k])
    BY <1>8, <2>1
  <2>3. f[k] = Stepped(f[n - i], str[i])
    BY <2>1, <2>2
  <2> QED
    BY <2>3 DEF k, Stepped
<1>10. \A k \in 0 .. n, r \in Runs : f[k][r] \in Nat
  BY <1>8 DEF S
<1> HIDE DEF Stepped
<1> DEFINE c0 == [at \in D |-> f[n + 1 - at[1]][at[2]]]
<1>11. \A i \in 1 .. n + 1, r \in Runs : <<i, r>> \in D /\ c0[<<i, r>>] = f[n + 1 - i][r]
  OBVIOUS
<1> HIDE DEF c0
<1>12. ASSUME NEW i \in 1 .. n + 1, NEW r \in Runs PROVE c0[<<i, r>>] = Body(c0, i, r)
  <2>1. CASE i > n
    <3>1. n + 1 - i = 0
      BY <1>1, <2>1
    <3> QED
      BY <1>8, <1>11, <2>1, <3>1
  <2>2. CASE ~(i > n)
    <3> DEFINE R == Run(str[i])
    <3>1. i \in 1 .. n /\ i + 1 \in 1 .. n + 1 /\ n + 1 - (i + 1) = n - i /\ n - i \in 0 .. n
      BY <1>1, <2>2
    <3>2. R \in Runs
      BY RunType
    <3>3. c0[<<i + 1, R>>] = f[n - i][R] /\ f[n - i][R] \in Nat
      BY <1>10, <1>11, <3>1, <3>2
    <3>4. c0[<<i, R>>] = f[n - i][R]
      <4>1. c0[<<i, R>>] = f[n - i][R] + (IF R = "spaces" /\ R = "word" THEN 1 ELSE 0)
        BY <1>9, <1>11, <3>1, <3>2
      <4> QED
        BY <3>3, <4>1
    <3>5. c0[<<i, r>>] = f[n - i][R] + (IF r = "spaces" /\ R = "word" THEN 1 ELSE 0)
      BY <1>9, <1>11, <3>1
    <3>6. r # R /\ r = "spaces" => R = "word"
      BY <3>2 DEF Runs
    <3> HIDE DEF R
    <3>7. CASE r = R
      BY <2>2, <3>3, <3>4, <3>7 DEF R
    <3>8. CASE r # R
      BY <2>2, <3>3, <3>4, <3>5, <3>6, <3>8 DEF R
    <3> QED
      BY <3>7, <3>8
  <2> QED
    BY <2>1, <2>2
<1>13. Given(c0)
  <2>1. \A at \in D : at = <<at[1], at[2]>> /\ at[1] \in 1 .. n + 1 /\ at[2] \in Runs
    OBVIOUS
  <2>2. \A at \in D : c0[at] = Body(c0, at[1], at[2])
    BY <1>12, <2>1
  <2> HIDE DEF Body, D
  <2>3. c0 = [at \in D |-> c0[at]]
    BY DEF c0
  <2> QED
    BY <2>2, <2>3
\* What the chosen one is.
<1> DEFINE c == CHOOSE g : Given(g)
<1>14. Given(c)
  BY <1>13, Zenon
<1> HIDE DEF c
<1>15. \A i \in 1 .. n + 1, r \in Runs : c[<<i, r>>] = Body(c, i, r)
  BY <1>14
<1>16. \A r \in Runs : c[<<n + 1, r>>] = 0
  <2>1. n + 1 \in 1 .. n + 1 /\ n + 1 > n
    BY <1>1
  <2>2. \A r \in Runs : Body(c, n + 1, r) = 0
    BY <2>1
  <2> HIDE DEF Body
  <2> QED
    BY <1>15, <2>1, <2>2
<1>17. ASSUME NEW i \in 1 .. n, NEW r \in Runs, \A q \in Runs : c[<<i + 1, q>>] \in Nat
       PROVE  c[<<i, r>>] = c[<<i + 1, Run(str[i])>>] +
                (IF r = "spaces" /\ Run(str[i]) = "word" THEN 1 ELSE 0)
  <2> DEFINE R == Run(str[i])
  <2>1. R \in Runs /\ i \in 1 .. n + 1 /\ ~(i > n)
    BY <1>1, RunType
  <2>2. c[<<i, R>>] = c[<<i + 1, R>>] /\ c[<<i + 1, R>>] \in Nat
    BY <1>15, <1>17, <2>1
  <2>3. r # R /\ r = "spaces" => R = "word"
    BY <2>1 DEF Runs
  <2>4. r # R => c[<<i, r>>] = (IF r = "spaces" THEN 1 ELSE 0) + c[<<i, R>>]
    BY <1>15, <2>1
  <2> HIDE DEF R
  <2>5. CASE r = R
    BY <2>2, <2>5 DEF R
  <2>6. CASE r # R
    BY <2>2, <2>3, <2>4, <2>6 DEF R
  <2> QED
    BY <2>5, <2>6
<1> DEFINE G == {k \in 0 .. n : \A r \in Runs : c[<<n + 1 - k, r>>] \in Nat}
<1>18. Inductive(G, 0, n)
  <2>1. 0 \in G
    BY <1>1, <1>16
  <2>2. ASSUME NEW k \in 1 .. n, k - 1 \in G PROVE k \in G
    <3> DEFINE i == n + 1 - k
    <3>1. i \in 1 .. n /\ i + 1 = n + 1 - (k - 1)
      BY <1>1
    <3>2. \A q \in Runs : c[<<i + 1, q>>] \in Nat
      BY <2>2, <3>1
    <3>3. ASSUME NEW r \in Runs PROVE c[<<i, r>>] \in Nat
      <4>1. c[<<i, r>>] = c[<<i + 1, Run(str[i])>>] +
              (IF r = "spaces" /\ Run(str[i]) = "word" THEN 1 ELSE 0)
        BY <1>17, <3>1, <3>2
      <4>2. c[<<i + 1, Run(str[i])>>] \in Nat
        BY <3>2, RunType
      <4> QED
        BY <4>1, <4>2
    <3> QED
      BY <3>3
  <2> QED
    BY <2>1, <2>2 DEF Inductive
<1> HIDE DEF G
<1>19. \A k \in 0 .. n : k \in G
  BY <1>1, <1>18, IntervalInduction
<1>20. ASSUME NEW i \in 1 .. n + 1, NEW r \in Runs PROVE c[<<i, r>>] \in Nat
  <2>1. n + 1 - i \in 0 .. n /\ n + 1 - (n + 1 - i) = i
    BY <1>1
  <2>2. n + 1 - i \in G
    BY <1>19, <2>1
  <2> QED
    BY <2>1, <2>2 DEF G
<1>21. ASSUME NEW i \in 1 .. n, NEW r \in Runs
       PROVE  c[<<i, r>>] = c[<<i + 1, Run(str[i])>>] +
                (IF r = "spaces" /\ Run(str[i]) = "word" THEN 1 ELSE 0)
  <2>1. i + 1 \in 1 .. n + 1
    BY <1>1
  <2> QED
    BY <1>17, <1>20, <2>1
<1>22. Counted(c, str)
  <2>1. c[<<n + 1, "spaces">>] = 0 /\ c[<<n + 1, "word">>] = 0
    BY <1>16 DEF Runs
  <2> QED
    BY <1>20, <1>21, <2>1 DEF Counted, n
<1> QED
  BY <1>2, <1>22 DEF c

\* The words counted so far and those still to come are always the same number.
LEMMA WordCountsAgree ==
  ASSUME NEW str \in Seq(Char)
  PROVE  WordCountRow(str) = CountWords(str) /\ WordCountRow(str) \in Nat
<1> DEFINE n == Len(str)
<1>1. n \in Nat
  BY LenProperties
<1>2. PICK state : Looped(state, str) /\ WordCountRow(str) = state[n].words
  BY RowLoop
<1>3. PICK count : Counted(count, str) /\ CountWords(str) = count[<<1, "spaces">>]
  BY ColumnLoop
<1> DEFINE Total(i) == state[i].words + count[<<i + 1, state[i].run>>]
           G == {i \in 0 .. n : Total(i) = count[<<1, "spaces">>]}
<1>4. \A i \in 0 .. n : state[i].words \in Nat /\ state[i].run \in Runs
  BY <1>2 DEF Looped
<1>5. \A i \in 1 .. n + 1, r \in Runs : count[<<i, r>>] \in Nat
  BY <1>3 DEF Counted
<1>6. Total(0) = count[<<1, "spaces">>]
  <2>1. state[0].run = "spaces" /\ state[0].words = 0 /\ "spaces" \in Runs
    BY <1>2 DEF Looped, Runs
  <2> QED
    BY <1>1, <1>5, <2>1
<1>7. ASSUME NEW i \in 1 .. n PROVE Total(i) = Total(i - 1)
  <2> DEFINE R == Run(str[i])
             r == state[i - 1].run
             one == IF r = "spaces" /\ R = "word" THEN 1 ELSE 0
  <2>1. i \in 0 .. n /\ i - 1 \in 0 .. n /\ i + 1 \in 1 .. n + 1 /\ i - 1 + 1 = i
    BY <1>1
  <2>2. state[i].run = R /\ state[i].words = state[i - 1].words + one
    BY <1>2 DEF Looped
  <2>3. r \in Runs /\ R \in Runs /\ state[i - 1].words \in Nat
    BY <1>4, <2>1, RunType
  <2>4. count[<<i, r>>] = count[<<i + 1, R>>] + one
    BY <1>3, <2>3 DEF Counted
  <2>5. count[<<i + 1, R>>] \in Nat /\ one \in Nat
    BY <1>5, <2>1, <2>3
  <2> HIDE DEF R, one
  <2>6. Total(i) = state[i - 1].words + one + count[<<i + 1, R>>]
    BY <2>2
  <2>7. Total(i - 1) = state[i - 1].words + (count[<<i + 1, R>>] + one)
    BY <2>1, <2>4
  <2> QED
    BY <2>3, <2>5, <2>6, <2>7
<1> HIDE DEF Total
<1>8. Inductive(G, 0, n)
  BY <1>1, <1>6, <1>7 DEF Inductive
<1> HIDE DEF G
<1>9. n \in G
  BY <1>1, <1>8, IntervalInduction
<1>10. Total(n) = count[<<1, "spaces">>]
  BY <1>9 DEF G
<1>11. count[<<n + 1, state[n].run>>] = 0 /\ state[n].words \in Nat
  <2>1. n \in 0 .. n
    BY <1>1
  <2>2. state[n].run \in Runs /\ state[n].words \in Nat
    BY <1>4, <2>1
  <2>3. count[<<n + 1, "spaces">>] = 0 /\ count[<<n + 1, "word">>] = 0
    BY <1>3 DEF Counted
  <2> QED
    BY <2>2, <2>3 DEF Runs
<1>12. state[n].words = count[<<1, "spaces">>]
  BY <1>10, <1>11 DEF Total
<1> QED
  BY <1>2, <1>3, <1>11, <1>12
-----------------------------------------------------------------------------
(* Every UDF, by both implementations.                                      *)

\* A batch as the assumption describes it.
LEMMA BatchShape ==
  ASSUME batch \in Batches
  PROVE  /\ batch.udf \in {"wordcount", "fraction", "urldecode", "cosine"}
         /\ Len(batch.rows) \in Nat /\ Rows = 1 .. Len(batch.rows)
         /\ \A r \in Rows : batch.rows[r] \in [1 .. Arity(batch.udf) -> Argument(batch.udf) \cup {Null}]
<1>1. /\ batch.udf \in {"wordcount", "fraction", "urldecode", "cosine"}
      /\ batch.rows \in Seq([1 .. Arity(batch.udf) -> Argument(batch.udf) \cup {Null}])
  BY RapidsUdfsAssumption
<1>2. Len(batch.rows) \in Nat /\ Rows = 1 .. Len(batch.rows)
  BY <1>1, LenProperties DEF Rows
<1>3. \A r \in 1 .. Len(batch.rows) :
        batch.rows[r] \in [1 .. Arity(batch.udf) -> Argument(batch.udf) \cup {Null}]
  BY <1>1, ElementOfSeq
<1> QED
  BY <1>1, <1>2, <1>3

\* What a row of one argument holds.
LEMMA SingleRow ==
  ASSUME batch \in Batches, batch.udf # "cosine", NEW r \in Rows
  PROVE  /\ batch.rows[r][1] = Column(1)[r]
         /\ Column(1)[r] \in Argument(batch.udf) \cup {Null} /\ 1 \in DOMAIN batch.rows[r]
         /\ (\E i \in DOMAIN batch.rows[r] : batch.rows[r][i] = Null) <=> Column(1)[r] = Null
<1>1. Arity(batch.udf) = 1
  BY DEF Arity
<1>2. batch.rows[r] \in [1 .. 1 -> Argument(batch.udf) \cup {Null}]
  BY <1>1, BatchShape
<1>3. Column(1)[r] = batch.rows[r][1]
  BY DEF Column
<1>4. DOMAIN batch.rows[r] = {1}
  BY <1>2
<1> QED
  BY <1>2, <1>3, <1>4

LEMMA SameWordCounts ==
  ASSUME batch \in Batches, batch.udf = "wordcount"
  PROVE  EvaluateRows = StringWordCount
<1> DEFINE F(r) == IF Column(1)[r] = Null THEN Null ELSE CountWords(Column(1)[r])
<1>1. ASSUME NEW r \in Rows
      PROVE  EvaluateRow(batch.rows[r]) = F(r) /\ F(r) # Raised
  <2>1. Argument(batch.udf) = Seq(Char)
    BY DEF Argument
  <2>2. CASE Column(1)[r] = Null
    BY <2>2, SingleRow, RapidsUdfsAssumption DEF EvaluateRow
  <2>3. CASE Column(1)[r] # Null
    <3>1. batch.rows[r][1] = Column(1)[r] /\ Column(1)[r] \in Seq(Char)
      BY <2>1, <2>3, SingleRow
    <3>2. EvaluateRow(batch.rows[r]) = WordCountRow(Column(1)[r])
      BY <2>3, <3>1, SingleRow DEF EvaluateRow
    <3>3. WordCountRow(Column(1)[r]) = CountWords(Column(1)[r])
          /\ WordCountRow(Column(1)[r]) \in Nat
      BY <3>1, WordCountsAgree
    <3>4. Raised \notin Int
      BY RapidsUdfsAssumption
    <3>5. F(r) = CountWords(Column(1)[r])
      BY <2>3
    <3> HIDE DEF F
    <3> QED
      BY <3>2, <3>3, <3>4, <3>5
  <2> QED
    BY <2>2, <2>3
<1> HIDE DEF F
<1>2. EvaluateRows = [r \in Rows |-> F(r)]
  BY <1>1 DEF EvaluateRows, Rows
<1> QED
  BY <1>2 DEF F, StringWordCount

\* Below zero the two round differently, unless there is nothing to round.
LEMMA SameFractionOfOne ==
  ASSUME NEW v \in Int, v >= 0 \/ v % One = 0
  PROVE  v - Truncate(v) = v - (v - (v % One)) /\ v - Truncate(v) \in Int
<1>1. CASE v >= 0
  BY <1>1 DEF Truncate, One
<1>2. CASE ~(v >= 0)
  <2>1. v % 10 = 0 /\ (-v) % 10 = 0
    BY <1>2 DEF One
  <2> QED
    BY <1>2, <2>1 DEF Truncate, One
<1> QED
  BY <1>1, <1>2

LEMMA SameFractions ==
  ASSUME batch \in Batches, batch.udf = "fraction", ~Unlike
  PROVE  EvaluateRows = DecimalFraction
<1> DEFINE F(r) == LET v == Column(1)[r] IN IF v = Null THEN Null ELSE v - (v - (v % One))
<1>1. ASSUME NEW r \in Rows
      PROVE  EvaluateRow(batch.rows[r]) = F(r) /\ F(r) # Raised
  <2>1. Argument(batch.udf) = Int
    BY DEF Argument
  <2>2. CASE Column(1)[r] = Null
    BY <2>2, SingleRow, RapidsUdfsAssumption DEF EvaluateRow
  <2>3. CASE Column(1)[r] # Null
    <3> DEFINE v == Column(1)[r]
    <3>1. batch.rows[r][1] = v /\ v \in Int /\ v # Null /\ 1 \in DOMAIN batch.rows[r]
      BY <2>1, <2>3, SingleRow
    <3>2. EvaluateRow(batch.rows[r]) = v - Truncate(v)
      BY <2>3, <3>1, SingleRow DEF EvaluateRow
    <3>3. v >= 0 \/ v % One = 0
      BY <3>1 DEF Unlike, One
    <3> HIDE DEF v
    <3>4. v - Truncate(v) = v - (v - (v % One)) /\ v - Truncate(v) \in Int
      BY <3>1, <3>3, SameFractionOfOne
    <3>5. F(r) = v - (v - (v % One))
      BY <2>3 DEF v
    <3> QED
      BY <3>2, <3>4, <3>5, RapidsUdfsAssumption
  <2> QED
    BY <2>2, <2>3
<1> HIDE DEF F
<1>2. EvaluateRows = [r \in Rows |-> F(r)]
  BY <1>1 DEF EvaluateRows, Rows
<1> QED
  BY <1>2 DEF F, DecimalFraction

\* A plus sign is one character either way, and no escape.
LEMMA DecodedOnce ==
  ASSUME NEW ch \in Char
  PROVE  /\ Decoded(IF ch = "+" THEN " " ELSE ch) = Decoded(ch) /\ Decoded(ch) \in Char
         /\ (IF ch = "+" THEN " " ELSE ch) \in Char
<1>1. CASE ch = "+"
  BY <1>1, RapidsUdfsAssumption DEF Decoded
<1>2. CASE ch # "+" /\ ch = "%41"
  BY <1>2, RapidsUdfsAssumption DEF Decoded
<1>3. CASE ch # "+" /\ ch # "%41"
  BY <1>3 DEF Decoded
<1> QED
  BY <1>1, <1>2, <1>3

LEMMA SameUrls ==
  ASSUME batch \in Batches, batch.udf = "urldecode", ~Unlike
  PROVE  EvaluateRows = UrlDecode
<1> DEFINE Spaced(ch) == IF ch = "+" THEN " " ELSE ch
           replaced == [r \in Rows |-> IF Column(1)[r] = Null THEN Null
                         ELSE [i \in DOMAIN Column(1)[r] |-> Spaced(Column(1)[r][i])]]
           F(r) == IF replaced[r] = Null THEN Null
                   ELSE [i \in DOMAIN replaced[r] |-> Decoded(replaced[r][i])]
<1>1. ASSUME NEW r \in Rows
      PROVE  EvaluateRow(batch.rows[r]) = F(r) /\ F(r) # Raised
  <2>1. Argument(batch.udf) = Seq(Char)
    BY DEF Argument
  <2>2. CASE Column(1)[r] = Null
    <3>1. replaced[r] = Null
      BY <2>2
    <3> HIDE DEF replaced
    <3> QED
      BY <2>2, <3>1, SingleRow, RapidsUdfsAssumption DEF EvaluateRow
  <2>3. CASE Column(1)[r] # Null
    <3> DEFINE str == Column(1)[r]
    <3>1. batch.rows[r][1] = str /\ str \in Seq(Char) /\ str # Null /\ 1 \in DOMAIN batch.rows[r]
      BY <2>1, <2>3, SingleRow
    <3>2. EvaluateRow(batch.rows[r]) = UrlDecodeRow(str)
      BY <2>3, <3>1, SingleRow DEF EvaluateRow
    <3>3. ~Malformed(str)
      BY <3>1 DEF Unlike
    <3>4. replaced[r] = [i \in DOMAIN str |-> Spaced(str[i])]
      BY <2>3
    <3> HIDE DEF str, replaced
    <3>5. /\ Len(str) \in Nat /\ DOMAIN str = 1 .. Len(str)
          /\ \A i \in DOMAIN str : str[i] \in Char
      BY <3>1, LenProperties, ElementOfSeq
    <3>6. replaced[r] # Null /\ DOMAIN replaced[r] = DOMAIN str
      <4>1. \A i \in DOMAIN str : Spaced(str[i]) \in Char
        BY <3>5, DecodedOnce
      <4> HIDE DEF Spaced
      <4>2. [i \in DOMAIN str |-> Spaced(str[i])] \in Seq(Char)
        BY <3>5, <4>1, SeqDef
      <4> QED
        BY <3>4, <4>2, RapidsUdfsAssumption
    <3>7. F(r) = [i \in DOMAIN str |-> Decoded(replaced[r][i])]
      BY <3>6
    <3>8. \A i \in DOMAIN str : Decoded(replaced[r][i]) = Decoded(str[i]) /\ Decoded(str[i]) \in Char
      BY <3>4, <3>5, DecodedOnce
    <3> HIDE DEF F
    <3>9. F(r) = [i \in DOMAIN str |-> Decoded(str[i])]
      BY <3>7, <3>8
    <3>10. [i \in DOMAIN str |-> Decoded(str[i])] \in Seq(Char)
      BY <3>5, <3>8, SeqDef
    <3> QED
      BY <3>2, <3>3, <3>9, <3>10, RapidsUdfsAssumption DEF UrlDecodeRow
  <2> QED
    BY <2>2, <2>3
<1> HIDE DEF F
<1>2. EvaluateRows = [r \in Rows |-> F(r)]
  BY <1>1 DEF EvaluateRows, Rows
<1> QED
  BY <1>2 DEF F, UrlDecode

\* The sums of a cosine are numbers.
LEMMA SumType ==
  ASSUME NEW n \in Nat, NEW f \in [1 .. n -> Int]
  PROVE  Sum(f, n) \in Int
<1> DEFINE step == [p \in (1 .. n) \X Int |-> p[2] + f[p[1]]]
           Given(s) == s = [i \in 0 .. n |-> IF i = 0 THEN 0 ELSE s[i - 1] + f[i]]
<1>1. step \in [(1 .. n) \X Int -> Int]
  OBVIOUS
<1>2. \A i \in 1 .. n, x \in Int : step[<<i, x>>] = x + f[i]
  OBVIOUS
<1>3. Sum(f, n) = (CHOOSE s : Given(s))[n]
  BY DEF Sum
<1> HIDE DEF step
<1>4. PICK g : Recurrence(g, n, Int, 0, step)
  <2>1. 0 \in Int
    OBVIOUS
  <2> QED
    BY <1>1, <2>1, RecursionExists
<1>5. /\ g \in [0 .. n -> Int] /\ g[0] = 0
      /\ \A i \in 1 .. n : g[i - 1] \in Int /\ g[i] = g[i - 1] + f[i]
  <2>1. \A i \in 1 .. n : g[i - 1] \in Int /\ g[i] = step[<<i, g[i - 1]>>]
    BY <1>4 DEF Recurrence
  <2> QED
    BY <1>2, <1>4, <2>1 DEF Recurrence
<1>6. Given(g)
  <2>1. g = [i \in 0 .. n |-> g[i]]
    BY <1>5
  <2>2. \A i \in 0 .. n : g[i] = IF i = 0 THEN 0 ELSE g[i - 1] + f[i]
    BY <1>5
  <2> QED
    BY <2>1, <2>2
<1> DEFINE s == CHOOSE s : Given(s)
<1>7. Given(s)
  BY <1>6, Zenon
<1> HIDE DEF s
<1>8. GoAlike(s, g, n)
  BY <1>5, <1>7 DEF GoAlike
<1>9. s[n] = g[n]
  BY <1>8, SameByRecursion DEF Alike
<1> QED
  BY <1>3, <1>5, <1>9 DEF s

\* What a column of lists holds of a row that is not null: its list.
Holds(lv, col) ==
  /\ lv.valid = {r \in Rows : col[r] # Null}
  /\ \A r \in lv.valid :
       /\ Length(lv, r) = Len(col[r])
       /\ \A i \in 1 .. Len(col[r]) : lv.child[lv.offsets[r] + i] = col[r][i]
  /\ (\A r \in lv.valid : ~HasNullFloat(col[r])) => ~HasNullFloat(lv.child)

LEMMA ListColumnHoldsLists ==
  ASSUME batch \in Batches, NEW col,
         \A r \in Rows : col[r] \in Seq(Int \cup {Null}) \cup {Null}
  PROVE  Holds(ListColumn(col), col)
<1> DEFINE S == Int \cup {Null}
           n == Len(batch.rows)
           lists == [r \in Rows |-> IF col[r] = Null THEN <<>> ELSE col[r]]
           child == FlattenSeq(lists)
           offsets == [r \in 1 .. n + 1 |-> Len(FlattenSeq(SubSeq(lists, 1, r - 1)))]
           lv == [valid |-> {r \in Rows : col[r] # Null}, offsets |-> offsets, child |-> child]
<1>1. n \in Nat /\ Rows = 1 .. n
  BY BatchShape
<1>2. lists \in Seq(Seq(S)) /\ Len(lists) = n
  <2>1. \A r \in 1 .. n : lists[r] \in Seq(S)
    BY <1>1
  <2> HIDE DEF S
  <2>2. lists \in [1 .. n -> Seq(S)]
    BY <1>1, <2>1
  <2> HIDE DEF lists, n
  <2>3. lists \in Seq(Seq(S))
    BY <1>1, <2>2
  <2>4. Len(lists) \in Nat /\ 1 .. Len(lists) = 1 .. n
    BY <2>2, <2>3, LenProperties
  <2> QED
    BY <1>1, <2>3, <2>4
<1>3. ListColumn(col) = lv
  BY DEF ListColumn
<1>4. \A r \in Rows : lists[r] = IF col[r] = Null THEN <<>> ELSE col[r]
  OBVIOUS
<1> HIDE DEF S, lists
<1>5. PICK off : LaidOut(lists, child, off)
  BY <1>2, FlattenLaidOut
<1>6. /\ Laid(lists, off) /\ \A k \in 0 .. n : off[k] \in Nat
      /\ \A r \in 1 .. n : off[r] = off[r - 1] + Len(lists[r])
      /\ \A r \in 1 .. n : \A j \in 1 .. Len(lists[r]) : child[off[r - 1] + j] = lists[r][j]
  BY <1>2, <1>5 DEF LaidOut, Laid
<1>7. ASSUME NEW r \in 1 .. n + 1 PROVE offsets[r] = off[r - 1]
  <2>1. r - 1 \in 0 .. Len(lists)
    BY <1>1, <1>2
  <2>2. Len(FlattenSeq(SubSeq(lists, 1, r - 1))) = off[r - 1]
    BY <1>2, <1>6, <2>1, PrefixLengths
  <2> QED
    BY <2>2
<1> HIDE DEF offsets, n, child
<1>8. ASSUME NEW r \in lv.valid
      PROVE  /\ Length(lv, r) = Len(col[r])
             /\ \A i \in 1 .. Len(col[r]) : child[offsets[r] + i] = col[r][i]
  <2>1. r \in 1 .. n /\ r \in 1 .. n + 1 /\ r + 1 \in 1 .. n + 1 /\ r + 1 - 1 = r
        /\ r \in 0 .. n /\ r - 1 \in 0 .. n
    BY <1>1
  <2>2. lists[r] = col[r]
    BY <1>4
  <2>3. offsets[r] = off[r - 1] /\ offsets[r + 1] = off[r] /\ off[r] = off[r - 1] + Len(col[r])
    <3>1. offsets[r + 1] = off[r + 1 - 1]
      BY <1>7, <2>1
    <3> QED
      BY <1>6, <1>7, <2>1, <2>2, <3>1
  <2>4. Len(col[r]) \in Nat /\ off[r - 1] \in Nat
    <3>1. lists[r] \in Seq(S)
      BY <1>2, <2>1, ElementOfSeq
    <3> QED
      BY <1>6, <2>1, <2>2, <3>1, LenProperties
  <2>5. Length(lv, r) = Len(col[r])
    BY <2>3, <2>4 DEF Length
  <2>6. \A i \in 1 .. Len(col[r]) : child[offsets[r] + i] = col[r][i]
    BY <1>6, <2>1, <2>2, <2>3
  <2> QED
    BY <2>5, <2>6
<1>9. ASSUME \A r \in lv.valid : ~HasNullFloat(col[r]) PROVE ~HasNullFloat(child)
  <2>1. /\ child \in Seq(S) /\ Len(child) \in Nat
        /\ \A p \in 1 .. Len(child) :
             \E r \in 1 .. n : \E a \in 1 .. Len(lists[r]) : child[p] = lists[r][a]
    <3>1. child \in Seq(S) /\ Len(child) \in Nat /\ Len(child) = off[Len(lists)]
      BY <1>2, <1>5, FlattenLaidOut, LenProperties DEF child, LaidOut
    <3>2. ASSUME NEW p \in 1 .. Len(child)
          PROVE  \E r \in 1 .. n : \E a \in 1 .. Len(lists[r]) : child[p] = lists[r][a]
      <4>1. PICK r \in 1 .. Len(lists) : \E a \in 1 .. Len(lists[r]) : p = off[r - 1] + a
        BY <1>2, <1>6, <3>1, FlattenOnto
      <4>2. PICK a \in 1 .. Len(lists[r]) : p = off[r - 1] + a
        BY <4>1
      <4>3. r \in 1 .. n
        BY <1>2
      <4>4. child[p] = lists[r][a]
        BY <1>6, <4>2, <4>3
      <4> QED
        BY <4>3, <4>4
    <3> QED
      BY <3>1, <3>2
  <2>2. ASSUME NEW r \in 1 .. n, NEW a \in 1 .. Len(lists[r]) PROVE lists[r][a] # Null
    <3>1. lists[r] \in Seq(S) /\ DOMAIN lists[r] = 1 .. Len(lists[r])
      BY <1>2, ElementOfSeq, LenProperties
    <3>2. CASE col[r] = Null
      <4>1. lists[r] = <<>>
        BY <1>1, <1>4, <3>2
      <4> QED
        BY <4>1
    <3>3. CASE col[r] # Null
      <4>1. lists[r] = col[r] /\ ~HasNullFloat(col[r])
        BY <1>1, <1>4, <1>9, <3>3
      <4> QED
        BY <3>1, <4>1 DEF HasNullFloat
    <3> QED
      BY <3>2, <3>3
  <2>3. DOMAIN child = 1 .. Len(child)
    BY <2>1, LenProperties
  <2> QED
    BY <2>1, <2>2, <2>3 DEF HasNullFloat
<1>10. lv.valid = {r \in Rows : col[r] # Null} /\ lv.child = child /\ lv.offsets = offsets
  OBVIOUS
<1> HIDE DEF lv
<1> QED
  BY <1>3, <1>8, <1>9, <1>10 DEF Holds

\* The columns hold the vectors v1 and v2, of one length and without a null, in row r.
RowHolds(lv1, lv2, r, v1, v2) ==
  /\ v1 \in Seq(Int) /\ v2 \in Seq(Int)
  /\ ~HasNullFloat(v1) /\ ~HasNullFloat(v2)
  /\ Len(v1) = Len(v2) /\ Length(lv1, r) = Len(v1) /\ Length(lv2, r) = Len(v1)
  /\ \A i \in 1 .. Len(v1) :
       lv1.child[lv1.offsets[r] + i] = v1[i] /\ lv2.child[lv2.offsets[r] + i] = v2[i]

\* One thread of the kernel computes what the row implementation does of the same lists.
LEMMA SameCosineOfRow ==
  ASSUME NEW lv1, NEW lv2, NEW r, NEW v1, NEW v2, RowHolds(lv1, lv2, r, v1, v2)
  PROVE  CosineFunctor(lv1, lv2, r) = CosineRow(v1, v2) /\ CosineRow(v1, v2) # Raised
<1> DEFINE n == Len(v1)
           At(lv, i) == lv.child[lv.offsets[r] + i]
           f == [i \in 1 .. n |-> v1[i] * v2[i]]
           g == [i \in 1 .. n |-> v1[i] * v1[i]]
           h == [i \in 1 .. n |-> v2[i] * v2[i]]
<1>1. n \in Nat /\ \A i \in 1 .. n : v1[i] \in Int /\ v2[i] \in Int
  BY LenProperties, ElementOfSeq DEF RowHolds
<1>2. CosineRow(v1, v2) = <<Sum(f, n), Sum(g, n), Sum(h, n)>>
  BY DEF CosineRow, RowHolds
<1>3. f \in [1 .. n -> Int] /\ g \in [1 .. n -> Int] /\ h \in [1 .. n -> Int]
  BY <1>1
<1>4. CosineFunctor(lv1, lv2, r) =
        <<Sum([i \in 1 .. n |-> At(lv1, i) * At(lv2, i)], n),
          Sum([i \in 1 .. n |-> At(lv1, i) * At(lv1, i)], n),
          Sum([i \in 1 .. n |-> At(lv2, i) * At(lv2, i)], n)>>
  BY DEF CosineFunctor, RowHolds
<1>5. \A i \in 1 .. n : At(lv1, i) = v1[i] /\ At(lv2, i) = v2[i]
  BY DEF RowHolds
<1> HIDE DEF n, At
<1>6. /\ [i \in 1 .. n |-> At(lv1, i) * At(lv2, i)] = f
      /\ [i \in 1 .. n |-> At(lv1, i) * At(lv1, i)] = g
      /\ [i \in 1 .. n |-> At(lv2, i) * At(lv2, i)] = h
  BY <1>5
<1> HIDE DEF f, g, h
<1>7. Sum(f, n) \in Int /\ Sum(g, n) \in Int /\ Sum(h, n) \in Int
  BY <1>1, <1>3, SumType
<1>8. CosineRow(v1, v2) \in Int \X Int \X Int
  BY <1>2, <1>7
<1> QED
  BY <1>2, <1>4, <1>6, <1>8, RapidsUdfsAssumption

\* A row of two vectors, neither of them null, and no null in either.
LEMMA SameCosines ==
  ASSUME batch \in Batches, batch.udf = "cosine", ~Unlike
  PROVE  EvaluateRows = CosineSimilarity
<1> DEFINE c1 == Column(1)
           c2 == Column(2)
           lv1 == ListColumn(c1)
           lv2 == ListColumn(c2)
           F(r) == IF r \in lv1.valid \cap lv2.valid THEN CosineFunctor(lv1, lv2, r) ELSE Null
           Lists == Seq(Int \cup {Null}) \cup {Null}
<1>1. ASSUME NEW r \in Rows
      PROVE  /\ batch.rows[r][1] = c1[r] /\ batch.rows[r][2] = c2[r]
             /\ c1[r] \in Lists /\ c2[r] \in Lists /\ DOMAIN batch.rows[r] = {1, 2}
  <2>1. Arity(batch.udf) = 2 /\ Argument(batch.udf) = Seq(Int \cup {Null})
    BY DEF Arity, Argument
  <2>2. batch.rows[r] \in [1 .. 2 -> Lists]
    BY <2>1, BatchShape
  <2> QED
    BY <2>2 DEF Column
<1>2. ASSUME NEW r \in Rows
      PROVE  /\ c1[r] # Null => ~HasNullFloat(c1[r]) /\ c1[r] \in Seq(Int)
             /\ c2[r] # Null => ~HasNullFloat(c2[r]) /\ c2[r] \in Seq(Int)
  <2>1. /\ c1[r] # Null => ~HasNullFloat(c1[r])
        /\ c2[r] # Null => ~HasNullFloat(c2[r])
    BY <1>1 DEF Unlike
  <2>2. ASSUME NEW v \in Seq(Int \cup {Null}), ~HasNullFloat(v) PROVE v \in Seq(Int)
    <3>1. Len(v) \in Nat /\ v \in [1 .. Len(v) -> Int \cup {Null}]
      BY LenProperties
    <3>2. \A i \in 1 .. Len(v) : v[i] # Null
      BY <2>2, <3>1 DEF HasNullFloat
    <3>3. v \in [1 .. Len(v) -> Int]
      BY <3>1, <3>2
    <3> QED
      BY <3>1, <3>3, SeqDef
  <2> QED
    BY <1>1, <2>1, <2>2
<1> HIDE DEF c1, c2
<1>3. Holds(lv1, c1) /\ Holds(lv2, c2)
  BY <1>1, ListColumnHoldsLists
<1> HIDE DEF lv1, lv2
<1>4. /\ lv1.valid = {r \in Rows : c1[r] # Null} /\ lv2.valid = {r \in Rows : c2[r] # Null}
      /\ ~HasNullFloat(lv1.child) /\ ~HasNullFloat(lv2.child)
  BY <1>2, <1>3 DEF Holds
<1>5. ASSUME NEW r \in Rows, r \notin lv1.valid \cap lv2.valid
      PROVE  EvaluateRow(batch.rows[r]) = Null
  BY <1>1, <1>4, <1>5 DEF EvaluateRow
<1>6. ASSUME NEW r \in lv1.valid \cap lv2.valid
      PROVE  /\ EvaluateRow(batch.rows[r]) = CosineRow(c1[r], c2[r])
             /\ c1[r] \in Seq(Int) /\ c2[r] \in Seq(Int)
             /\ ~HasNullFloat(c1[r]) /\ ~HasNullFloat(c2[r])
             /\ Length(lv1, r) = Len(c1[r]) /\ Length(lv2, r) = Len(c2[r])
  <2>1. r \in Rows /\ c1[r] # Null /\ c2[r] # Null
    BY <1>4
  <2>2. ~\E i \in DOMAIN batch.rows[r] : batch.rows[r][i] = Null
    BY <1>1, <2>1
  <2>3. EvaluateRow(batch.rows[r]) = CosineRow(c1[r], c2[r])
    BY <1>1, <2>1, <2>2 DEF EvaluateRow
  <2>4. Length(lv1, r) = Len(c1[r]) /\ Length(lv2, r) = Len(c2[r])
    BY <1>3 DEF Holds
  <2> QED
    BY <1>2, <2>1, <2>3, <2>4
<1> HIDE DEF F
<1>7. CosineSimilarity = IF Rows = {} THEN <<>>
                         ELSE IF ~AreOffsetsEqual(lv1, lv2) THEN Raised
                         ELSE [r \in Rows |-> F(r)]
  BY <1>4 DEF CosineSimilarity, F, c1, c2, lv1, lv2
<1>8. CASE AreOffsetsEqual(lv1, lv2)
  <2>1. ASSUME NEW r \in Rows
        PROVE  EvaluateRow(batch.rows[r]) = F(r) /\ F(r) # Raised
    <3>1. CASE r \notin lv1.valid \cap lv2.valid
      BY <1>5, <3>1, RapidsUdfsAssumption DEF F
    <3>2. CASE r \in lv1.valid \cap lv2.valid
      <4>1. Len(c1[r]) = Len(c2[r])
        BY <1>6, <1>8, <3>2 DEF AreOffsetsEqual
      <4>2. \A i \in 1 .. Len(c1[r]) :
              lv1.child[lv1.offsets[r] + i] = c1[r][i] /\ lv2.child[lv2.offsets[r] + i] = c2[r][i]
        BY <1>3, <3>2, <4>1 DEF Holds
      <4>3. CosineFunctor(lv1, lv2, r) = CosineRow(c1[r], c2[r]) /\ CosineRow(c1[r], c2[r]) # Raised
        <5> DEFINE v1 == c1[r]
                   v2 == c2[r]
        <5>1. v1 \in Seq(Int) /\ v2 \in Seq(Int) /\ ~HasNullFloat(v1) /\ ~HasNullFloat(v2)
          BY <1>6, <3>2
        <5>2. Len(v1) = Len(v2) /\ Length(lv1, r) = Len(v1) /\ Length(lv2, r) = Len(v1)
          BY <1>6, <3>2, <4>1
        <5>3. \A i \in 1 .. Len(v1) :
                lv1.child[lv1.offsets[r] + i] = v1[i] /\ lv2.child[lv2.offsets[r] + i] = v2[i]
          BY <4>2
        <5> HIDE DEF v1, v2
        <5>4. RowHolds(lv1, lv2, r, v1, v2)
          BY <5>1, <5>2, <5>3 DEF RowHolds
        <5>5. CosineFunctor(lv1, lv2, r) = CosineRow(v1, v2) /\ CosineRow(v1, v2) # Raised
          BY <5>4, SameCosineOfRow
        <5> QED
          BY <5>5 DEF v1, v2
      <4> QED
        BY <1>6, <3>2, <4>3 DEF F
    <3> QED
      BY <3>1, <3>2
  <2>2. EvaluateRows = [r \in Rows |-> F(r)]
    BY <2>1 DEF EvaluateRows, Rows
  <2>3. Rows = {} => [r \in Rows |-> F(r)] = <<>>
    OBVIOUS
  <2> QED
    BY <1>7, <1>8, <2>2, <2>3
<1>9. CASE ~AreOffsetsEqual(lv1, lv2)
  <2>1. PICK r \in Rows :
          r \in lv1.valid /\ r \in lv2.valid /\ Length(lv1, r) # Length(lv2, r)
    BY <1>9 DEF AreOffsetsEqual
  <2>2. EvaluateRow(batch.rows[r]) = Raised
    BY <1>6, <2>1 DEF CosineRow
  <2>3. EvaluateRows = Raised
    BY <2>2 DEF EvaluateRows, Rows
  <2> QED
    BY <1>7, <1>9, <2>1, <2>3
<1> QED
  BY <1>8, <1>9

\* Both implementations of every UDF are one function, except of the inputs named Unlike.
LEMMA SameResults ==
  ASSUME batch \in Batches, ~Unlike
  PROVE  EvaluateRows = EvaluateColumnar
<1>1. batch.udf \in {"wordcount", "fraction", "urldecode", "cosine"}
  BY BatchShape
<1>2. CASE batch.udf = "wordcount"
  BY <1>2, SameWordCounts DEF EvaluateColumnar
<1>3. CASE batch.udf = "fraction"
  BY <1>3, SameFractions DEF EvaluateColumnar
<1>4. CASE batch.udf = "urldecode"
  BY <1>4, SameUrls DEF EvaluateColumnar
<1>5. CASE batch.udf = "cosine"
  BY <1>5, SameCosines DEF EvaluateColumnar
<1> QED
  BY <1>1, <1>2, <1>3, <1>4, <1>5

-----------------------------------------------------------------------------
(* The tasks.                                                               *)

\* A task ends with what one of the implementations makes of the batch.
Results == {EvaluateRows, EvaluateColumnar}
Evaluated ==
  /\ batch \in Batches /\ DOMAIN outcome = Task
  /\ \A t \in Task : pc[t] = "done" => outcome[t] \in Results

LEMMA SameBatchSameResults ==
  ASSUME UNCHANGED batch
  PROVE  EvaluateRows' = EvaluateRows /\ EvaluateColumnar' = EvaluateColumnar
BY DEF EvaluateRows, EvaluateRow, EvaluateColumnar, StringWordCount, DecimalFraction, UrlDecode,
       CosineSimilarity, CosineFunctor, AreOffsetsEqual, ListColumn, Column, Rows

LEMMA EvaluatedInit == Init => Evaluated
BY DEF Init, Evaluated

\* An ending is one of the two results, as the library is there by then.
LEMMA EvaluatedStep == LoaderInv /\ Evaluated /\ [Next]_vars => Evaluated'
<1> SUFFICES ASSUME LoaderInv, Evaluated, [Next]_vars PROVE Evaluated'
  OBVIOUS
<1> USE DEF Evaluated
<1>1. ASSUME UNCHANGED batch PROVE Results' = Results
  BY <1>1, SameBatchSameResults DEF Results
<1>2. DOMAIN pc = Task
  BY DEF LoaderInv, PcType
<1>3. ASSUME NEW t \in Task, NEW result \in Results, Ends(t, result) PROVE Evaluated'
  <2>1. batch' = batch /\ Results' = Results
    BY <1>1, <1>3 DEF Ends
  <2>2. DOMAIN outcome' = Task /\ \A u \in Task : outcome'[u] = IF u = t THEN result ELSE outcome[u]
    BY <1>3 DEF Ends
  <2>3. \A u \in Task \ {t} : pc'[u] = pc[u]
    BY <1>2, <1>3 DEF Ends
  <2> QED
    BY <2>1, <2>2, <2>3
<1>4. ASSUME NEW t \in Task, UNCHANGED <<batch, outcome>>,
             \E to : to # "done" /\ pc' = [pc EXCEPT ![t] = to]
      PROVE  Evaluated'
  <2>1. Results' = Results
    BY <1>1, <1>4
  <2>2. \A u \in Task : pc'[u] = "done" => pc[u] = "done"
    BY <1>2, <1>4
  <2> QED
    BY <1>4, <2>1, <2>2
<1>5. CASE UNCHANGED vars
  <2>1. Results' = Results
    BY <1>1, <1>5 DEF vars
  <2> QED
    BY <1>5, <2>1 DEF vars
<1>6. ASSUME NEW t \in Task, FallBack(t) \/ CallCudf(t) PROVE Evaluated'
  BY <1>3, <1>6 DEF FallBack, CallCudf, Results
<1>7. ASSUME NEW t \in Task, CallNative(t) PROVE Evaluated'
  <2>1. loads # 0
    BY <1>7 DEF CallNative, LoaderInv, CallersSawFlag, FlagFollowsLoad
  <2> QED
    BY <1>3, <1>7, <2>1 DEF CallNative, Results
<1>8. ASSUME NEW t \in Task, EnsureLoaded(t) PROVE Evaluated'
  BY <1>4, <1>8 DEF EnsureLoaded
<1>9. ASSUME NEW t \in Task, AlreadyLoaded(t) PROVE Evaluated'
  BY <1>4, <1>9 DEF AlreadyLoaded
<1>10. ASSUME NEW t \in Task, LoadNativeDeps(t) PROVE Evaluated'
  BY <1>4, <1>10 DEF LoadNativeDeps
<1>11. ASSUME NEW t \in Task, SetIsLoaded(t) PROVE Evaluated'
  BY <1>4, <1>11 DEF SetIsLoaded
<1>12. ASSUME NEW t \in Task, LoadFails(t) PROVE Evaluated'
  BY <1>4, <1>12 DEF LoadFails
<1>13. ASSUME NEW t \in Task, Retry(t) PROVE Evaluated'
  BY <1>4, <1>13 DEF Retry
<1> QED
  BY <1>5, <1>6, <1>7, <1>8, <1>9, <1>10, <1>11, <1>12, <1>13 DEF Next

\* Wherever Spark evaluates a batch, by evaluateRow and evaluate on the CPU or by
\* evaluateColumnar and the native methods, all tasks that end have the same rows, or have
\* all thrown, for every batch on which the two implementations are meant to agree.
THEOREM FallBackDoesNotShow == Spec => []FallBackIsInvisible
<1>1. Evaluated => FallBackIsInvisible
  <2> SUFFICES ASSUME Evaluated, ~Unlike, NEW s \in Task, NEW t \in Task,
                      pc[s] = "done", pc[t] = "done"
               PROVE  outcome[s] = outcome[t]
    BY DEF FallBackIsInvisible
  <2>1. EvaluateRows = EvaluateColumnar
    BY SameResults DEF Evaluated
  <2>2. outcome[s] \in Results /\ outcome[t] \in Results
    BY DEF Evaluated
  <2> QED
    BY <2>1, <2>2 DEF Results
<1> QED
  BY <1>1, LoaderInvInit, LoaderInvStep, EvaluatedInit, EvaluatedStep, PTL DEF Spec
=============================================================================
