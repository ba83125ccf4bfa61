------------------------ MODULE FloodProtectionProofs -------------------------
(***************************************************************************)
(* Flood protection.  For any windows, limits, keys and connections: what  *)
(* a rate window lets pass and refuses, and what becomes of the detectors  *)
(* of a connection.  For any sources, destinations and weights, with or    *)
(* without maintenance, and for crashes between any two steps: the store   *)
(* of the scores is whole, and every score stays within its bounds.        *)
(***************************************************************************)
EXTENDS FloodGuard, Reputation, TLAPS

-------------------------------------------------------------------------------
(* Rate windows (limits.go) *)

Entries(w) == [age : 0 .. Oldest(w), count : 1 .. Limit[w] + 1]
Histories == UNION {UNION {[1 .. n -> 0 .. m] : m \in Nat} : n \in Nat}
Pcs == {"off", "source", "second", "minute", "dial", "refused"}

\* How many of the events the entry has counted were let pass.
PassedBy(w, e) == IF e.count <= Limit[w] THEN e.count ELSE Limit[w]

\* A window w whose entry is e, whose last events had read their clocks g ago and passed f
\* ago.  Those of the window have passed since its start.  Of those that had read their clocks
\* within the window's length of now, all had done so less than that length after the start,
\* the ones of the windows before had done so before it, and none is of a window before the
\* last one.
WindowOK(w, e, g, f) ==
  /\ g \in [1 .. LookBack(w) -> 0 .. Long(w)]
  /\ f \in [1 .. Limit[w] -> 0 .. Oldest(w)]
  /\ e = Missing => \A i \in 1 .. LookBack(w) : g[i] = Long(w)
  /\ e # Missing =>
       /\ e \in Entries(w)
       /\ \A i \in 1 .. Limit[w] : i <= PassedBy(w, e) => f[i] <= e.age
       /\ \A i \in 1 .. LookBack(w) : g[i] <= Length[w] =>
            /\ g[i] > e.age - Length[w]
            /\ i > PassedBy(w, e) => g[i] > e.age
            /\ i <= PassedBy(w, e) + Limit[w]

WindowInv ==
  /\ entries \in [Windows -> [Names -> [age : Nat, count : Nat] \cup {Missing}]]
  /\ asked \in [Windows -> [Names -> Histories]]
  /\ passed \in [Windows -> [Names -> Histories]]
  /\ \A w \in Windows, k \in Names : WindowOK(w, entries[w][k], asked[w][k], passed[w][k])

\* A stream waits no longer than MaxDelay for the lock of a window.
WaitInv ==
  /\ stream \in [Conns -> [pc : Pcs, wait : 0 .. MaxDelay]]

\* What is torn down has no detector and starts no dial, unless it left one behind.
DetectorInv ==
  /\ state \in [Conns -> {"open", "closed", "gone"}]
  /\ left \in [Conns -> BOOLEAN] /\ per = [c \in Conns |-> per[c]]
  /\ \A c \in Conns : state[c] = "gone" /\ (per[c] # Missing \/ stream[c].pc # "off") => left[c]

FloodInv == WindowInv /\ WaitInv /\ DetectorInv

\* The constants of a window.
LEMMA WindowConstants ==
  ASSUME NEW w \in Windows
  PROVE  /\ Limit[w] \in Nat /\ Limit[w] >= 1 /\ Length[w] \in Nat /\ Length[w] >= 1
         /\ MaxDelay \in Nat
         /\ Oldest(w) = Length[w] + MaxDelay /\ Oldest(w) \in Nat
         /\ Long(w) = Length[w] + 1 /\ Long(w) \in Nat
         /\ LookBack(w) = 2 * Limit[w] + 1 /\ LookBack(w) \in Nat
BY FloodAssumption DEF Oldest, Long, LookBack

\* The new event comes first, and the others move on.
LEMMA PushedAges ==
  ASSUME NEW n \in Nat, NEW m \in Nat, NEW f \in [1 .. n -> 0 .. m], NEW a \in 0 .. m
  PROVE  /\ Pushed(f, a) \in [1 .. n -> 0 .. m]
         /\ \A i \in 1 .. n : \/ i = 1 /\ Pushed(f, a)[i] = a
                              \/ i > 1 /\ \E j \in 1 .. n : j = i - 1 /\ Pushed(f, a)[i] = f[j]
<1>1. /\ Pushed(f, a) \in [1 .. n -> 0 .. m]
      /\ \A i \in 1 .. n : Pushed(f, a)[i] = IF i = 1 THEN a ELSE f[i - 1]
  BY DEF Pushed
<1>2. \A i \in 1 .. n : i = 1 \/ (i > 1 /\ i - 1 \in 1 .. n)
  OBVIOUS
<1> QED BY <1>1, <1>2

\* An event that has waited so long enters the history of clocks as this age.
Since(w, wait) == IF wait < Long(w) THEN wait ELSE Long(w)

LEMMA PushedAsked ==
  ASSUME NEW w \in Windows, NEW wait \in 0 .. MaxDelay,
         NEW g \in [1 .. LookBack(w) -> 0 .. Long(w)]
  PROVE  /\ Pushed(g, Since(w, wait)) \in [1 .. LookBack(w) -> 0 .. Long(w)]
         /\ \A i \in 1 .. LookBack(w) :
              \/ i = 1 /\ Pushed(g, Since(w, wait))[i] = Since(w, wait)
              \/ i > 1 /\ \E j \in 1 .. LookBack(w) :
                            j = i - 1 /\ Pushed(g, Since(w, wait))[i] = g[j]
<1>1. PICK n \in Nat, m \in Nat : n = LookBack(w) /\ m = Long(w)
  BY WindowConstants
<1>2. Since(w, wait) \in 0 .. m
  BY <1>1, WindowConstants DEF Since
<1>3. PICK a \in 0 .. m : a = Since(w, wait)
  BY <1>2
<1>4. g \in [1 .. n -> 0 .. m]
  BY <1>1
<1>5. /\ Pushed(g, a) \in [1 .. n -> 0 .. m]
      /\ \A i \in 1 .. n : \/ i = 1 /\ Pushed(g, a)[i] = a
                           \/ i > 1 /\ \E j \in 1 .. n : j = i - 1 /\ Pushed(g, a)[i] = g[j]
  BY <1>4, PushedAges
<1> QED BY <1>1, <1>3, <1>5

LEMMA PushedPassed ==
  ASSUME NEW w \in Windows, NEW f \in [1 .. Limit[w] -> 0 .. Oldest(w)]
  PROVE  /\ Pushed(f, 0) \in [1 .. Limit[w] -> 0 .. Oldest(w)]
         /\ \A i \in 1 .. Limit[w] :
              \/ i = 1 /\ Pushed(f, 0)[i] = 0
              \/ i > 1 /\ \E j \in 1 .. Limit[w] : j = i - 1 /\ Pushed(f, 0)[i] = f[j]
<1>1. PICK n \in Nat, m \in Nat : n = Limit[w] /\ m = Oldest(w)
  BY WindowConstants
<1>2. 0 \in 0 .. m /\ f \in [1 .. n -> 0 .. m]
  BY <1>1
<1>3. /\ Pushed(f, 0) \in [1 .. n -> 0 .. m]
      /\ \A i \in 1 .. n : \/ i = 1 /\ Pushed(f, 0)[i] = 0
                           \/ i > 1 /\ \E j \in 1 .. n : j = i - 1 /\ Pushed(f, 0)[i] = f[j]
  BY <1>2, PushedAges
<1> QED BY <1>1, <1>3

\* An event that opens a window: it passes.  The last window has run out when it reads its
\* clock, so all before it had read theirs before, and those of the window before the last
\* one by more than a window's length.
LEMMA OpensWindow ==
  ASSUME NEW w \in Windows, NEW e, NEW g, NEW f, WindowOK(w, e, g, f),
         NEW wait \in 0 .. MaxDelay, e = Missing \/ Over(w, e, wait)
  PROVE  /\ Passes(w, Counted(w, e, wait))
         /\ WindowOK(w, Counted(w, e, wait), Pushed(g, Since(w, wait)), Pushed(f, 0))
<1> DEFINE e2 == [age |-> wait, count |-> 1]
<1>1. Counted(w, e, wait) = e2
  BY DEF Counted
<1>2. e2 \in Entries(w) /\ e2.age = wait /\ e2.count = 1 /\ PassedBy(w, e2) = 1 /\ e2 # Missing
  BY WindowConstants, FloodAssumption DEF Entries, PassedBy
<1> HIDE DEF e2
<1>3. /\ g \in [1 .. LookBack(w) -> 0 .. Long(w)] /\ f \in [1 .. Limit[w] -> 0 .. Oldest(w)]
  BY DEF WindowOK
<1> DEFINE g2 == Pushed(g, Since(w, wait))
           f2 == Pushed(f, 0)
<1>4. /\ g2 \in [1 .. LookBack(w) -> 0 .. Long(w)]
      /\ \A i \in 1 .. LookBack(w) :
           \/ i = 1 /\ g2[i] = Since(w, wait)
           \/ i > 1 /\ \E j \in 1 .. LookBack(w) : j = i - 1 /\ g2[i] = g[j]
  BY <1>3, PushedAsked
<1>4a. /\ f2 \in [1 .. Limit[w] -> 0 .. Oldest(w)]
       /\ \A i \in 1 .. Limit[w] :
            \/ i = 1 /\ f2[i] = 0
            \/ i > 1 /\ \E j \in 1 .. Limit[w] : j = i - 1 /\ f2[i] = f[j]
  BY <1>3, PushedPassed
<1> HIDE DEF g2, f2
<1>5. \A j \in 1 .. LookBack(w) : g[j] <= Length[w] => g[j] > wait /\ j <= Limit[w]
  <2> SUFFICES ASSUME NEW j \in 1 .. LookBack(w), g[j] <= Length[w]
               PROVE  g[j] > wait /\ j <= Limit[w]
    OBVIOUS
  <2>1. e # Missing
    BY WindowConstants DEF WindowOK
  <2>0. e \in Entries(w)
    BY <2>1 DEF WindowOK
  <2>2. /\ e.age \in Nat /\ e.age - wait >= Length[w]
        /\ PassedBy(w, e) \in Nat /\ PassedBy(w, e) <= Limit[w]
    BY <2>0, <2>1, WindowConstants DEF Entries, PassedBy, Over
  <2>3. g[j] > e.age - Length[w] /\ (j > PassedBy(w, e) => g[j] > e.age)
    BY <2>1 DEF WindowOK
  <2>4. g[j] \in 0 .. Long(w) /\ Limit[w] \in Nat /\ Length[w] \in Nat /\ wait \in Nat
    BY <1>3, WindowConstants
  <2>5. g[j] \in Nat /\ j \in Nat
    BY <2>4, WindowConstants
  <2>6. g[j] > wait
    BY <2>2, <2>3, <2>4, <2>5
  <2>7. ~(g[j] > e.age)
    BY <2>2, <2>4, <2>5
  <2>8. ~(j > PassedBy(w, e))
    BY <2>3, <2>7
  <2> QED BY <2>2, <2>4, <2>5, <2>6, <2>8
<1>6. ASSUME NEW i \in 1 .. LookBack(w), g2[i] <= Length[w]
      PROVE  g2[i] > wait - Length[w] /\ (i > 1 => g2[i] > wait) /\ i <= 1 + Limit[w]
  <2>1. wait \in Nat /\ Limit[w] \in Nat /\ i \in Nat /\ Length[w] \in Nat /\ Length[w] >= 1
    BY WindowConstants
  <2>2. CASE i = 1 /\ g2[i] = Since(w, wait)
    BY <1>6, <2>1, <2>2, WindowConstants DEF Since
  <2>3. ASSUME NEW j \in 1 .. LookBack(w), i > 1, j = i - 1, g2[i] = g[j]
        PROVE  g2[i] > wait - Length[w] /\ g2[i] > wait /\ i <= 1 + Limit[w]
    <3>1. g[j] <= Length[w]
      BY <1>6, <2>3
    <3>2. g[j] > wait /\ j <= Limit[w]
      BY <1>5, <3>1
    <3>3. g[j] \in 0 .. Long(w) /\ Long(w) \in Nat
      BY <1>3, WindowConstants
    <3> QED BY <2>1, <2>3, <3>2, <3>3
  <2> QED BY <1>4, <2>2, <2>3
<1>7. \A i \in 1 .. Limit[w] : i <= 1 => f2[i] <= wait
  BY <1>4a, WindowConstants
<1>8. WindowOK(w, e2, g2, f2)
  BY <1>2, <1>4, <1>4a, <1>6, <1>7 DEF WindowOK
<1>9. Passes(w, e2)
  BY <1>2, WindowConstants DEF Passes
<1> QED BY <1>1, <1>8, <1>9 DEF g2, f2

\* An event in a window that has not run out passes and is one more, or is refused, and
\* then the limit has been let pass since the start of the window.
LEMMA CountsInWindow ==
  ASSUME NEW w \in Windows, NEW e, NEW g, NEW f, WindowOK(w, e, g, f),
         NEW wait \in 0 .. MaxDelay, e # Missing, ~Over(w, e, wait)
  PROVE  LET e2 == Counted(w, e, wait) IN
         /\ Passes(w, e2) => WindowOK(w, e2, Pushed(g, Since(w, wait)), Pushed(f, 0))
         /\ ~Passes(w, e2) => WindowOK(w, e2, g, f) /\ f[Limit[w]] < Length[w] + wait
<1>0. e \in Entries(w)
  BY DEF WindowOK
<1>1. /\ e \in Entries(w) /\ e.age \in Nat /\ e.count \in Nat /\ e.count >= 1
      /\ e.age < Length[w] + wait
  BY <1>0, WindowConstants DEF Entries, Over
<1>2. PICK n \in Nat : n = IF e.count > Limit[w] THEN e.count ELSE e.count + 1
  BY <1>1
<1>3. PICK e2 \in Entries(w) : e2 = [e EXCEPT !.count = n]
  <2>1. e.count \in 1 .. Limit[w] + 1
    BY <1>1 DEF Entries
  <2>2. n \in 1 .. Limit[w] + 1
    BY <1>2, <2>1, WindowConstants
  <2> QED BY <1>1, <2>2 DEF Entries
<1>4. Counted(w, e, wait) = e2 /\ e2.age = e.age /\ e2.count = n /\ e2 # Missing
  BY <1>1, <1>2, <1>3, FloodAssumption, WindowConstants DEF Counted, Entries
<1>5. g \in [1 .. LookBack(w) -> 0 .. Long(w)] /\ f \in [1 .. Limit[w] -> 0 .. Oldest(w)]
  BY DEF WindowOK
<1>6. /\ \A i \in 1 .. Limit[w] : i <= PassedBy(w, e) => f[i] <= e.age
      /\ \A i \in 1 .. LookBack(w) : g[i] <= Length[w] =>
           /\ g[i] > e.age - Length[w]
           /\ i > PassedBy(w, e) => g[i] > e.age
           /\ i <= PassedBy(w, e) + Limit[w]
  BY DEF WindowOK
<1>7. /\ Limit[w] \in Nat /\ Limit[w] >= 1 /\ Length[w] \in Nat /\ wait \in Nat
      /\ PassedBy(w, e) \in Nat
  BY <1>1, WindowConstants DEF PassedBy
<1>8. CASE Passes(w, e2)
  <2>1. PassedBy(w, e2) = PassedBy(w, e) + 1
    BY <1>1, <1>2, <1>4, <1>7, <1>8 DEF Passes, PassedBy
  <2> DEFINE g2 == Pushed(g, Since(w, wait))
             f2 == Pushed(f, 0)
  <2>2. /\ g2 \in [1 .. LookBack(w) -> 0 .. Long(w)]
        /\ \A i \in 1 .. LookBack(w) :
             \/ i = 1 /\ g2[i] = Since(w, wait)
             \/ i > 1 /\ \E j \in 1 .. LookBack(w) : j = i - 1 /\ g2[i] = g[j]
    BY <1>5, PushedAsked
  <2>2a. /\ f2 \in [1 .. Limit[w] -> 0 .. Oldest(w)]
         /\ \A i \in 1 .. Limit[w] :
              \/ i = 1 /\ f2[i] = 0
              \/ i > 1 /\ \E j \in 1 .. Limit[w] : j = i - 1 /\ f2[i] = f[j]
    BY <1>5, PushedPassed
  <2> HIDE DEF g2, f2
  <2>3. ASSUME NEW i \in 1 .. LookBack(w), g2[i] <= Length[w]
        PROVE  /\ g2[i] > e.age - Length[w]
               /\ i > PassedBy(w, e) + 1 => g2[i] > e.age
               /\ i <= PassedBy(w, e) + 1 + Limit[w]
    <3>1. CASE i = 1 /\ g2[i] = Since(w, wait)
      BY <1>1, <1>7, <2>3, <3>1, WindowConstants DEF Since
    <3>2. ASSUME NEW j \in 1 .. LookBack(w), i > 1, j = i - 1, g2[i] = g[j]
          PROVE  /\ g2[i] > e.age - Length[w]
                 /\ i > PassedBy(w, e) + 1 => g2[i] > e.age
                 /\ i <= PassedBy(w, e) + 1 + Limit[w]
      <4>1. /\ g[j] > e.age - Length[w]
            /\ j > PassedBy(w, e) => g[j] > e.age
            /\ j <= PassedBy(w, e) + Limit[w]
        BY <1>6, <2>3, <3>2
      <4>2. /\ i > PassedBy(w, e) + 1 => j > PassedBy(w, e)
            /\ j <= PassedBy(w, e) + Limit[w] => i <= PassedBy(w, e) + 1 + Limit[w]
        BY <1>7, <3>2
      <4> QED BY <3>2, <4>1, <4>2
    <3> QED BY <2>2, <3>1, <3>2
  <2>4. ASSUME NEW i \in 1 .. Limit[w], i <= PassedBy(w, e) + 1
        PROVE  f2[i] <= e.age
    <3>1. CASE i = 1 /\ f2[i] = 0
      BY <1>1, <3>1
    <3>2. ASSUME NEW j \in 1 .. Limit[w], i > 1, j = i - 1, f2[i] = f[j]
          PROVE  f2[i] <= e.age
      <4>1. j <= PassedBy(w, e)
        BY <1>7, <2>4, <3>2
      <4> QED BY <1>6, <3>2, <4>1
    <3> QED BY <2>2a, <3>1, <3>2
  <2>5. WindowOK(w, e2, g2, f2)
    BY <1>4, <2>1, <2>2, <2>2a, <2>3, <2>4 DEF WindowOK
  <2> QED BY <1>4, <1>8, <2>5 DEF g2, f2
<1>9. CASE ~Passes(w, e2)
  <2>1. PassedBy(w, e) = Limit[w] /\ PassedBy(w, e2) = Limit[w]
    BY <1>1, <1>2, <1>4, <1>9, WindowConstants DEF Passes, PassedBy
  <2>2. WindowOK(w, e2, g, f)
    BY <1>4, <1>5, <1>6, <2>1 DEF WindowOK
  <2>3. f[Limit[w]] <= e.age /\ f[Limit[w]] \in Nat
    BY <1>5, <1>6, <1>7, <2>1, WindowConstants
  <2>4. f[Limit[w]] < Length[w] + wait
    BY <1>1, <1>7, <2>3
  <2> QED BY <1>4, <1>9, <2>2, <2>4
<1> QED BY <1>8, <1>9

\* Time passes for an entry and for its histories.
LEMMA WindowAges ==
  ASSUME NEW w \in Windows, NEW e, NEW g, NEW f, WindowOK(w, e, g, f)
  PROVE  WindowOK(w, IF e = Missing THEN Missing ELSE [e EXCEPT !.age = Elder(Oldest(w), @)],
                  [i \in 1 .. LookBack(w) |-> Elder(Long(w), g[i])],
                  [i \in 1 .. Limit[w] |-> Elder(Oldest(w), f[i])])
<1> DEFINE g2 == [i \in 1 .. LookBack(w) |-> Elder(Long(w), g[i])]
           f2 == [i \in 1 .. Limit[w] |-> Elder(Oldest(w), f[i])]
<1>1. /\ \A a \in 0 .. Long(w) : Elder(Long(w), a) = IF a < Long(w) THEN a + 1 ELSE a
      /\ \A a \in 0 .. Oldest(w) : Elder(Oldest(w), a) = IF a < Oldest(w) THEN a + 1 ELSE a
  BY DEF Elder
<1>2. g \in [1 .. LookBack(w) -> 0 .. Long(w)] /\ f \in [1 .. Limit[w] -> 0 .. Oldest(w)]
  BY DEF WindowOK
<1>3. /\ \A a \in 0 .. Long(w) : Elder(Long(w), a) \in 0 .. Long(w)
      /\ \A a \in 0 .. Oldest(w) : Elder(Oldest(w), a) \in 0 .. Oldest(w)
  BY <1>1, WindowConstants
<1>4. /\ g2 \in [1 .. LookBack(w) -> 0 .. Long(w)]
      /\ \A i \in 1 .. LookBack(w) : g2[i] = Elder(Long(w), g[i])
      /\ f2 \in [1 .. Limit[w] -> 0 .. Oldest(w)]
      /\ \A i \in 1 .. Limit[w] : f2[i] = Elder(Oldest(w), f[i])
  BY <1>2, <1>3
<1> HIDE DEF g2, f2
<1>5. CASE e = Missing
  <2>1. \A i \in 1 .. LookBack(w) : g2[i] = Long(w)
    BY <1>4, <1>5, WindowConstants DEF WindowOK, Elder
  <2>2. WindowOK(w, Missing, g2, f2)
    BY <1>4, <2>1 DEF WindowOK
  <2> QED BY <1>5, <2>2 DEF g2, f2
<1>6. CASE e # Missing
  <2>1. e \in Entries(w)
    BY <1>6 DEF WindowOK
  <2>2. PICK a \in 0 .. Oldest(w) : a = Elder(Oldest(w), e.age)
    BY <1>3, <2>1 DEF Entries
  <2>3. PICK e2 \in Entries(w) : e2 = [e EXCEPT !.age = a]
    BY <2>1 DEF Entries
  <2>4. e2.age = a /\ e2.count = e.count /\ e2 # Missing /\ PassedBy(w, e2) = PassedBy(w, e)
    BY <2>1, <2>3, FloodAssumption, WindowConstants DEF Entries, PassedBy
  <2>5. e.age \in 0 .. Oldest(w) /\ a = IF e.age < Oldest(w) THEN e.age + 1 ELSE e.age
    BY <1>1, <2>1, <2>2 DEF Entries
  <2>6. ASSUME NEW i \in 1 .. LookBack(w), g2[i] <= Length[w]
        PROVE  /\ g2[i] > a - Length[w]
               /\ i > PassedBy(w, e) => g2[i] > a
               /\ i <= PassedBy(w, e) + Limit[w]
    <3>1. g[i] \in 0 .. Long(w) /\ g2[i] = IF g[i] < Long(w) THEN g[i] + 1 ELSE g[i]
      BY <1>1, <1>2, <1>4
    <3>2. g[i] <= Length[w] /\ g2[i] = g[i] + 1 /\ a <= e.age + 1
      BY <2>5, <2>6, <3>1, WindowConstants
    <3>3. /\ g[i] > e.age - Length[w]
          /\ i > PassedBy(w, e) => g[i] > e.age
          /\ i <= PassedBy(w, e) + Limit[w]
      BY <1>6, <3>2 DEF WindowOK
    <3>4. g[i] \in Nat /\ a \in Nat /\ e.age \in Nat /\ Length[w] \in Nat
      BY <2>5, <3>1, WindowConstants
    <3> QED BY <3>2, <3>3, <3>4
  <2>7. ASSUME NEW i \in 1 .. Limit[w], i <= PassedBy(w, e)
        PROVE  f2[i] <= a
    <3>1. f[i] <= e.age /\ f[i] \in 0 .. Oldest(w)
      BY <1>2, <1>6, <2>7 DEF WindowOK
    <3>2. f2[i] = IF f[i] < Oldest(w) THEN f[i] + 1 ELSE f[i]
      BY <1>1, <1>4, <3>1
    <3> QED BY <2>5, <3>1, <3>2, WindowConstants
  <2>8. WindowOK(w, e2, g2, f2)
    BY <1>4, <2>3, <2>4, <2>6, <2>7 DEF WindowOK
  <2> QED BY <1>6, <2>2, <2>3, <2>8 DEF g2, f2
<1> QED BY <1>5, <1>6

-------------------------------------------------------------------------------
(* Steps of FloodGuard *)

LEMMA HistoryType ==
  ASSUME NEW n \in Nat, NEW m \in Nat, NEW h \in [1 .. n -> 0 .. m]
  PROVE  h \in Histories
<1> DEFINE Of(k, l) == [1 .. k -> 0 .. l]
<1> SUFFICES h \in UNION {UNION {Of(k, l) : l \in Nat} : k \in Nat}
  BY DEF Histories
<1>1. h \in Of(n, m)
  OBVIOUS
<1> HIDE DEF Of
<1>2. h \in UNION {Of(n, l) : l \in Nat}
  BY <1>1
<1> QED BY <1>2

LEMMA WindowTypes ==
  ASSUME NEW w \in Windows, NEW e, NEW g, NEW f, WindowOK(w, e, g, f)
  PROVE  e \in [age : Nat, count : Nat] \cup {Missing} /\ g \in Histories /\ f \in Histories
<1>1. e \in [age : Nat, count : Nat] \cup {Missing}
  BY WindowConstants DEF WindowOK, Entries
<1>2. PICK n \in Nat, m \in Nat : n = LookBack(w) /\ m = Long(w)
  BY WindowConstants
<1>3. PICK l \in Nat, o \in Nat : l = Limit[w] /\ o = Oldest(w)
  BY WindowConstants
<1>4. g \in [1 .. n -> 0 .. m]
  BY <1>2 DEF WindowOK
<1>5. g \in Histories
  BY <1>4, HistoryType
<1>6. f \in [1 .. l -> 0 .. o]
  BY <1>3 DEF WindowOK
<1>7. f \in Histories
  BY <1>6, HistoryType
<1> QED BY <1>1, <1>5, <1>7

\* One window changes for one key.
LEMMA OneWindow ==
  ASSUME WindowInv, NEW w \in Windows, NEW k \in Names, NEW e, NEW g, NEW f,
         WindowOK(w, e, g, f),
         entries' = [entries EXCEPT ![w][k] = e],
         asked' = [asked EXCEPT ![w][k] = g], passed' = [passed EXCEPT ![w][k] = f]
  PROVE  WindowInv'
<1>1. e \in [age : Nat, count : Nat] \cup {Missing} /\ g \in Histories /\ f \in Histories
  BY WindowTypes
<1>2. entries' \in [Windows -> [Names -> [age : Nat, count : Nat] \cup {Missing}]]
  BY <1>1 DEF WindowInv
<1>3. asked' \in [Windows -> [Names -> Histories]] /\ passed' \in [Windows -> [Names -> Histories]]
  BY <1>1 DEF WindowInv
<1>4. ASSUME NEW v \in Windows, NEW l \in Names
      PROVE  WindowOK(v, entries'[v][l], asked'[v][l], passed'[v][l])
  <2>1. CASE v = w /\ l = k
    <3>1. entries'[v][l] = e /\ asked'[v][l] = g /\ passed'[v][l] = f
      BY <2>1 DEF WindowInv
    <3> QED BY <2>1, <3>1
  <2>2. CASE ~(v = w /\ l = k)
    <3>1. /\ entries'[v][l] = entries[v][l] /\ asked'[v][l] = asked[v][l]
          /\ passed'[v][l] = passed[v][l]
      BY <2>2 DEF WindowInv
    <3>2. WindowOK(v, entries[v][l], asked[v][l], passed[v][l])
      BY DEF WindowInv
    <3> QED BY <3>1, <3>2
  <2> QED BY <2>1, <2>2
<1> QED BY <1>2, <1>3, <1>4 DEF WindowInv

\* A stream moves on, of a connection that keeps its state and detector.
LEMMA OneMoves ==
  ASSUME WaitInv, DetectorInv, NEW c \in Conns, NEW at \in Pcs,
         stream[c].pc # "off" \/ state[c] # "gone",
         stream' = [stream EXCEPT ![c] = At(at)], UNCHANGED <<state, per, left>>
  PROVE  WaitInv' /\ DetectorInv'
<1>1. At(at) \in [pc : Pcs, wait : 0 .. MaxDelay] /\ At(at).pc = at
  BY FloodAssumption DEF At
<1>2. WaitInv'
  BY <1>1 DEF WaitInv
<1>3. \A d \in Conns : d # c => stream'[d] = stream[d]
  BY DEF WaitInv
<1> QED BY <1>2, <1>3 DEF DetectorInv

\* Only what a step does to a stream at a window can refuse it.
Refusal(c) ==
  LET w == stream[c].pc
      k == IF w = "source" THEN Source[c] ELSE Dest IN
  w \in Windows /\ stream'[c].pc = "refused" =>
    passed[w][k][Limit[w]] < Length[w] + stream[c].wait

\* Allow counts the event, and refuses it only if the limit has been let pass.
LEMMA AllowStep ==
  ASSUME FloodInv, NEW c \in Conns, NEW w, NEW k \in Names, NEW yes \in Pcs, NEW no \in Pcs,
         yes # no, stream[c].pc # "off", Allow(c, w, k, yes, no)
  PROVE  /\ FloodInv'
         /\ stream'[c].pc = no =>
              w \in Windows /\ passed[w][k][Limit[w]] < Length[w] + stream[c].wait
<1>1. stream \in [Conns -> [pc : Pcs, wait : 0 .. MaxDelay]] /\ stream[c].wait \in 0 .. MaxDelay
  BY DEF FloodInv, WaitInv
<1>2. \A x : At(x).pc = x
  BY DEF At
<1>3. UNCHANGED <<state, per, left>>
  BY DEF Allow, conns
<1>4. ASSUME w \in Windows,
             LET e == Counted(w, entries[w][k], stream[c].wait) IN
             /\ entries' = [entries EXCEPT ![w][k] = e]
             /\ stream' = [stream EXCEPT ![c] = At(IF Passes(w, e) THEN yes ELSE no)]
             /\ IF Passes(w, e) THEN Recorded(w, k, stream[c].wait) ELSE UNCHANGED histories
      PROVE  /\ FloodInv'
             /\ stream'[c].pc = no => passed[w][k][Limit[w]] < Length[w] + stream[c].wait
  <2>1. PICK e0 : e0 = entries[w][k]
    OBVIOUS
  <2>2. PICK g, f : g = asked[w][k] /\ f = passed[w][k]
    OBVIOUS
  <2>3. PICK e : e = Counted(w, e0, stream[c].wait)
    OBVIOUS
  <2>4. WindowOK(w, e0, g, f)
    BY <1>4, <2>1, <2>2 DEF FloodInv, WindowInv
  <2>5. entries' = [entries EXCEPT ![w][k] = e]
    BY <1>4, <2>1, <2>3
  <2>6. CASE Passes(w, e)
    <3>1. WindowOK(w, e, Pushed(g, Since(w, stream[c].wait)), Pushed(f, 0))
      BY <1>1, <1>4, <2>3, <2>4, <2>6, OpensWindow, CountsInWindow
    <3>2. Recorded(w, k, stream[c].wait)
      BY <1>4, <2>1, <2>3, <2>6
    <3>3. /\ asked' = [asked EXCEPT ![w][k] = Pushed(g, Since(w, stream[c].wait))]
          /\ passed' = [passed EXCEPT ![w][k] = Pushed(f, 0)]
      BY <2>2, <3>2 DEF Recorded, Since
    <3>4. WindowInv'
      BY <1>4, <2>5, <3>1, <3>3, OneWindow DEF FloodInv
    <3>5. stream' = [stream EXCEPT ![c] = At(yes)]
      BY <1>4, <2>1, <2>3, <2>6
    <3>6. stream'[c].pc = yes
      BY <1>1, <1>2, <3>5
    <3> QED BY <1>3, <3>4, <3>5, <3>6, OneMoves DEF FloodInv
  <2>7. CASE ~Passes(w, e)
    <3>1. WindowOK(w, e, g, f) /\ f[Limit[w]] < Length[w] + stream[c].wait
      BY <1>1, <1>4, <2>3, <2>4, <2>7, OpensWindow, CountsInWindow
    <3>2. asked' = [asked EXCEPT ![w][k] = g] /\ passed' = [passed EXCEPT ![w][k] = f]
      BY <1>4, <2>1, <2>2, <2>3, <2>7 DEF FloodInv, WindowInv, histories
    <3>3. WindowInv'
      BY <1>4, <2>5, <3>1, <3>2, OneWindow DEF FloodInv
    <3>4. stream' = [stream EXCEPT ![c] = At(no)]
      BY <1>4, <2>1, <2>3, <2>7
    <3> QED BY <1>3, <2>2, <3>1, <3>3, <3>4, OneMoves DEF FloodInv
  <2> QED BY <2>6, <2>7
<1>5. CASE /\ w \notin Windows
           /\ stream' = [stream EXCEPT ![c] = At(yes)]
           /\ UNCHANGED <<entries, conns, per, histories, left>>
  <2>1. WindowInv'
    BY <1>5 DEF FloodInv, WindowInv, histories
  <2>2. stream'[c].pc = yes
    BY <1>1, <1>2, <1>5
  <2> QED BY <1>3, <1>5, <2>1, <2>2, OneMoves DEF FloodInv
<1> QED BY <1>4, <1>5 DEF Allow

\* Steps of a connection that touch no window.
LEMMA NoWindow == ASSUME WindowInv, UNCHANGED <<entries, histories>> PROVE WindowInv'
BY DEF WindowInv, histories

\* What connection c does keeps the invariant, and refuses nobody for nothing.
LEMMA ConnStep ==
  ASSUME FloodInv, NEW c \in Conns, Step(c)
  PROVE  FloodInv' /\ \A d \in Conns : Refusal(d)
<1>1. stream \in [Conns -> [pc : Pcs, wait : 0 .. MaxDelay]]
  BY DEF FloodInv, WaitInv
<1>2. \A x : At(x).pc = x
  BY DEF At
<1>3. /\ "off" \in Pcs /\ "source" \in Pcs /\ "second" \in Pcs /\ "minute" \in Pcs
      /\ "dial" \in Pcs /\ "refused" \in Pcs
      /\ Source[c] \in Names /\ Dest \in Names
  BY DEF Pcs, Names
<1>4. \A d \in Conns : d # c => stream'[d] = stream[d]
  BY <1>1 DEF Step, ConnectPacket, PerSource, PerDestSec, PerDestMin, Refused, Dialled,
              TearDown, Allow
<1>5. \A d \in Conns : d # c => Refusal(d)
  BY <1>4, FloodAssumption DEF Refusal
<1>6. CASE ConnectPacket(c)
  <2>1. stream'[c].pc = "source"
    BY <1>1, <1>2, <1>6 DEF ConnectPacket
  <2>2. FloodInv'
    BY <1>3, <1>6, NoWindow, OneMoves DEF ConnectPacket, FloodInv, conns
  <2> QED BY <1>5, <2>1, <2>2 DEF Refusal
<1>7. CASE PerSource(c)
  BY <1>3, <1>5, <1>7, AllowStep DEF PerSource, Refusal
<1>8. CASE PerDestSec(c)
  BY <1>3, <1>5, <1>8, AllowStep DEF PerDestSec, Refusal
<1>9. CASE PerDestMin(c)
  BY <1>3, <1>5, <1>9, AllowStep DEF PerDestMin, Refusal
<1>10. CASE Refused(c)
  <2>1. stream'[c].pc = "off" /\ At("off") \in [pc : Pcs, wait : 0 .. MaxDelay]
    BY <1>1, <1>2, <1>3, <1>10, FloodAssumption DEF Refused, At
  <2>2. WindowInv'
    BY <1>10, NoWindow DEF Refused, FloodInv
  <2>3. WaitInv'
    BY <1>1, <1>10, <2>1 DEF Refused, WaitInv
  <2>4. DetectorInv'
    BY <1>4, <1>10, <2>1 DEF Refused, FloodInv, DetectorInv, Shut
  <2> QED BY <1>5, <2>1, <2>2, <2>3, <2>4 DEF Refusal, FloodInv
<1>11. ASSUME NEW ok \in BOOLEAN, Dialled(c, ok)
       PROVE  FloodInv' /\ \A d \in Conns : Refusal(d)
  <2>1. stream'[c].pc = "off" /\ At("off") \in [pc : Pcs, wait : 0 .. MaxDelay]
    BY <1>1, <1>2, <1>3, <1>11, FloodAssumption DEF Dialled, At
  <2>2. WindowInv'
    BY <1>11, NoWindow DEF Dialled, FloodInv
  <2>3. WaitInv'
    BY <1>1, <1>11, <2>1 DEF Dialled, WaitInv
  <2>4. PICK r : per' = [per EXCEPT ![c] = r]
    BY <1>11 DEF Dialled
  <2>5. PICK closes \in BOOLEAN : state' = [state EXCEPT ![c] = IF closes THEN Shut(c) ELSE @]
    BY <1>11 DEF Dialled
  <2>6. stream[c].pc = "dial" /\ UNCHANGED left
    BY <1>11 DEF Dialled
  <2>7. DetectorInv'
    BY <1>4, <2>1, <2>4, <2>5, <2>6 DEF FloodInv, DetectorInv, Shut
  <2> QED BY <1>5, <2>1, <2>2, <2>3, <2>7 DEF Refusal, FloodInv
<1>12. CASE TearDown(c)
  <2>1. WindowInv' /\ WaitInv'
    BY <1>12, NoWindow DEF TearDown, FloodInv, WaitInv
  <2>2. DetectorInv'
    BY <1>12 DEF TearDown, ForgetAll, FloodInv, DetectorInv
  <2>3. Refusal(c)
    BY <1>12, FloodAssumption DEF TearDown, Refusal
  <2> QED BY <1>5, <2>1, <2>2, <2>3 DEF FloodInv
<1> QED BY <1>6, <1>7, <1>8, <1>9, <1>10, <1>11, <1>12 DEF Step

\* Time passes for everybody.
LEMMA TimeStep ==
  ASSUME FloodInv, FloodTick
  PROVE  FloodInv' /\ \A d \in Conns : Refusal(d)
<1>1. \A c \in Conns : /\ stream'[c] \in [pc : Pcs, wait : 0 .. MaxDelay]
                       /\ stream'[c].pc = stream[c].pc
  <2> TAKE c \in Conns
  <2>1. stream[c] \in [pc : Pcs, wait : 0 .. MaxDelay]
    BY DEF FloodInv, WaitInv
  <2>2. CASE stream[c].pc \in Windows
    <3>1. PICK n \in 0 .. MaxDelay : n = stream[c].wait + 1
      BY <2>1, <2>2, FloodAssumption DEF FloodTick
    <3>2. stream'[c] = [stream[c] EXCEPT !.wait = n]
      BY <2>2, <3>1 DEF FloodTick
    <3> QED BY <2>1, <3>2
  <2>3. CASE stream[c].pc \notin Windows
    BY <2>1, <2>3 DEF FloodTick
  <2> QED BY <2>2, <2>3
<1>2. WaitInv'
  BY <1>1 DEF WaitInv, FloodTick
<1>3. DetectorInv'
  BY <1>1 DEF FloodInv, DetectorInv, FloodTick, conns
<1>4. ASSUME NEW w \in Windows, NEW k \in Names
      PROVE  /\ WindowOK(w, entries'[w][k], asked'[w][k], passed'[w][k])
             /\ entries'[w][k] \in [age : Nat, count : Nat] \cup {Missing}
             /\ asked'[w][k] \in Histories /\ passed'[w][k] \in Histories
  <2>1. PICK e : e = IF entries[w][k] = Missing THEN Missing
                     ELSE [entries[w][k] EXCEPT !.age = Elder(Oldest(w), @)]
    OBVIOUS
  <2>2. PICK g, f : /\ g = [i \in 1 .. LookBack(w) |-> Elder(Long(w), asked[w][k][i])]
                    /\ f = [i \in 1 .. Limit[w] |-> Elder(Oldest(w), passed[w][k][i])]
    OBVIOUS
  <2>3. entries'[w][k] = e /\ asked'[w][k] = g /\ passed'[w][k] = f
    BY <2>1, <2>2 DEF FloodTick
  <2>0. WindowOK(w, entries[w][k], asked[w][k], passed[w][k])
    BY DEF FloodInv, WindowInv
  <2>4. WindowOK(w, e, g, f)
    BY <2>0, <2>1, <2>2, WindowAges
  <2> QED BY <2>3, <2>4, WindowTypes
<1>5. WindowInv'
  BY <1>4 DEF WindowInv, FloodTick
<1>6. \A d \in Conns : Refusal(d)
  BY <1>1, FloodAssumption DEF Refusal
<1> QED BY <1>2, <1>3, <1>5, <1>6 DEF FloodInv

LEMMA FloodInitInv == FloodInit => FloodInv
<1> SUFFICES ASSUME FloodInit PROVE FloodInv
  OBVIOUS
<1>1. At("off") \in [pc : Pcs, wait : 0 .. MaxDelay] /\ At("off").pc = "off"
  BY FloodAssumption DEF At, Pcs
<1>2. ASSUME NEW w \in Windows, NEW k \in Names
      PROVE  /\ WindowOK(w, entries[w][k], asked[w][k], passed[w][k])
             /\ entries[w][k] \in [age : Nat, count : Nat] \cup {Missing}
             /\ asked[w][k] \in Histories /\ passed[w][k] \in Histories
  <2>1. /\ entries[w][k] = Missing
        /\ asked[w][k] = [i \in 1 .. LookBack(w) |-> Long(w)]
        /\ passed[w][k] = [i \in 1 .. Limit[w] |-> Oldest(w)]
    BY DEF FloodInit
  <2>2. /\ asked[w][k] \in [1 .. LookBack(w) -> 0 .. Long(w)]
        /\ \A i \in 1 .. LookBack(w) : asked[w][k][i] = Long(w)
        /\ passed[w][k] \in [1 .. Limit[w] -> 0 .. Oldest(w)]
    BY <2>1, WindowConstants
  <2>3. WindowOK(w, Missing, asked[w][k], passed[w][k])
    BY <2>2 DEF WindowOK
  <2> QED BY <2>1, <2>3, WindowTypes
<1>3. WindowInv
  BY <1>2 DEF WindowInv, FloodInit
<1>4. WaitInv /\ DetectorInv
  BY <1>1 DEF WaitInv, DetectorInv, FloodInit
<1> QED BY <1>3, <1>4 DEF FloodInv

LEMMA FloodNextInv ==
  ASSUME FloodInv, [FloodNext]_floodVars
  PROVE  FloodInv' /\ (FloodNext => \A d \in Conns : Refusal(d))
<1>1. CASE UNCHANGED floodVars /\ ~FloodNext
  BY <1>1 DEF floodVars, conns, histories, FloodInv, WindowInv, WaitInv, DetectorInv
<1> QED BY <1>1, ConnStep, TimeStep DEF FloodNext

LEMMA FloodAlways == FloodSpec => []FloodInv
BY FloodInitInv, FloodNextInv, PTL DEF FloodSpec

-------------------------------------------------------------------------------
\* However often and whenever they are asked, and however late they get the lock: of twice the
\* limit and one more events that a window lets pass, the first had read its clock more than the
\* window's length before the last one passes (limits.go: Allow).
THEOREM TwiceTheLimit == FloodSpec => []RateBound
<1>1. FloodInv => RateBound
  <2> SUFFICES ASSUME FloodInv, NEW w \in Windows, NEW k \in Names
               PROVE  asked[w][k][2 * Limit[w] + 1] > Length[w]
    BY DEF RateBound
  <2>1. PICK e, g, f : e = entries[w][k] /\ g = asked[w][k] /\ f = passed[w][k]
    OBVIOUS
  <2>2. WindowOK(w, e, g, f)
    BY <2>1 DEF FloodInv, WindowInv
  <2>3. PICK i \in 1 .. LookBack(w) : i = 2 * Limit[w] + 1
    BY WindowConstants
  <2>4. CASE e = Missing
    <3>1. g[i] = Long(w)
      BY <2>2, <2>4 DEF WindowOK
    <3> QED BY <2>1, <2>3, <3>1, WindowConstants
  <2>5. CASE e # Missing
    <3>1. PassedBy(w, e) \in Nat /\ PassedBy(w, e) <= Limit[w]
      BY <2>2, <2>5, WindowConstants DEF WindowOK, Entries, PassedBy
    <3>2. ~(i <= PassedBy(w, e) + Limit[w])
      BY <2>3, <3>1, WindowConstants
    <3>3. ~(g[i] <= Length[w])
      BY <2>2, <2>5, <3>2 DEF WindowOK
    <3>4. g[i] \in Nat
      BY <2>2, WindowConstants DEF WindowOK
    <3> QED BY <2>1, <2>3, <3>3, <3>4, WindowConstants
  <2> QED BY <2>1, <2>4, <2>5
<1> QED BY <1>1, FloodAlways, PTL

\* Nobody is refused by a window unless the limit was let pass within its length and the time
\* he himself waited for the lock (wisp-connection.go: handleConnectPacket, wisp-stream.go: handleConnect).
THEOREM RefusedForCause == FloodSpec => NoFalseThrottle
<1>1. ASSUME FloodInv, [FloodNext]_floodVars
      PROVE  [\A c \in Conns : stream[c].pc \in Windows /\ stream'[c].pc = "refused" =>
                LET w == stream[c].pc
                    k == IF w = "source" THEN Source[c] ELSE Dest IN
                passed[w][k][Limit[w]] < Length[w] + stream[c].wait]_floodVars
  BY <1>1, FloodNextInv DEF Refusal
<1> QED BY <1>1, FloodAlways, PTL DEF FloodSpec, NoFalseThrottle

\* A connection that is gone leaves no detector behind, but for a dial that was under way
\* (signature.go: Forget, wisp-connection.go: deleteAllWispStreams).
THEOREM DetectorsGo == FloodSpec => []DetectorsForgotten
<1>1. FloodInv => DetectorsForgotten
  BY DEF FloodInv, DetectorInv, DetectorsForgotten
<1> QED BY <1>1, FloodAlways, PTL

-------------------------------------------------------------------------------
(* Scores (reputation.go) *)

Entry == [score : 0 .. Top, idle : Nat, seen : SUBSET Sources]

\* What a save has in hand is whole from MarshalIndent until the rename.
SaveInv ==
  /\ tmp \in {None, Torn} \cup Snapshots
  /\ pc = "write" => snap \in Snapshots
  /\ pc = "rename" => tmp \in Snapshots

ScoreInv ==
  /\ scores \in Snapshots /\ elapsed \in Nat
  /\ StoreWhole /\ SaveInv

-------------------------------------------------------------------------------
\* Clamping brings any whole number into the bounds of a score.
LEMMA Clamped == ASSUME NEW v \in Int PROVE clampScore(v) \in 0 .. Top
BY ReputationAssumption DEF clampScore

\* No entries are a snapshot.
LEMMA NoEntriesSnapshot == NoEntries \in Snapshots
BY DEF NoEntries, Snapshots

\* The entry an event adds to, a new one included.
LEMMA FreshEntry ==
  ASSUME scores \in Snapshots, NEW k \in Keys
  PROVE  Fresh(k) \in Entry
BY ReputationAssumption DEF Fresh, Snapshots, Entry

\* A snapshot with one entry put in its place is a snapshot.
LEMMA PutSnapshot ==
  ASSUME NEW m \in Snapshots, NEW k \in Keys, NEW e \in Entry
  PROVE  [m EXCEPT ![k] = e] \in Snapshots
BY DEF Snapshots, Entry

\* Time makes entries older, and leaves a snapshot one, in memory and on disk.
LEMMA AgedSnapshot ==
  ASSUME NEW m \in Snapshots
  PROVE  Aged(m) \in Snapshots
<1>1. ASSUME NEW k \in Keys
      PROVE  Older(m[k]) \in {None} \cup Entry
  <2>1. m[k] \in {None} \cup Entry
    BY <1>1 DEF Snapshots, Entry
  <2>2. CASE m[k] = None \/ m[k].idle > EvictAfter
    BY <2>1, <2>2 DEF Older
  <2>3. CASE m[k] # None /\ ~(m[k].idle > EvictAfter)
    <3>1. PICK e \in Entry : m[k] = e
      BY <2>1, <2>3
    <3>2. [e EXCEPT !.idle = e.idle + 1] \in Entry
      BY DEF Entry
    <3>3. Older(m[k]) = [e EXCEPT !.idle = e.idle + 1]
      BY <2>3, <3>1 DEF Older
    <3> QED BY <3>2, <3>3
  <2> QED BY <2>2, <2>3
<1> HIDE DEF Older
<1> QED BY <1>1 DEF Aged, Snapshots, Entry

-------------------------------------------------------------------------------
\* The invariant holds at the start: nothing has happened and nothing is saved.
LEMMA ScoreInitInv == Init => ScoreInv
BY NoEntriesSnapshot DEF Init, ScoreInv, StoreWhole, SaveInv

\* Events keep scores within their bounds.
LEMMA EventKeeps ==
  ASSUME ScoreInv, NEW k \in Keys, Event(k)
  PROVE  scores' \in Snapshots /\ UNCHANGED <<disk, snap, elapsed, loop>>
<1>0. Fresh(k) \in Entry /\ scores \in Snapshots
  BY FreshEntry DEF ScoreInv
<1>1. PICK f \in Entry : f = Fresh(k)
  BY <1>0
<1>2. ASSUME NEW v \in Int
      PROVE  clampScore(v) \in 0 .. Top /\ clampScore(v) \in Int
  BY <1>2, Clamped, ReputationAssumption
<1>3. f.score \in Int /\ f.score + Weight \in Int /\ f.seen \subseteq Sources
  BY ReputationAssumption DEF Entry
<1>4. CASE k \in Sources /\ AddSource(k)
  <2>1. PICK c \in 0 .. Top : c = clampScore(f.score + Weight)
    BY <1>2, <1>3
  <2>2. PICK e \in Entry : e = [f EXCEPT !.score = c, !.idle = 0]
    BY DEF Entry
  <2>3. scores' = [scores EXCEPT ![k] = e]
    BY <1>1, <1>4, <2>1, <2>2 DEF AddSource
  <2>4. scores' \in Snapshots
    BY <1>0, <2>3, PutSnapshot
  <2> QED BY <1>4, <2>4 DEF AddSource
<1>5. ASSUME NEW s \in Sources, k \in Dests, AddDest(k, s)
      PROVE  scores' \in Snapshots /\ UNCHANGED <<disk, snap, elapsed, loop>>
  <2>1. PICK b \in 0 .. Top : b = clampScore(f.score + Weight)
    BY <1>2, <1>3
  <2>2. b + Escalation \in Int
    BY ReputationAssumption
  <2>3. PICK c \in 0 .. Top : c = IF s \in f.seen THEN b ELSE clampScore(b + Escalation)
    BY <1>2, <2>2
  <2>4. PICK e \in Entry : e = [score |-> c, idle |-> 0, seen |-> f.seen \cup {s}]
    BY <1>3, <1>5 DEF Entry
  <2>5. scores' = [scores EXCEPT ![k] = e]
    BY <1>1, <1>5, <2>1, <2>3, <2>4 DEF AddDest
  <2>6. scores' \in Snapshots
    BY <1>0, <2>5, PutSnapshot
  <2> QED BY <1>5, <2>6 DEF AddDest
<1> QED BY <1>4, <1>5 DEF Event

\* A decay lowers every score, and no score below zero.
LEMMA DecayKeeps ==
  ASSUME ScoreInv, ForceDecay
  PROVE  scores' \in Snapshots /\ elapsed' \in Nat
<1>1. Delta \in Int
  BY ReputationAssumption DEF ScoreInv, Delta
<1>2. ASSUME NEW k \in Keys, scores[k] # None
      PROVE  [scores[k] EXCEPT !.score = clampScore(@ - Delta)] \in Entry
  <2>1. PICK e \in Entry : scores[k] = e
    BY <1>2 DEF ScoreInv, Snapshots, Entry
  <2>2. e.score - Delta \in Int
    BY <1>1 DEF Entry
  <2>3. PICK c \in 0 .. Top : c = clampScore(e.score - Delta)
    BY <2>2, Clamped
  <2>4. [e EXCEPT !.score = c] \in Entry
    BY DEF Entry
  <2> QED BY <2>1, <2>3, <2>4
<1>3. scores' = [k \in Keys |-> IF scores[k] = None THEN None
                    ELSE [scores[k] EXCEPT !.score = clampScore(@ - Delta)]]
  BY DEF ForceDecay
<1>4. \A k \in Keys : scores'[k] \in {None} \cup Entry
  BY <1>2, <1>3
<1>5. scores' \in Snapshots
  BY <1>3, <1>4 DEF Snapshots, Entry
<1>6. elapsed' \in Nat
  BY <1>1 DEF ForceDecay, ElapsedAfter, ScoreInv
<1> QED BY <1>5, <1>6

\* Every step keeps the invariant; a crash takes nothing from the disk.
LEMMA ScoreStepInv == ScoreInv /\ [Next]_vars => ScoreInv'
<1> SUFFICES ASSUME ScoreInv, [Next]_vars PROVE ScoreInv'
  OBVIOUS
<1> USE DEF ScoreInv, StoreWhole, SaveInv, disk, loop
<1>1. ASSUME NEW k \in Keys, Event(k) PROVE ScoreInv'
  BY <1>1, EventKeeps
<1>2. CASE Wake
  BY <1>2 DEF Wake
<1>3. CASE ForceDecay
  BY <1>3, DecayKeeps DEF ForceDecay
<1>4. CASE Evict
  <2>1. scores' \in Snapshots
    BY <1>4 DEF Evict, Snapshots
  <2> QED BY <1>4, <2>1 DEF Evict
<1>5. CASE Marshal
  BY <1>5 DEF Marshal
<1>6. CASE Write
  BY <1>6 DEF Write
<1>7. CASE Rename
  BY <1>7 DEF Rename, AfterSave
<1>8. CASE SaveFails
  BY <1>8 DEF SaveFails, AfterSave
<1>9. CASE Stop
  BY <1>9 DEF Stop
<1>10. CASE Crash
  BY <1>10, NoEntriesSnapshot DEF Crash
<1>11. CASE Restart
  <2>1. Loaded \in Snapshots
    BY NoEntriesSnapshot DEF Loaded
  <2> QED BY <1>11, <2>1 DEF Restart
<1>12. CASE Tick
  <2>1. Aged(None) = None /\ Aged(Torn) = Torn
    BY DEF Aged
  <2>2. scores' \in Snapshots /\ StoreWhole' /\ tmp' \in {None, Torn} \cup Snapshots
    BY <1>12, <2>1, AgedSnapshot DEF Tick
  <2>3. pc' = pc /\ pc \notin {"write", "rename"} /\ elapsed' \in Nat
    BY <1>12 DEF Tick
  <2> QED BY <2>2, <2>3
<1>13. CASE UNCHANGED vars
  BY <1>13 DEF vars
<1> QED BY <1>1, <1>2, <1>3, <1>4, <1>5, <1>6, <1>7, <1>8, <1>9, <1>10, <1>11, <1>12,
        <1>13 DEF Next, Maintenance

\* The invariant holds throughout.
LEMMA ScoreAlwaysInv == Spec => []ScoreInv
BY ScoreInitInv, ScoreStepInv, PTL DEF Spec

-------------------------------------------------------------------------------
\* Whatever step a crash comes after, the store holds a whole snapshot or is not there
\* yet (reputation.go: SaveNow).
THEOREM StoreIsWhole == Spec => []StoreWhole
<1>1. ScoreInv => StoreWhole
  BY DEF ScoreInv
<1> QED BY <1>1, ScoreAlwaysInv, PTL

\* Scores stay within their bounds through events, decay, saving and loading
\* (reputation.go: clampScore).
THEOREM ScoresBounded == Spec => [](scores \in Snapshots)
<1>1. ScoreInv => scores \in Snapshots
  BY DEF ScoreInv
<1> QED BY <1>1, ScoreAlwaysInv, PTL
===============================================================================
