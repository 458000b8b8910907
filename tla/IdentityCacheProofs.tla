------------------------ MODULE IdentityCacheProofs -------------------------
(***************************************************************************)
(* Proofs about IdentityCache for every set of keys, accounts and          *)
(* fingerprints, journal capacity and width of a generation.               *)
(***************************************************************************)
EXTENDS IdentityCache, SequenceTheorems, TLAPS

----------------------------------------------------------------------------
(* The journal.                                                            *)

\* The constants, in the form the provers use.
LEMMA JournalConstants ==
    /\ MAX_GENERATION \in Nat /\ 0 < MAX_GENERATION /\ None = MAX_GENERATION
    /\ CAPACITY \in Nat /\ 0 < CAPACITY
    /\ Peer \in Users /\ Fingerprint \in [Users -> Nat] /\ Fingerprint[Peer] \in Nat
    /\ Aliases \subseteq Seq(Users)
    /\ \A a \in Aliases : Len(a) \in 1 .. CAPACITY
BY IdentityAssumption DEF None

\* A journal with another generation and another start of the changes.
LEMMA LogExcept ==
    ASSUME NEW j \in Log, NEW g \in Generation, NEW s \in Generation
    PROVE  [j EXCEPT !.generation = g, !.since = s] =
              [generation |-> g, floor |-> j.floor, since |-> s, users |-> j.users]
<1> DEFINE m == [j EXCEPT !.generation = g]
<1>1. m = [generation |-> g, floor |-> j.floor, since |-> j.since, users |-> j.users]
  BY DEF Log
<1>2. m \in Log
  BY <1>1 DEF Log
<1>3. [j EXCEPT !.generation = g, !.since = s] = [m EXCEPT !.since = s]
  OBVIOUS
<1> HIDE DEF m
<1>4. [m EXCEPT !.since = s] =
         [generation |-> m.generation, floor |-> m.floor, since |-> s, users |-> m.users]
  BY <1>2 DEF Log
<1>5. m.generation = g /\ m.floor = j.floor /\ m.users = j.users
  BY <1>1
<1> QED
  BY <1>3, <1>4, <1>5

USE JournalConstants

\* What `changing` leaves is the end of what was recorded, and the floor is
\* past all that is gone.
LEMMA PrunedSuffix ==
    ASSUME NEW j \in Log, NEW all \in Seq(Mark)
    PROVE  \E d \in 0 .. Len(all), users \in Seq(Mark) :
              /\ Len(users) = Len(all) - d /\ Len(users) <= CAPACITY
              /\ \A i \in 1 .. Len(users) : users[i] = all[i + d]
              /\ d > 0 => d = Len(all) - CAPACITY
              /\ Pruned(j, all) = [generation |-> j.generation,
                                   floor |-> IF d > 0 THEN all[d][1] + 1 ELSE j.floor,
                                   since |-> j.since, users |-> users]
<1> DEFINE over == Len(all) - CAPACITY
           kept == SubSeq(all, over + 1, Len(all))
<1>1. j = [generation |-> j.generation, floor |-> j.floor, since |-> j.since, users |-> j.users]
  BY DEF Log
<1>2. Len(all) \in Nat /\ over \in Int /\ over <= Len(all)
  OBVIOUS
<1>3. CASE over <= 0
  <2>1. Pruned(j, all) = [j EXCEPT !.users = all]
    BY <1>3 DEF Pruned
  <2>2. Pruned(j, all) = [generation |-> j.generation, floor |-> IF 0 > 0 THEN all[0][1] + 1 ELSE j.floor,
                          since |-> j.since, users |-> all]
    BY <1>1, <2>1
  <2>3. 0 \in 0 .. Len(all) /\ Len(all) <= CAPACITY
    BY <1>2, <1>3
  <2> HIDE DEF over, kept
  <2> WITNESS 0 \in 0 .. Len(all), all \in Seq(Mark)
  <2> QED
    BY <1>2, <2>2, <2>3
<1>4. CASE over > 0
  <2>1. Pruned(j, all) = [j EXCEPT !.floor = all[over][1] + 1, !.users = kept]
    BY <1>2, <1>4 DEF Pruned
  <2>2. Pruned(j, all) = [generation |-> j.generation, floor |-> all[over][1] + 1,
                          since |-> j.since, users |-> kept]
    BY <1>1, <2>1
  <2>3. over \in 1 .. Len(all) /\ over \in 0 .. Len(all) /\ over = Len(all) - CAPACITY
    BY <1>2, <1>4
  <2>4. kept \in Seq(Mark) /\ Len(kept) = Len(all) - over
        /\ \A i \in 1 .. Len(all) - over : kept[i] = all[i + over]
    <3> HIDE DEF over
    <3>1. \A i \in over + 1 .. Len(all) : all[i] \in Mark
      BY <2>3
    <3>2. over + 1 \in Int /\ Len(all) \in Int
      BY <2>3
    <3>3. /\ kept \in Seq(Mark)
          /\ Len(kept) = IF over + 1 <= Len(all) THEN Len(all) - (over + 1) + 1 ELSE 0
          /\ \A i \in 1 .. Len(all) - (over + 1) + 1 : kept[i] = all[(over + 1) + i - 1]
      BY <3>1, <3>2, SubSeqProperties
    <3>4. Len(all) - (over + 1) + 1 = Len(all) - over
          /\ \A i \in Int : (over + 1) + i - 1 = i + over
      BY <2>3
    <3> HIDE DEF kept
    <3>5. Len(kept) = Len(all) - over
      BY <2>3, <3>2, <3>3
    <3>6. ASSUME NEW i \in 1 .. Len(all) - over
          PROVE  kept[i] = all[i + over]
      <4>1. i \in Int /\ i \in 1 .. Len(all) - (over + 1) + 1
        BY <3>4
      <4>2. kept[i] = all[(over + 1) + i - 1]
        BY <3>3, <4>1
      <4> QED
        BY <3>4, <4>1, <4>2
    <3> QED
      BY <3>3, <3>5, <3>6
  <2>5. Len(kept) <= CAPACITY
    BY <2>3, <2>4
  <2> over \in 0 .. Len(all) /\ kept \in Seq(Mark)
    BY <2>3, <2>4
  <2> HIDE DEF over, kept
  <2> WITNESS over \in 0 .. Len(all), kept \in Seq(Mark)
  <2> QED
    BY <1>2, <1>4, <2>2, <2>3, <2>4, <2>5
<1> QED
  BY <1>2, <1>3, <1>4
\* The parts of a state of the invariant, in the form the provers use.
LEMMA LogTypes ==
    ASSUME IdentityInv
    PROVE  /\ log = [generation |-> log.generation, floor |-> log.floor, since |-> log.since,
                     users |-> log.users]
           /\ log \in Log /\ log.users \in Seq(Mark)
           /\ log.generation \in Nat /\ log.floor \in Nat /\ log.since \in Nat
           /\ log.generation <= MAX_GENERATION
           /\ log.floor <= log.generation /\ log.since <= log.generation
           /\ Len(log.users) \in Nat /\ Len(log.users) <= CAPACITY
           /\ sender.token \in Nat /\ sender.token <= MAX_GENERATION
<1>1. log \in Log /\ sender \in Sender
  BY DEF IdentityInv, TypeOK
<1>2. log.users \in Seq(Mark)
  BY <1>1 DEF Log
<1>3. sender.token \in Nat /\ sender.token <= MAX_GENERATION
  BY <1>1 DEF Sender, Generation
<1>4. /\ log.generation \in Nat /\ log.floor \in Nat /\ log.since \in Nat
      /\ log.generation <= MAX_GENERATION
      /\ log = [generation |-> log.generation, floor |-> log.floor, since |-> log.since,
                users |-> log.users]
  BY <1>1 DEF Log, Generation
<1> QED
  BY <1>1, <1>2, <1>3, <1>4 DEF IdentityInv, LogInv

LEMMA LogMarks ==
    ASSUME IdentityInv, NEW i \in 1 .. Len(log.users)
    PROVE  /\ log.users[i] \in Mark /\ log.users[i][1] \in Nat
           /\ log.users[i][1] <= log.generation /\ log.floor <= log.users[i][1] + 1
           /\ \A j \in i .. Len(log.users) : log.users[i][1] <= log.users[j][1]
<1>1. log.users[i] \in Mark
  BY LogTypes
<1>2. \A m \in Mark : m[1] \in Nat
  BY DEF Mark, Generation
<1> QED
  BY <1>1, <1>2 DEF IdentityInv, LogInv

\* What a change that is not the last generation does to the journal: it goes
\* up by one, every mark that leaves lies below the new floor, and the others
\* are followed by those of the change.
LEMMA ChangedLog ==
    ASSUME IdentityInv, NEW users \in Aliases \cup {<<>>, <<Peer>>}, log' = Changed(log, users)
    PROVE  /\ log' \in Log /\ LogInv'
           /\ log'.since = IF Active THEN log.since ELSE log.generation
           /\ log'.generation # MAX_GENERATION =>
                 /\ log.generation # MAX_GENERATION
                 /\ log'.generation = log.generation + 1
                 /\ users = <<>> => log'.floor = log.generation + 1
                 /\ \A t \in Nat : Refused(log, t) => Refused(log', t)
                 /\ users = <<Peer>> => \A t \in Nat : t <= log.generation => Refused(log', t)
           /\ log.floor <= log'.floor \/ log'.generation = MAX_GENERATION
           /\ log.generation <= log'.generation /\ log'.generation \in Nat
<1>0. /\ log = [generation |-> log.generation, floor |-> log.floor, since |-> log.since,
                 users |-> log.users]
      /\ log.users \in Seq(Mark) /\ Len(log.users) \in Nat /\ Len(log.users) <= CAPACITY
  BY LogTypes
<1>a. /\ log.generation \in Nat /\ log.floor \in Nat /\ log.since \in Nat
      /\ log.generation <= MAX_GENERATION
      /\ log.floor <= log.generation /\ log.since <= log.generation
  BY LogTypes
<1> DEFINE g == IF log.generation = MAX_GENERATION THEN MAX_GENERATION ELSE log.generation + 1
           s == IF Active THEN log.since ELSE log.generation
           k == [log EXCEPT !.generation = g, !.since = s]
           added == [i \in 1 .. Len(users) |-> <<g, Fingerprint[users[i]]>>]
           all == log.users \o added
           n == Len(log.users)
<1>1. log' = IF g = MAX_GENERATION THEN k
             ELSE IF users = <<>> THEN [k EXCEPT !.floor = g, !.users = <<>>]
             ELSE Pruned(k, all)
  BY DEF Changed
<1>2. /\ g \in Nat /\ log.generation <= g /\ g <= MAX_GENERATION
      /\ g # MAX_GENERATION => log.generation # MAX_GENERATION /\ g = log.generation + 1
      /\ s \in Nat /\ s <= log.generation
      /\ s = IF Active THEN log.since ELSE log.generation
  BY <1>a
<1> HIDE DEF g, s
<1>3. k = [generation |-> g, floor |-> log.floor, since |-> s, users |-> log.users] /\ k \in Log
  <2>1. k = [generation |-> g, floor |-> log.floor, since |-> s, users |-> log.users]
    <3>1. g \in Generation /\ s \in Generation /\ log \in Log
      BY <1>a, <1>2, LogTypes DEF Generation
    <3> QED
      BY <3>1, LogExcept
  <2> QED
    BY <1>0, <1>a, <1>2, <2>1 DEF Log, Generation
<1> HIDE DEF k
<1>4. CASE g = MAX_GENERATION
  <2>1. log' = k
    BY <1>1, <1>4
  <2>2. /\ log' \in Log /\ log'.generation = g /\ log'.floor = log.floor /\ log'.since = s
        /\ log'.users = log.users
    BY <1>3, <2>1
  <2>3. LogInv'
    BY <1>0, <1>a, <1>2, <2>2, LogMarks DEF LogInv
  <2> QED
    BY <1>a, <1>2, <1>4, <2>2, <2>3
<1>5. CASE g # MAX_GENERATION /\ users = <<>>
  <2>1. log' = [generation |-> g, floor |-> g, since |-> s, users |-> <<>>]
    BY <1>1, <1>3, <1>5
  <2>2. log'.generation = g /\ log'.floor = g /\ log'.since = s /\ log'.users = <<>>
    BY <2>1
  <2>3. log' \in Log
    BY <1>a, <1>2, <2>1 DEF Log, Generation
  <2>4. LogInv'
    BY <1>a, <1>2, <2>2 DEF LogInv
  <2>5. \A t \in Nat : Refused(log, t) => Refused(log', t)
    <3> SUFFICES ASSUME NEW t \in Nat, Refused(log, t)
                 PROVE  t < g
      BY <2>2 DEF Refused
    <3>1. t < log.floor \/ \E i \in 1 .. Len(log.users) : log.users[i][1] > t
      BY <1>2, <1>5 DEF Refused
    <3> QED
      BY <1>a, <1>2, <1>5, <3>1, LogMarks
  <2> QED
    BY <1>a, <1>2, <1>5, <2>2, <2>3, <2>4, <2>5
<1>6. CASE g # MAX_GENERATION /\ users # <<>>
  <2>0. users \in Seq(Users) /\ Len(users) \in 1 .. CAPACITY
    <3>1. <<Peer>> \in Seq(Users) /\ Len(<<Peer>>) = 1 /\ 1 \in 1 .. CAPACITY
      OBVIOUS
    <3>2. users \in Aliases \/ users = <<Peer>>
      BY <1>6
    <3>3. CASE users \in Aliases
      BY <3>3
    <3>4. CASE users = <<Peer>>
      BY <3>1, <3>4
    <3> QED
      BY <3>2, <3>3, <3>4
  <2>1. /\ added \in Seq(Mark) /\ Len(added) = Len(users)
        /\ \A i \in 1 .. Len(users) : added[i] = <<g, Fingerprint[users[i]]>>
    <3>1. \A i \in 1 .. Len(users) : <<g, Fingerprint[users[i]]>> \in Mark
      BY <1>2, <2>0 DEF Mark, Generation
    <3> QED
      BY <2>0, <3>1
  <2> HIDE DEF added
  <2>2. /\ all \in Seq(Mark) /\ Len(all) = n + Len(users)
        /\ \A i \in 1 .. Len(all) : all[i] = IF i <= n THEN log.users[i] ELSE added[i - n]
    <3>1. log.users \in Seq(Mark) /\ added \in Seq(Mark)
      BY <1>0, <2>1
    <3>2. /\ all \in Seq(Mark) /\ Len(all) = n + Len(added)
          /\ \A i \in 1 .. n + Len(added) : all[i] = IF i <= n THEN log.users[i] ELSE added[i - n]
      BY <3>1, ConcatProperties
    <3> QED
      BY <2>1, <3>2
  <2> HIDE DEF all
  <2>3. n \in Nat /\ Len(users) \in Nat \ {0} /\ Len(all) \in Nat /\ n < Len(all)
    BY <1>0, <2>0, <2>2
  <2> HIDE DEF n
  <2>4. \A i \in 1 .. n : i \in 1 .. Len(all) /\ all[i] = log.users[i]
    BY <2>2, <2>3
  <2>5. \A i \in n + 1 .. Len(all) : all[i] = <<g, Fingerprint[users[i - n]]>>
    <3> SUFFICES ASSUME NEW i \in n + 1 .. Len(all)
                 PROVE  all[i] = <<g, Fingerprint[users[i - n]]>>
      OBVIOUS
    <3>1. i \in 1 .. Len(all) /\ ~(i <= n) /\ i - n \in 1 .. Len(users)
      BY <2>2, <2>3
    <3> QED
      BY <2>1, <2>2, <3>1
  <2>6. \A i \in 1 .. n : /\ all[i][1] \in Nat /\ all[i][1] <= log.generation
                          /\ log.floor <= all[i][1] + 1
                          /\ \A j \in i .. n : all[i][1] <= all[j][1]
    <3> SUFFICES ASSUME NEW i \in 1 .. n
                 PROVE  /\ all[i][1] \in Nat /\ all[i][1] <= log.generation
                        /\ log.floor <= all[i][1] + 1
                        /\ \A j \in i .. n : all[i][1] <= all[j][1]
      OBVIOUS
    <3>1. /\ log.users[i][1] \in Nat /\ log.users[i][1] <= log.generation
          /\ log.floor <= log.users[i][1] + 1
          /\ \A j \in i .. n : log.users[i][1] <= log.users[j][1]
      BY LogMarks DEF n
    <3>2. \A j \in i .. n : j \in 1 .. n
      BY <2>3
    <3> QED
      BY <2>4, <3>1, <3>2
  <2>7. \A i \in n + 1 .. Len(all) : all[i][1] = g
    BY <2>5
  <2>8. \A i \in 1 .. Len(all) :
           /\ all[i][1] \in Nat /\ all[i][1] <= g /\ log.floor <= all[i][1] + 1
           /\ \A j \in i .. Len(all) : all[i][1] <= all[j][1]
    <3> SUFFICES ASSUME NEW i \in 1 .. Len(all), NEW j \in i .. Len(all)
                 PROVE  /\ all[i][1] \in Nat /\ all[i][1] <= g /\ log.floor <= all[i][1] + 1
                        /\ all[i][1] <= all[j][1]
      <4>1. \A i \in 1 .. Len(all) : i \in i .. Len(all)
        BY <2>3
      <4> QED
        BY <4>1
    <3>1. CASE i > n
      <4>1. i \in n + 1 .. Len(all) /\ j \in n + 1 .. Len(all)
        BY <2>3, <3>1
      <4>2. all[i][1] = g /\ all[j][1] = g
        BY <2>7, <4>1
      <4> QED
        BY <1>a, <1>2, <4>2
    <3>2. CASE i <= n /\ j > n
      <4>1. i \in 1 .. n /\ j \in n + 1 .. Len(all)
        BY <2>3, <3>2
      <4>2. /\ all[j][1] = g
            /\ all[i][1] \in Nat /\ all[i][1] <= log.generation /\ log.floor <= all[i][1] + 1
        BY <2>6, <2>7, <4>1
      <4> QED
        BY <1>a, <1>2, <4>2
    <3>3. CASE i <= n /\ j <= n
      <4>1. i \in 1 .. n /\ j \in i .. n
        BY <2>3, <3>3
      <4> QED
        BY <1>a, <1>2, <2>6, <4>1
    <3> QED
      BY <2>3, <3>1, <3>2, <3>3
  <2>9. PICK d \in 0 .. Len(all), left \in Seq(Mark) :
              /\ Len(left) = Len(all) - d /\ Len(left) <= CAPACITY
              /\ \A i \in 1 .. Len(left) : left[i] = all[i + d]
              /\ d > 0 => d = Len(all) - CAPACITY
              /\ log' = [generation |-> k.generation,
                         floor |-> IF d > 0 THEN all[d][1] + 1 ELSE k.floor,
                         since |-> k.since, users |-> left]
    <3>1. log' = Pruned(k, all)
      BY <1>1, <1>6
    <3>2. k \in Log /\ all \in Seq(Mark)
      BY <1>3, <2>2
    <3> QED
      <4>1. \E d \in 0 .. Len(all), left \in Seq(Mark) :
              /\ Len(left) = Len(all) - d /\ Len(left) <= CAPACITY
              /\ \A i \in 1 .. Len(left) : left[i] = all[i + d]
              /\ d > 0 => d = Len(all) - CAPACITY
              /\ Pruned(k, all) = [generation |-> k.generation,
                         floor |-> IF d > 0 THEN all[d][1] + 1 ELSE k.floor,
                         since |-> k.since, users |-> left]
        BY <3>2, PrunedSuffix, Zenon
      <4> QED
        BY <3>1, <4>1
  <2> DEFINE floor == IF d > 0 THEN all[d][1] + 1 ELSE log.floor
  <2>10. log' = [generation |-> g, floor |-> floor, since |-> s, users |-> left]
    BY <1>3, <2>9
  <2>11. log'.generation = g /\ log'.since = s /\ log'.users = left /\ log'.floor = floor
    BY <2>10
  <2>12. d \in Nat /\ Len(left) \in Nat /\ Len(left) + d = Len(all)
    BY <2>3, <2>9
  <2>13. /\ floor \in Nat /\ floor <= g /\ log.floor <= floor
         /\ \A i \in 1 .. Len(all) : i <= d => all[i][1] < floor
         /\ \A i \in 1 .. Len(all) : i > d => floor <= all[i][1] + 1
    <3>1. CASE d = 0
      BY <1>a, <1>2, <2>3, <2>8, <3>1
    <3>2. CASE d > 0
      <4>1. d \in 1 .. Len(all) /\ d <= n
        <5>1. d = n + Len(users) - CAPACITY /\ Len(users) <= CAPACITY
          <6>1. d = Len(all) - CAPACITY /\ Len(all) = n + Len(users)
            BY <2>2, <2>9, <3>2
          <6>2. Len(users) <= CAPACITY
            BY <2>0
          <6> QED
            BY <2>3, <6>1, <6>2
        <5>2. d \in 0 .. Len(all)
          BY <2>9
        <5> QED
          BY <2>3, <3>2, <5>1, <5>2
      <4>2. d \in 1 .. n
        BY <2>3, <4>1
      <4>3. all[d][1] \in Nat /\ all[d][1] <= log.generation /\ log.floor <= all[d][1] + 1
        BY <2>6, <4>2
      <4>4. floor = all[d][1] + 1
        BY <3>2
      <4> HIDE DEF floor
      <4>5. \A i \in 1 .. Len(all) : i <= d => all[i][1] < floor
        <5> SUFFICES ASSUME NEW i \in 1 .. Len(all), i <= d PROVE all[i][1] < floor
          OBVIOUS
        <5>1. d \in i .. Len(all)
          BY <4>1
        <5>2. all[i][1] \in Nat /\ all[i][1] <= all[d][1]
          BY <2>8, <5>1
        <5> QED
          BY ONLY <4>3, <4>4, <5>2
      <4>6. \A i \in 1 .. Len(all) : i > d => floor <= all[i][1] + 1
        <5> SUFFICES ASSUME NEW i \in 1 .. Len(all), i > d PROVE floor <= all[i][1] + 1
          OBVIOUS
        <5>1. i \in d .. Len(all)
          BY <4>1
        <5>2. all[i][1] \in Nat /\ all[d][1] <= all[i][1]
          BY <2>8, <4>1, <5>1
        <5> QED
          BY ONLY <4>3, <4>4, <5>2
      <4>7. floor \in Nat /\ floor <= g /\ log.floor <= floor
        <5>1. g = log.generation + 1
          BY <1>2, <1>6
        <5>2. log.floor \in Nat /\ log.generation \in Nat
          BY <1>a
        <5> QED
          BY ONLY <4>3, <4>4, <5>1, <5>2
      <4> QED
        BY ONLY <4>5, <4>6, <4>7
    <3> QED
      BY <2>12, <3>1, <3>2
  <2> HIDE DEF floor
  <2>14. \A i \in 1 .. Len(left) : i + d \in 1 .. Len(all) /\ i + d > d /\ left[i] = all[i + d]
    BY <2>9, <2>12
  <2>15. log' \in Log
    <3>1. g \in Generation /\ s \in Generation /\ floor \in Generation
      BY <1>a, <1>2, <2>13 DEF Generation
    <3> QED
      <4>1. left \in Seq(Mark)
        BY <2>9
      <4> QED
        BY ONLY <2>10, <3>1, <4>1 DEF Log
  <2>16. LogInv'
    <3>1. \A i \in 1 .. Len(left) :
             /\ left[i][1] <= g /\ floor <= left[i][1] + 1
             /\ \A j \in i .. Len(left) : left[i][1] <= left[j][1]
      <4> SUFFICES ASSUME NEW i \in 1 .. Len(left)
                   PROVE  /\ left[i][1] <= g /\ floor <= left[i][1] + 1
                          /\ \A j \in i .. Len(left) : left[i][1] <= left[j][1]
        OBVIOUS
      <4>1. \A j \in i .. Len(left) : j \in 1 .. Len(left) /\ j + d \in i + d .. Len(all)
        BY <2>12
      <4> QED
        BY <2>8, <2>13, <2>14, <4>1
    <3> QED
      <4>1. s <= g /\ Len(left) <= CAPACITY
        BY <1>a, <1>2, <2>9
      <4> QED
        BY <2>11, <2>13, <3>1, <4>1 DEF LogInv
  <2>17. ASSUME NEW t \in Nat, NEW i \in 1 .. Len(all), all[i][1] > t, all[i][2] = Fingerprint[Peer]
         PROVE  Refused(log', t)
    <3>1. CASE i <= d
      <4>1. all[i][1] < floor /\ all[i][1] \in Nat
        BY <2>8, <2>13, <3>1
      <4>2. t < floor
        BY <2>13, <2>17, <4>1
      <4> QED
        BY <2>11, <4>2 DEF Refused
    <3>2. CASE i > d
      <4>1. i - d \in 1 .. Len(left) /\ (i - d) + d = i
        BY <2>12, <3>2
      <4>2. left[i - d] = all[i]
        BY <2>14, <4>1
      <4> QED
        BY <2>11, <2>17, <4>1, <4>2 DEF Refused
    <3> QED
      BY <2>12, <3>1, <3>2
  <2>18. ASSUME NEW t \in Nat, Refused(log, t)
         PROVE  Refused(log', t)
    <3>1. CASE t < log.floor
      <4>1. t < floor
        BY <1>a, <2>13, <3>1
      <4> QED
        BY <2>11, <4>1 DEF Refused
    <3>2. ASSUME NEW i \in 1 .. n, log.users[i][1] > t, log.users[i][2] = Fingerprint[Peer]
          PROVE  Refused(log', t)
      BY <2>4, <2>17, <3>2
    <3> QED
      BY <1>2, <1>6, <2>18, <3>1, <3>2 DEF Refused, n
  <2>19. users = <<Peer>> => \A t \in Nat : t <= log.generation => Refused(log', t)
    <3> SUFFICES ASSUME users = <<Peer>>, NEW t \in Nat, t <= log.generation
                 PROVE  Refused(log', t)
      OBVIOUS
    <3>1. n + 1 \in 1 .. Len(all) /\ n + 1 \in n + 1 .. Len(all) /\ (n + 1) - n = 1
      BY <2>3
    <3>2. all[n + 1] = <<g, Fingerprint[users[1]]>>
      BY <2>5, <3>1
    <3>3. all[n + 1] = <<g, Fingerprint[Peer]>>
      BY <3>2
    <3>4. all[n + 1][1] > t /\ all[n + 1][2] = Fingerprint[Peer]
      BY <1>a, <1>2, <1>6, <3>3
    <3> QED
      BY <2>17, <3>1, <3>4
  <2> QED
    BY <1>a, <1>2, <1>6, <2>11, <2>13, <2>15, <2>16, <2>18, <2>19
<1> QED
  BY <1>4, <1>5, <1>6
\* What a change that begins means for the tokens: those in use and those
\* taken before it ends are refused if it is of the peer or of unknown scope,
\* and what was refused stays so.
LEMMA ChangeTokens ==
    ASSUME IdentityInv, NEW users \in Aliases \cup {<<>>, <<Peer>>}, Change(users)
    PROVE  /\ log' \in Log /\ LogInv' /\ sender' \in Sender
           /\ sender'.token = sender.token /\ sender'.at = sender.at
           /\ sender'.token <= log'.generation \/ sender'.token = None
           /\ \A t \in Nat : Refused(log, t) => Refused(log', t)
           /\ users = <<Peer>> \/ writer.guard =>
                 /\ Refused(log', log'.since)
                 /\ Refused(log', sender'.token) \/ sender'.token = None
           /\ users = <<>> \/ clearing # "no" =>
                 \/ log'.generation = MAX_GENERATION
                 \/ /\ log'.since < log'.floor
                    /\ sender'.token < log'.floor \/ sender'.token = None
<1>1. sender \in Sender /\ TokenInv
  BY DEF IdentityInv, TypeOK
<1>2. /\ log.generation \in Nat /\ log.floor \in Nat /\ log.since \in Nat
      /\ log.generation <= MAX_GENERATION
      /\ log.floor <= log.generation /\ log.since <= log.generation
      /\ sender.token \in Nat /\ sender.token <= MAX_GENERATION
  BY LogTypes
<1>3. log' = Changed(log, users)
  BY DEF Change
<1>4. /\ log' \in Log /\ LogInv'
      /\ log'.since = IF Active THEN log.since ELSE log.generation
      /\ log.floor <= log'.floor \/ log'.generation = MAX_GENERATION
      /\ log.generation <= log'.generation /\ log'.generation \in Nat
  BY <1>3, ChangedLog
<1>5. log'.generation # MAX_GENERATION =>
         /\ log.generation # MAX_GENERATION
         /\ log'.generation = log.generation + 1
         /\ users = <<>> => log'.floor = log.generation + 1
         /\ \A t \in Nat : Refused(log, t) => Refused(log', t)
         /\ users = <<Peer>> => \A t \in Nat : t <= log.generation => Refused(log', t)
  BY <1>3, ChangedLog
<1>6. sender' \in Sender /\ sender'.token = sender.token /\ sender'.at = sender.at
  <2> DEFINE room == IF \/ users = <<>>
                        \/ \E i \in 1 .. Len(users) : Fingerprint[users[i]] = Fingerprint[Peer]
                        \/ Len(users) > sender.room
                     THEN 0 ELSE sender.room - Len(users)
  <2>1. sender' = [sender EXCEPT !.room = room]
    BY DEF Change
  <2>2. Len(users) \in Nat /\ sender.room \in 0 .. CAPACITY
    BY <1>1 DEF Sender
  <2>3. room \in 0 .. CAPACITY
    BY <2>2
  <2> HIDE DEF room
  <2> QED
    BY <1>1, <2>1, <2>3 DEF Sender
<1>7. log'.generation = MAX_GENERATION => \A t \in Nat : Refused(log', t)
  BY DEF Refused
<1>8. sender'.token <= log'.generation \/ sender'.token = None
  BY <1>1, <1>2, <1>4, <1>6 DEF TokenInv
<1>9. \A t \in Nat : Refused(log, t) => Refused(log', t)
  BY <1>5, <1>7
<1>10. log'.since \in Nat /\ log'.since <= log.generation
  BY <1>2, <1>4
<1>11. users = <<Peer>> => /\ Refused(log', log'.since)
                           /\ Refused(log', sender'.token) \/ sender'.token = None
  <2>1. users = <<Peer>> => \A t \in Nat : t <= log.generation => Refused(log', t)
    BY <1>5, <1>7
  <2> QED
    BY <1>1, <1>2, <1>6, <1>10, <2>1 DEF TokenInv
<1>12. writer.guard => /\ Refused(log', log'.since)
                       /\ Refused(log', sender'.token) \/ sender'.token = None
  <2>1. writer.guard => log'.since = log.since
    BY <1>4 DEF Active
  <2> QED
    BY <1>1, <1>2, <1>6, <1>9, <2>1 DEF TokenInv
<1>13. users = <<>> => \/ log'.generation = MAX_GENERATION
                       \/ /\ log'.since < log'.floor
                          /\ sender'.token < log'.floor \/ sender'.token = None
  BY <1>1, <1>2, <1>5, <1>6, <1>10 DEF TokenInv
<1>14. clearing # "no" => \/ log'.generation = MAX_GENERATION
                          \/ /\ log'.since < log'.floor
                             /\ sender'.token < log'.floor \/ sender'.token = None
  <2> SUFFICES ASSUME clearing # "no", log'.generation # MAX_GENERATION
               PROVE  /\ log'.since < log'.floor
                      /\ sender'.token < log'.floor \/ sender'.token = None
    OBVIOUS
  <2>1. log'.since = log.since /\ log.floor <= log'.floor /\ log'.floor \in Nat
    BY <1>4 DEF Active, Log, Generation
  <2>2. log.since < log.floor /\ (sender.token < log.floor \/ sender.token = None)
    BY <1>1, <1>5 DEF TokenInv
  <2> QED
    BY <1>2, <1>6, <2>1, <2>2
<1> QED
  BY <1>4, <1>6, <1>8, <1>9, <1>11, <1>12, <1>13, <1>14
----------------------------------------------------------------------------
(* The steps.                                                              *)

\* The types of what is not the journal.
LEMMA PartTypes ==
    ASSUME IdentityInv
    PROVE  /\ entry \in Keys \cup {Absent, Cold} /\ row \in Keys \cup {Absent}
           /\ dirty \in BOOLEAN /\ deleted \in BOOLEAN /\ other \in BOOLEAN
           /\ read.value \in Keys \cup {Absent} /\ read.fresh \in BOOLEAN
           /\ flush.key \in Keys \cup {Absent} /\ flush.same \in BOOLEAN /\ flush.del \in BOOLEAN
           /\ writer.key \in Keys \cup {Absent} /\ writer.guard \in BOOLEAN
           /\ Absent \notin Keys /\ Cold \notin Keys /\ Cold # Absent
BY IdentityAssumption DEF IdentityInv, TypeOK, Identity, Read, Flush, Writer

\* The beginning of a change: of another account, of the peer or of unknown scope.
LEMMA ChangeStep ==
    ASSUME IdentityInv,
           \/ \E users \in Aliases : OtherStart(users)
           \/ \E k \in Keys : PutStart(k) /\ WriteChanges(k)
           \/ DeleteStart
           \/ ClearStart
    PROVE  IdentityInv' /\ Effective' = Effective
<1>1. PICK users \in Aliases \cup {<<>>, <<Peer>>} :
         /\ Change(users)
         /\ (writer' # writer) => users = <<Peer>>
         /\ (clearing' # clearing) => users = <<>>
  <2>1. ASSUME NEW users \in Aliases, OtherStart(users)
        PROVE  Change(users) /\ writer' = writer /\ clearing' = clearing
    BY <2>1 DEF OtherStart
  <2>2. ASSUME NEW k \in Keys, PutStart(k), WriteChanges(k)
        PROVE  Change(<<Peer>>) /\ clearing' = clearing
    BY <2>2 DEF PutStart
  <2>3. DeleteStart => Change(<<Peer>>) /\ clearing' = clearing
    BY DEF DeleteStart
  <2>4. ClearStart => Change(<<>>) /\ writer' = writer
    BY DEF ClearStart
  <2> QED
    BY <2>1, <2>2, <2>3, <2>4
<1>2. /\ UNCHANGED <<entry, dirty, deleted, row, read, flush>>
      /\ other' \in BOOLEAN /\ clearing' \in {"no", "begun", "cleared"}
      /\ writer' \in Writer /\ WriterInv'
  <2> USE PartTypes DEF cache
  <2>0. writer \in Writer /\ WriterInv /\ other \in BOOLEAN /\ clearing \in {"no", "begun", "cleared"}
    BY DEF IdentityInv, TypeOK
  <2>1. ASSUME NEW u \in Aliases, OtherStart(u)
        PROVE  /\ UNCHANGED <<entry, dirty, deleted, row, read, flush, writer, clearing>>
               /\ other' \in BOOLEAN
    BY <2>1 DEF OtherStart
  <2>2. ASSUME NEW k \in Keys, PutStart(k), WriteChanges(k)
        PROVE  /\ UNCHANGED <<entry, dirty, deleted, row, read, flush, other, clearing>>
               /\ writer' \in Writer /\ WriterInv'
    <3>1. /\ UNCHANGED <<entry, dirty, deleted, row, read, flush, other, clearing>>
          /\ writer' = [pc |-> "put", key |-> k, guard |-> TRUE]
      BY <2>2 DEF PutStart, WriteChanges
    <3> QED
      BY <3>1 DEF Writer, WriterInv, Identity
  <2>3. ASSUME DeleteStart
        PROVE  /\ UNCHANGED <<entry, dirty, deleted, row, read, flush, other, clearing>>
               /\ writer' \in Writer /\ WriterInv'
    BY <2>3 DEF DeleteStart, Writer, WriterInv, Identity
  <2>4. ASSUME ClearStart
        PROVE  /\ UNCHANGED <<entry, dirty, deleted, row, read, flush, other, writer>>
               /\ clearing' = "begun"
    BY <2>4 DEF ClearStart
  <2>5. UNCHANGED <<entry, writer>> => writer' \in Writer /\ WriterInv'
    BY <2>0 DEF WriterInv
  <2>6. CASE \E u \in Aliases : OtherStart(u)
    BY <2>0, <2>1, <2>5, <2>6
  <2>7. CASE \E k \in Keys : PutStart(k) /\ WriteChanges(k)
    BY <2>0, <2>2, <2>7
  <2>8. CASE DeleteStart
    BY <2>0, <2>3, <2>8
  <2>9. CASE ClearStart
    BY <2>0, <2>4, <2>5, <2>9
  <2> QED
    BY <2>6, <2>7, <2>8, <2>9
<1>3. /\ log' \in Log /\ LogInv' /\ sender' \in Sender
      /\ sender'.token = sender.token /\ sender'.at = sender.at
      /\ sender'.token <= log'.generation \/ sender'.token = None
      /\ \A t \in Nat : Refused(log, t) => Refused(log', t)
      /\ users = <<Peer>> \/ writer.guard =>
            /\ Refused(log', log'.since)
            /\ Refused(log', sender'.token) \/ sender'.token = None
      /\ users = <<>> \/ clearing # "no" =>
            \/ log'.generation = MAX_GENERATION
            \/ /\ log'.since < log'.floor
               /\ sender'.token < log'.floor \/ sender'.token = None
  BY <1>1, ChangeTokens
<1>4. TypeOK'
  BY <1>2, <1>3 DEF IdentityInv, TypeOK
<1>5. CacheInv'
  BY <1>2 DEF IdentityInv, CacheInv
<1>6. Effective' = Effective
  BY <1>2 DEF Effective
<1>7. TokenInv'
  <2>1. writer'.guard => /\ Refused(log', log'.since)
                         /\ Refused(log', sender'.token) \/ sender'.token = None
    BY <1>1, <1>3
  <2>2. clearing' # "no" => \/ log'.generation = MAX_GENERATION
                            \/ /\ log'.since < log'.floor
                               /\ sender'.token < log'.floor \/ sender'.token = None
    BY <1>1, <1>3
  <2>3. sender'.at \notin {Absent, Effective'} => Refused(log', sender'.token) \/ sender'.token = None
    <3>1. sender.token \in Nat
      BY LogTypes
    <3>2. sender.at \notin {Absent, Effective} => Refused(log, sender.token) \/ sender.token = None
      BY DEF IdentityInv, TokenInv
    <3> QED
      BY <1>3, <1>6, <3>1, <3>2
  <2> QED
    BY <1>3, <2>1, <2>2, <2>3 DEF TokenInv
<1> QED
  BY <1>2, <1>3, <1>4, <1>5, <1>6, <1>7 DEF IdentityInv
\* A step that leaves the journal, the token and the identity alone and begins
\* nothing keeps what holds of the token.
LEMMA TokensKept ==
    ASSUME IdentityInv, UNCHANGED <<log, sender>>, Effective' = Effective,
           writer'.guard => writer.guard, clearing' # "no" => clearing # "no"
    PROVE  LogInv' /\ TokenInv'
BY DEF IdentityInv, LogInv, TokenInv

\* The reads, and the write that is no change.
LEMMA ReadStep ==
    ASSUME IdentityInv,
           \/ ReadStart \/ ReadFetch \/ ReadInstall \/ ReadRaced \/ ReadLocked
           \/ \E k \in Keys : PutStart(k) /\ ~WriteChanges(k)
    PROVE  IdentityInv' /\ Effective' = Effective
<1> USE PartTypes DEF cache
<1>0. TypeOK /\ WriterInv /\ CacheInv
  BY DEF IdentityInv
<1>1. CASE ReadStart
  <2>1. TypeOK'
    BY <1>0, <1>1 DEF ReadStart, TypeOK, IdleRead, Read, Identity
  <2>2. WriterInv' /\ CacheInv' /\ Effective' = Effective
    BY <1>0, <1>1 DEF ReadStart, IdleRead, WriterInv, CacheInv, Effective
  <2>3. UNCHANGED <<log, sender, writer, clearing>>
    BY <1>1 DEF ReadStart
  <2> QED
    BY <2>1, <2>2, <2>3, TokensKept DEF IdentityInv
<1>2. CASE ReadFetch
  <2>1. TypeOK'
    BY <1>0, <1>2 DEF ReadFetch, TypeOK, Read, Identity
  <2>2. WriterInv' /\ CacheInv' /\ Effective' = Effective
    BY <1>0, <1>2 DEF ReadFetch, TypeOK, Read, WriterInv, CacheInv, Effective
  <2>3. UNCHANGED <<log, sender, writer, clearing>>
    BY <1>2 DEF ReadFetch
  <2> QED
    BY <2>1, <2>2, <2>3, TokensKept DEF IdentityInv
<1>3. CASE ReadInstall
  <2>1. TypeOK'
    BY <1>0, <1>3 DEF ReadInstall, TypeOK, IdleRead, Read, Identity
  <2>2. WriterInv' /\ CacheInv' /\ Effective' = Effective
    BY <1>0, <1>3 DEF ReadInstall, Free, IdleRead, WriterInv, CacheInv, Effective
  <2>3. UNCHANGED <<log, sender, writer, clearing>>
    BY <1>3 DEF ReadInstall
  <2> QED
    BY <2>1, <2>2, <2>3, TokensKept DEF IdentityInv
<1>4. CASE ReadRaced
  <2>1. TypeOK'
    BY <1>0, <1>4, ZenonT(60) DEF ReadRaced, TypeOK, IdleRead, Read, Identity
  <2>2. WriterInv' /\ CacheInv' /\ Effective' = Effective
    BY <1>0, <1>4 DEF ReadRaced, IdleRead, WriterInv, CacheInv, Effective
  <2>3. UNCHANGED <<log, sender, writer, clearing>>
    BY <1>4 DEF ReadRaced
  <2> QED
    BY <2>1, <2>2, <2>3, TokensKept DEF IdentityInv
<1>5. CASE ReadLocked
  <2>1. TypeOK'
    BY <1>0, <1>5 DEF ReadLocked, TypeOK, IdleRead, Read, Identity
  <2>2. WriterInv' /\ CacheInv' /\ Effective' = Effective
    BY <1>0, <1>5 DEF ReadLocked, Free, IdleRead, WriterInv, CacheInv, Effective
  <2>3. UNCHANGED <<log, sender, writer, clearing>>
    BY <1>5 DEF ReadLocked
  <2> QED
    BY <2>1, <2>2, <2>3, TokensKept DEF IdentityInv
<1>6. ASSUME NEW k \in Keys, PutStart(k), ~WriteChanges(k)
      PROVE  IdentityInv' /\ Effective' = Effective
  <2>1. /\ writer' = [pc |-> "put", key |-> k, guard |-> FALSE]
        /\ UNCHANGED <<log, sender, entry, dirty, deleted, row, read, flush, clearing, other>>
    <3>1. (WriteChanges(k)) = FALSE
      BY <1>6 DEF WriteChanges
    <3> QED
      BY <1>6, <3>1 DEF PutStart
  <2>2. TypeOK'
    BY <1>0, <2>1 DEF TypeOK, Writer, Identity
  <2>3. WriterInv'
    BY <1>6, <2>1 DEF WriterInv, WriteChanges
  <2>4. CacheInv' /\ Effective' = Effective
    BY <1>0, <2>1 DEF CacheInv, Effective
  <2> QED
    BY <2>1, <2>2, <2>3, <2>4, TokensKept DEF IdentityInv
<1> QED
  BY <1>1, <1>2, <1>3, <1>4, <1>5, <1>6

\* The flush.
LEMMA FlushStep ==
    ASSUME IdentityInv,
           \/ FlushCapture \/ FlushWrite \/ FlushConfirm
           \/ FlushDelete \/ FlushConfirmDelete \/ FlushFail
    PROVE  IdentityInv' /\ Effective' = Effective
<1> USE PartTypes DEF cache
<1>0. TypeOK /\ WriterInv /\ CacheInv
  BY DEF IdentityInv
<1>1. UNCHANGED <<log, entry, read, writer, clearing, other, sender>>
  BY DEF FlushCapture, FlushWrite, FlushConfirm, FlushDelete, FlushConfirmDelete, FlushFail
<1>2. WriterInv'
  BY <1>0, <1>1 DEF WriterInv
<1>3. CASE FlushCapture
  <2>1. TypeOK'
    BY <1>0, <1>1, <1>3 DEF FlushCapture, AfterWrite, IdleFlush, TypeOK, Flush, Identity, CacheInv
  <2>2. CacheInv' /\ Effective' = Effective
    BY <1>0, <1>3 DEF FlushCapture, AfterWrite, IdleFlush, CacheInv, Effective
  <2> QED
    BY <1>1, <1>2, <2>1, <2>2, TokensKept DEF IdentityInv
<1>4. CASE FlushWrite
  <2>1. TypeOK'
    BY <1>0, <1>1, <1>4 DEF FlushWrite, TypeOK, Flush, Identity
  <2>2. CacheInv' /\ Effective' = Effective
    BY <1>0, <1>4 DEF FlushWrite, TypeOK, Flush, CacheInv, Effective
  <2> QED
    BY <1>1, <1>2, <2>1, <2>2, TokensKept DEF IdentityInv
<1>5. CASE FlushConfirm
  <2>1. TypeOK'
    BY <1>0, <1>1, <1>5, ZenonT(60) DEF FlushConfirm, AfterWrite, IdleFlush, TypeOK, Flush, Identity
  <2>2. CacheInv' /\ Effective' = Effective
    BY <1>0, <1>5 DEF FlushConfirm, AfterWrite, IdleFlush, TypeOK, Flush, CacheInv, Effective
  <2> QED
    BY <1>1, <1>2, <2>1, <2>2, TokensKept DEF IdentityInv
<1>6. CASE FlushDelete
  <2>1. TypeOK'
    BY <1>0, <1>1, <1>6 DEF FlushDelete, TypeOK, Flush, Identity
  <2>2. CacheInv' /\ Effective' = Effective
    BY <1>0, <1>6 DEF FlushDelete, TypeOK, Flush, CacheInv, Effective
  <2> QED
    BY <1>1, <1>2, <2>1, <2>2, TokensKept DEF IdentityInv
<1>7. CASE FlushConfirmDelete
  <2>1. TypeOK'
    BY <1>0, <1>1, <1>7 DEF FlushConfirmDelete, IdleFlush, TypeOK, Flush, Identity
  <2>2. CacheInv' /\ Effective' = Effective
    BY <1>0, <1>7 DEF FlushConfirmDelete, IdleFlush, CacheInv, Effective
  <2> QED
    BY <1>1, <1>2, <2>1, <2>2, TokensKept DEF IdentityInv
<1>8. CASE FlushFail
  <2>1. TypeOK'
    BY <1>0, <1>1, <1>8 DEF FlushFail, IdleFlush, TypeOK, Flush, Identity
  <2>2. CacheInv' /\ Effective' = Effective
    BY <1>0, <1>8 DEF FlushFail, IdleFlush, CacheInv, Effective
  <2> QED
    BY <1>1, <1>2, <2>1, <2>2, TokensKept DEF IdentityInv
<1> QED
  BY <1>3, <1>4, <1>5, <1>6, <1>7, <1>8
\* What ends or leaves without a change of the identity.
LEMMA LeaveStep ==
    ASSUME IdentityInv, OtherEnd \/ Evict \/ ClearAfterFlush \/ ClearEnd
    PROVE  IdentityInv' /\ Effective' = Effective
<1> USE PartTypes DEF cache
<1>0. TypeOK /\ WriterInv /\ CacheInv
  BY DEF IdentityInv
<1>1. CASE OtherEnd \/ ClearEnd
  <2>1. /\ UNCHANGED <<log, entry, dirty, deleted, row, read, flush, writer, sender>>
        /\ other' \in BOOLEAN /\ clearing' \in {"no", clearing}
    BY <1>1 DEF OtherEnd, ClearEnd
  <2>2. TypeOK' /\ WriterInv' /\ CacheInv' /\ Effective' = Effective
    BY <1>0, <2>1, SMTT(20) DEF TypeOK, WriterInv, CacheInv, Effective
  <2> QED
    BY <2>1, <2>2, TokensKept DEF IdentityInv
<1>2. CASE Evict \/ ClearAfterFlush
  <2>1. /\ ~dirty /\ ~deleted /\ Free /\ Drop
        /\ UNCHANGED <<log, dirty, deleted, row, flush, writer, clearing, other, sender>>
    BY <1>2 DEF Evict, ClearAfterFlush
  <2>2. entry' = Cold /\ Effective' = Effective
    BY <1>0, <2>1 DEF Drop, Effective, CacheInv
  <2>3. read'.fresh = (read.fresh /\ entry = Cold)
        /\ read'.pc = read.pc /\ read'.value = read.value /\ read' \in Read
    BY <1>0, <2>1 DEF Drop, TypeOK, Read
  <2>4. TypeOK'
    BY <1>0, <2>1, <2>2, <2>3 DEF TypeOK
  <2>5. WriterInv'
    BY <1>0, <2>1 DEF WriterInv, Free
  <2>6. CacheInv'
    BY <1>0, <2>1, <2>2, <2>3 DEF CacheInv
  <2> QED
    BY <2>1, <2>2, <2>4, <2>5, <2>6, TokensKept DEF IdentityInv
<1> QED
  BY <1>1, <1>2

\* A token taken now is of before every change that is under way.
LEMMA TokenStep ==
    ASSUME IdentityInv, TakeToken
    PROVE  IdentityInv' /\ Effective' = Effective
<1>1. UNCHANGED <<log, entry, dirty, deleted, row, read, flush, writer, clearing, other>>
  BY DEF TakeToken, cache
<1>2. /\ sender'.token = Token /\ sender'.at = Effective
      /\ Token \in Generation /\ sender' \in Sender
  <2>1. Token \in Generation
    BY LogTypes DEF Token, None, Generation
  <2>2. Effective \in Identity
    BY PartTypes DEF Effective, Identity
  <2> QED
    BY <2>1, <2>2 DEF TakeToken, Sender
<1>3. TypeOK'
  BY <1>1, <1>2 DEF IdentityInv, TypeOK
<1>4. WriterInv' /\ CacheInv' /\ LogInv' /\ Effective' = Effective
  <2>1. WriterInv' /\ Effective' = Effective
    BY <1>1 DEF IdentityInv, WriterInv, Effective
  <2>2. CacheInv'
    BY <1>1 DEF IdentityInv, CacheInv
  <2>3. LogInv'
    BY <1>1 DEF IdentityInv, LogInv
  <2> QED
    BY <2>1, <2>2, <2>3
<1>5. TokenInv'
  <2>1. Token = None \/ Token <= log.generation
    BY LogTypes DEF Token
  <2>2. Active => Token \in {None, log.since}
    BY DEF Token
  <2>3. writer.guard => Refused(log, log.since) /\ (Refused(log, Token) \/ Token = None)
    BY <2>2 DEF IdentityInv, TokenInv, Active
  <2>4. clearing # "no" => \/ log.generation = MAX_GENERATION
                           \/ log.since < log.floor /\ (Token < log.floor \/ Token = None)
    BY <2>2 DEF IdentityInv, TokenInv, Active
  <2> HIDE DEF Token
  <2> QED
    BY <1>1, <1>2, <1>4, <2>1, <2>3, <2>4 DEF TokenInv
<1> QED
  BY <1>3, <1>4, <1>5 DEF IdentityInv

\* The steps that change the identity: the end of a put and of a delete, and
\* the clear.  The token is refused already, or the identity is the first one.
LEMMA IdentityStep ==
    ASSUME IdentityInv, PutEnd \/ DeleteEnd \/ ClearIdentities
    PROVE  /\ IdentityInv'
           /\ Effective' # Effective =>
                 \/ writer.guard \/ clearing # "no"
                 \/ writer.pc = "put" /\ Effective = Absent
<1> USE PartTypes DEF cache
<1>0. TypeOK /\ WriterInv /\ CacheInv /\ TokenInv /\ LogInv
  BY DEF IdentityInv
<1>1. CASE PutEnd
  <2>1. /\ writer.pc = "put" /\ writer' = IdleWriter
        /\ UNCHANGED <<log, row, read, clearing, other>>
        /\ writer.key \in Keys /\ (writer.guard \/ entry \in {Absent, writer.key})
    BY <1>0, <1>1 DEF PutEnd, WriterInv
  <2>2. /\ entry' = writer.key
        /\ entry # writer.key => dirty' = TRUE /\ deleted' = FALSE /\ flush' = [flush EXCEPT !.same = FALSE]
        /\ entry = writer.key => UNCHANGED <<dirty, deleted, flush>>
    BY <1>1 DEF PutEnd
  <2>3. /\ sender'.token = sender.token /\ sender' \in Sender
        /\ sender'.at = IF sender.at = Absent THEN writer.key ELSE sender.at
    BY <1>0, <1>1, <2>1 DEF PutEnd, TypeOK, Sender, Identity
  <2>4. TypeOK'
    BY <1>0, <2>1, <2>2, <2>3 DEF TypeOK, IdleWriter, Writer, Flush, Identity
  <2>5. WriterInv' /\ LogInv'
    BY <1>0, <2>1 DEF IdleWriter, WriterInv, LogInv
  <2>6. CacheInv'
    BY <1>0, <2>1, <2>2 DEF CacheInv, TypeOK, Flush
  <2>7. Effective' = writer.key /\ (writer.guard \/ Effective \in {Absent, writer.key})
    BY <2>1, <2>2 DEF Effective
  <2>8. TokenInv'
    <3>1. ~writer'.guard
      BY <2>1 DEF IdleWriter
    <3>2. sender'.at \notin {Absent, Effective'} =>
             Refused(log, sender.token) \/ sender.token = None
      BY <1>0, <2>3, <2>7 DEF TokenInv
    <3> QED
      BY <1>0, <2>1, <2>3, <3>1, <3>2 DEF TokenInv
  <2> QED
    BY <2>1, <2>4, <2>5, <2>6, <2>7, <2>8 DEF IdentityInv
<1>2. CASE DeleteEnd
  <2>1. /\ writer.guard /\ writer' = IdleWriter
        /\ entry' = Absent /\ deleted' = TRUE /\ dirty' = FALSE
        /\ flush' = [flush EXCEPT !.same = FALSE]
        /\ UNCHANGED <<log, row, read, clearing, other, sender>>
    BY <1>0, <1>2 DEF DeleteEnd, WriterInv
  <2>2. TypeOK'
    BY <1>0, <2>1 DEF TypeOK, IdleWriter, Writer, Flush, Identity
  <2>3. WriterInv' /\ LogInv'
    BY <1>0, <2>1 DEF IdleWriter, WriterInv, LogInv
  <2>4. CacheInv'
    BY <1>0, <2>1 DEF CacheInv, TypeOK, Flush
  <2>5. TokenInv'
    <3>1. ~writer'.guard
      BY <2>1 DEF IdleWriter
    <3> QED
      BY <1>0, <2>1, <3>1 DEF TokenInv
  <2> QED
    BY <2>1, <2>2, <2>3, <2>4, <2>5 DEF IdentityInv
<1>3. CASE ClearIdentities
  <2>1. /\ clearing = "begun" /\ clearing' = "cleared" /\ Free /\ flush.pc = "idle" /\ Drop
        /\ dirty' = FALSE /\ deleted' = FALSE
        /\ UNCHANGED <<log, row, flush, writer, other, sender>>
    BY <1>3 DEF ClearIdentities
  <2>2. /\ entry' = Cold /\ read' \in Read
        /\ read'.fresh = (read.fresh /\ entry = Cold)
        /\ read'.pc = read.pc /\ read'.value = read.value
    BY <1>0, <2>1 DEF Drop, TypeOK, Read
  <2>3. TypeOK'
    BY <1>0, <2>1, <2>2 DEF TypeOK
  <2>4. WriterInv' /\ LogInv'
    BY <1>0, <2>1 DEF Free, WriterInv, LogInv
  <2>5. CacheInv'
    BY <1>0, <2>1, <2>2 DEF CacheInv
  <2>6. TokenInv'
    <3>1. Refused(log, sender.token) \/ sender.token = None
      BY <1>0, <2>1 DEF TokenInv, Refused
    <3> QED
      BY <1>0, <2>1, <3>1 DEF TokenInv
  <2> QED
    BY <2>1, <2>3, <2>4, <2>5, <2>6 DEF IdentityInv
<1> QED
  BY <1>1, <1>2, <1>3
----------------------------------------------------------------------------
(* The theorems.                                                           *)

\* Every step keeps the invariant, and says what it does to the identity.
LEMMA EveryStep ==
    ASSUME IdentityInv, Next
    PROVE  /\ IdentityInv'
           /\ Effective' # Effective =>
                 \/ writer.guard \/ clearing # "no"
                 \/ writer.pc = "put" /\ Effective = Absent
<1>1. CASE \E k \in Keys : PutStart(k)
  <2>1. PICK k \in Keys : PutStart(k)
    BY <1>1
  <2> QED
    BY <2>1, ChangeStep, ReadStep
<1>2. CASE \/ \E users \in Aliases : OtherStart(users)
           \/ DeleteStart \/ ClearStart
  BY <1>2, ChangeStep
<1>3. CASE ReadStart \/ ReadFetch \/ ReadInstall \/ ReadRaced \/ ReadLocked
  BY <1>3, ReadStep
<1>4. CASE \/ FlushCapture \/ FlushWrite \/ FlushConfirm
           \/ FlushDelete \/ FlushConfirmDelete \/ FlushFail
  BY <1>4, FlushStep
<1>5. CASE OtherEnd \/ Evict \/ ClearAfterFlush \/ ClearEnd
  BY <1>5, LeaveStep
<1>6. CASE TakeToken
  BY <1>6, TokenStep
<1>7. CASE PutEnd \/ DeleteEnd \/ ClearIdentities
  BY <1>7, IdentityStep
<1> QED
  BY <1>1, <1>2, <1>3, <1>4, <1>5, <1>6, <1>7 DEF Next

\* The journal stays in order, no change under way is missed by a token in use
\* or taken now, and every clean cached identity is the stored one, through
\* any interleaving of reads, writes, flushes, evictions and clears.
THEOREM IdentityInvariance == Spec => []IdentityInv
<1>1. Init => IdentityInv
  <2> SUFFICES ASSUME Init
               PROVE  IdentityInv
    OBVIOUS
  <2>1. TypeOK
    <3>1. log \in Log
      <4>1. PICK g \in {0, MAX_GENERATION} :
               log = [generation |-> g, floor |-> 0, since |-> 0, users |-> <<>>]
        BY DEF Init
      <4>2. g \in Generation /\ 0 \in Generation /\ <<>> \in Seq(Mark)
        BY DEF Generation
      <4> QED
        BY <4>1, <4>2 DEF Log
    <3>2. entry \in Identity \cup {Cold} /\ row \in Identity
      BY DEF Init
    <3>3. read \in Read /\ flush \in Flush /\ writer \in Writer
      BY DEF Init, Identity, IdleRead, Read, IdleFlush, Flush, IdleWriter, Writer
    <3>4. sender \in Sender
      BY DEF Init, Identity, Sender, Generation
    <3> QED
      BY <3>1, <3>2, <3>3, <3>4 DEF Init, TypeOK
  <2>2. /\ log.generation \in Nat /\ log.floor = 0 /\ log.since = 0 /\ Len(log.users) = 0
    BY DEF Init
  <2>3. LogInv
    BY <2>2 DEF LogInv
  <2>4. TokenInv
    BY DEF Init, TokenInv, IdleWriter
  <2>5. WriterInv /\ CacheInv
    BY DEF Init, WriterInv, CacheInv, IdleWriter, IdleFlush, IdleRead
  <2> QED
    BY <2>1, <2>3, <2>4, <2>5 DEF IdentityInv
<1>2. IdentityInv /\ [Next]_vars => IdentityInv'
  <2>1. IdentityInv /\ Next => IdentityInv'
    BY EveryStep
  <2>2. ASSUME IdentityInv, UNCHANGED vars
        PROVE  IdentityInv'
    <3>1. UNCHANGED <<log, entry, dirty, deleted, row, read, flush, writer, clearing, other, sender>>
      BY <2>2 DEF vars, cache
    <3>2. TypeOK'
      BY <2>2, <3>1 DEF IdentityInv, TypeOK
    <3>3. LogInv'
      BY <2>2, <3>1 DEF IdentityInv, LogInv
    <3>4. TokenInv'
      BY <2>2, <3>1 DEF IdentityInv, TokenInv, Effective
    <3>5. WriterInv'
      BY <2>2, <3>1 DEF IdentityInv, WriterInv
    <3>6. CacheInv'
      BY <2>2, <3>1 DEF IdentityInv, CacheInv
    <3> QED
      BY <3>2, <3>3, <3>4, <3>5, <3>6 DEF IdentityInv
  <2> QED
    BY <2>1, <2>2
<1> QED
  BY <1>1, <1>2, PTL DEF Spec

\* A refused token does not vouch for the peer.  The journal is in order, so
\* the walk back from its end does not stop before the peer's change.
LEMMA RefusedIsRefused ==
    ASSUME IdentityInv, NEW t \in Nat, Refused(log, t)
    PROVE  ~UnchangedFor(t, Peer)
<1>1. /\ log.floor \in Nat /\ Len(log.users) \in Nat
  BY LogTypes
<1>2. CASE log.generation = MAX_GENERATION \/ t < log.floor
  <2>1. CASE log.generation = MAX_GENERATION
    BY <2>1, Zenon DEF UnchangedFor
  <2>2. CASE t < log.floor
    <3>1. ~(t >= log.floor)
      BY <1>1, <2>2
    <3> QED
      BY <3>1, Zenon DEF UnchangedFor
  <2> QED
    BY <1>2, <2>1, <2>2
<1>3. ASSUME NEW i \in 1 .. Len(log.users), log.users[i][1] > t,
             log.users[i][2] = Fingerprint[Peer]
      PROVE  ~UnchangedFor(t, Peer)
  <2>1. \A j \in i .. Len(log.users) : log.users[j][1] > t
    <3> SUFFICES ASSUME NEW j \in i .. Len(log.users)
                 PROVE  log.users[j][1] > t
      OBVIOUS
    <3>1. j \in 1 .. Len(log.users)
      BY <1>1
    <3>2. log.users[i][1] \in Nat /\ log.users[j][1] \in Nat /\ log.users[i][1] <= log.users[j][1]
      BY <3>1, LogMarks
    <3> QED
      BY <1>3, <3>2
  <2> QED
    BY <1>3, <2>1 DEF UnchangedFor
<1> QED
  BY <1>2, <1>3 DEF Refused

\* unchanged_for never vouches for a peer whose identity was replaced or
\* removed since the snapshot.
THEOREM TokensAreRight == Spec => []IdentityUnchanged
<1>1. IdentityInv => IdentityUnchanged
  <2> SUFFICES ASSUME IdentityInv, sender.at \notin {Absent, Effective}
               PROVE  ~UnchangedFor(sender.token, Peer)
    BY DEF IdentityUnchanged
  <2>1. Refused(log, sender.token) \/ sender.token = None
    BY DEF IdentityInv, TokenInv
  <2>2. sender.token = None => ~UnchangedFor(sender.token, Peer)
    BY DEF UnchangedFor
  <2>3. sender.token \in Nat
    BY LogTypes
  <2> QED
    BY <2>1, <2>2, <2>3, RefusedIsRefused
<1> QED
  BY <1>1, IdentityInvariance, PTL

\* Whatever get_identity answers differently was journaled, or is the first
\* identity of the address: no read, flush, eviction or clear_after_flush
\* brings a superseded identity back.
THEOREM NoSilentChange == Spec => ChangesJournaled
<1>1. IdentityInv /\ [Next]_vars =>
         [Effective' # Effective =>
             \/ writer.guard \/ clearing # "no"
             \/ writer.pc = "put" /\ Effective = Absent]_vars
  BY EveryStep
<1> QED
  BY <1>1, IdentityInvariance, PTL DEF Spec, ChangesJournaled
=============================================================================
