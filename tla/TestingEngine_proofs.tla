------------------------ MODULE TestingEngine_proofs ------------------------
(***************************************************************************)
(* Theorems about TestingEngine, for any number of clients, URLs, scopes,  *)
(* calls and rates, and any limits: no limit is exceeded and no rate of    *)
(* one a second or more, credentials stay with their origin, and active    *)
(* testing and fuzzing have a human behind them.                           *)
(***************************************************************************)
EXTENDS TestingEngine, FiniteSetTheorems, SequenceTheorems, TLAPS

-----------------------------------------------------------------------------
(* The rate limiter's times                                                *)

Sorted(s) == \A i, j \in DOMAIN s : i <= j => s[i] <= s[j]

\* Of the times in s that are still in the window at now, t has as many, and
\* none of those is earlier than its counterpart in s: the two are compared
\* from their ends.
Remembers(t, s, now) ==
  \A j \in DOMAIN s :
    now - s[j] < Window => /\ Len(t) - (Len(s) - j) >= 1
                           /\ t[Len(t) - (Len(s) - j)] >= s[j]

\* What is no earlier than a time in the window is in the window.
LEMMA InWindow ==
  ASSUME NEW now \in Nat, NEW window \in Nat, NEW a \in Nat, NEW b \in Nat,
         now - a < window, b >= a
  PROVE  now - b < window /\ ~ (now - b >= window)
  OBVIOUS

\* What comes no earlier than something later is later.
LEMMA NotEarlier ==
  \A a, b, c \in Nat : b <= c /\ b >= a => c >= a
  OBVIOUS

\* A counter below its limit may count one more; one more to come may come.
LEMMA OneMore ==
  /\ \A a, b \in Nat : a < b => a + 1 <= b
  /\ \A a, b, c \in Nat : a + b <= c => a + 1 + b <= c + 1
  /\ \A a, b, c \in Nat : a + b <= c + 1 => a + (b - 1) <= c
  OBVIOUS

\* A set of numbers from 0 to a bound has one whose successor it does not have.
LEMMA Ends ==
  ASSUME NEW n \in Nat, NEW S \in SUBSET (0 .. n), 0 \in S
  PROVE  \E i \in S : i + 1 \notin S
<1> SUFFICES ASSUME \A i \in S : i + 1 \in S
             PROVE  FALSE
  OBVIOUS
<1> DEFINE next == [i \in S |-> i + 1]
<1>1. IsFiniteSet(S)
  <2>1. 0 \in Int /\ n \in Int
    OBVIOUS
  <2>2. IsFiniteSet(0 .. n)
    BY <2>1, FS_Interval
  <2>3. QED
    BY <2>2, FS_Subset
<1>2. next \in Injection(S, S)
  <2>1. next \in [S -> S]
    OBVIOUS
  <2>2. \A i, j \in S : next[i] = next[j] => i = j
    OBVIOUS
  <2>3. QED
    BY <2>1, <2>2 DEF Injection, IsInjective
<1>3. next \in Surjection(S, S)
  <2> HIDE DEF next
  <2>1. QED
    BY <1>1, <1>2, FS_Injection
<1>4. \E i \in S : next[i] = 0
  <2> HIDE DEF next
  <2>1. QED
    BY <1>3 DEF Surjection
<1>5. QED
  BY <1>4

\* What the limiter keeps of its times is an end of them, and what it drops
\* has left the window.
LEMMA Pruned ==
  ASSUME clock \in Nat, times \in Seq(0 .. clock)
  PROVE  \E dropped \in 0 .. Len(times) :
           /\ \A j \in 1 .. dropped : clock - times[j] >= Window
           /\ Recent \in Seq(0 .. clock)
           /\ Len(Recent) = Len(times) - dropped
           /\ \A i \in 1 .. Len(Recent) : Recent[i] = times[dropped + i]
<1> DEFINE dropped == CHOOSE i \in Gone : i + 1 \notin Gone
<1>1. Len(times) \in Nat
  BY LenProperties
<1>2. 0 \in Gone /\ Gone \in SUBSET (0 .. Len(times))
  BY <1>1 DEF Gone
<1>3. \E i \in Gone : i + 1 \notin Gone
  BY <1>1, <1>2, Ends
<1>4. dropped \in Gone
  BY <1>3
<1>5. dropped \in 0 .. Len(times) /\ \A j \in 1 .. dropped : clock - times[j] >= Window
  <2> HIDE DEF dropped
  <2>1. QED
    BY <1>4 DEF Gone
<1>6. Recent = SubSeq(times, dropped + 1, Len(times))
  BY DEF Recent
<1> HIDE DEF dropped
<1>7. \A i \in dropped + 1 .. Len(times) : times[i] \in 0 .. clock
  BY <1>1, <1>5, ElementOfSeq
<1>8. /\ Recent \in Seq(0 .. clock)
      /\ Len(Recent) = IF dropped + 1 <= Len(times) THEN Len(times) - (dropped + 1) + 1 ELSE 0
      /\ \A i \in 1 .. Len(times) - (dropped + 1) + 1 : Recent[i] = times[dropped + 1 + i - 1]
  <2>1. dropped + 1 \in Int /\ Len(times) \in Int
    BY <1>1, <1>5
  <2>2. QED
    BY <1>6, <1>7, <2>1, SubSeqProperties
<1>9. Len(Recent) = Len(times) - dropped
  <2>1. CASE dropped + 1 <= Len(times)
    BY <1>1, <1>5, <1>8, <2>1
  <2>2. CASE ~ (dropped + 1 <= Len(times))
    <3>1. dropped = Len(times)
      BY <1>1, <1>5, <2>2
    <3>2. QED
      BY <1>1, <1>8, <2>2, <3>1
  <2>3. QED
    BY <2>1, <2>2
<1>10. ASSUME NEW i \in 1 .. Len(Recent)
       PROVE  Recent[i] = times[dropped + i]
  <2>1. i \in 1 .. Len(times) - (dropped + 1) + 1 /\ dropped + 1 + i - 1 = dropped + i
    BY <1>1, <1>5, <1>9
  <2>2. QED
    BY <1>8, <2>1
<1>11. QED
  BY <1>5, <1>8, <1>9, <1>10

\* The times that are kept are in order.
LEMMA RecentIsSorted ==
  ASSUME clock \in Nat, times \in Seq(0 .. clock), Sorted(times)
  PROVE  Sorted(Recent)
<1>1. PICK dropped \in 0 .. Len(times) :
        /\ Recent \in Seq(0 .. clock)
        /\ Len(Recent) = Len(times) - dropped
        /\ \A i \in 1 .. Len(Recent) : Recent[i] = times[dropped + i]
  BY Pruned
<1>2. /\ Len(times) \in Nat /\ DOMAIN times = 1 .. Len(times)
      /\ Len(Recent) \in Nat /\ DOMAIN Recent = 1 .. Len(Recent)
  <2>1. Len(times) \in Nat /\ DOMAIN times = 1 .. Len(times)
    BY LenProperties
  <2>2. Len(Recent) \in Nat /\ DOMAIN Recent = 1 .. Len(Recent)
    BY <1>1, LenProperties
  <2>3. QED
    BY <2>1, <2>2
<1>3. SUFFICES ASSUME NEW i \in 1 .. Len(Recent), NEW j \in 1 .. Len(Recent), i <= j
               PROVE  Recent[i] <= Recent[j]
  BY <1>2 DEF Sorted
<1>4. dropped + i \in DOMAIN times /\ dropped + j \in DOMAIN times /\ dropped + i <= dropped + j
  <2>1. dropped \in Nat /\ i \in Nat /\ j \in Nat /\ Len(Recent) = Len(times) - dropped
    BY <1>1, <1>2
  <2>2. 1 <= i /\ i <= j /\ j <= Len(Recent)
    BY <1>2, <1>3
  <2>3. dropped + i \in 1 .. Len(times) /\ dropped + j \in 1 .. Len(times) /\ dropped + i <= dropped + j
    BY <1>2, <2>1, <2>2
  <2>4. QED
    BY <1>2, <2>3
<1>5. times[dropped + i] <= times[dropped + j]
  BY <1>4 DEF Sorted
<1>6. QED
  BY <1>1, <1>5

\* A time that is now comes last.
LEMMA AppendIsSorted ==
  ASSUME NEW now \in Nat, NEW s \in Seq(0 .. now), Sorted(s)
  PROVE  Sorted(Append(s, now)) /\ Append(s, now) \in Seq(0 .. now) /\ Len(Append(s, now)) = Len(s) + 1
<1> DEFINE s1 == Append(s, now)
<1>1. /\ Len(s) \in Nat /\ DOMAIN s = 1 .. Len(s) /\ \A i \in 1 .. Len(s) : s[i] \in 0 .. now
  BY LenProperties, ElementOfSeq
<1>2. /\ s1 \in Seq(0 .. now) /\ Len(s1) = Len(s) + 1
      /\ \A i \in 1 .. Len(s) : s1[i] = s[i]
      /\ s1[Len(s) + 1] = now
  <2>1. now \in 0 .. now
    OBVIOUS
  <2>2. QED
    BY <2>1, AppendProperties
<1> HIDE DEF s1
<1>3. DOMAIN s1 = 1 .. Len(s) + 1
  BY <1>2, LenProperties
<1>4. ASSUME NEW i \in 1 .. Len(s) + 1, NEW j \in 1 .. Len(s) + 1, i <= j
      PROVE  s1[i] <= s1[j]
  <2>1. CASE j = Len(s) + 1
    <3>1. s1[i] \in 0 .. now
      BY <1>1, <1>2
    <3>2. QED
      BY <1>2, <2>1, <3>1
  <2>2. CASE j # Len(s) + 1
    <3>1. i \in 1 .. Len(s) /\ j \in 1 .. Len(s)
      BY <1>1, <1>4, <2>2
    <3>2. s[i] <= s[j]
      BY <1>1, <1>4, <3>1 DEF Sorted
    <3>3. QED
      BY <1>2, <3>1, <3>2
  <2>3. QED
    BY <2>1, <2>2
<1>5. Sorted(s1)
  BY <1>3, <1>4 DEF Sorted
<1>6. QED
  BY <1>2, <1>5 DEF s1

\* Pruning forgets nothing that is still in the window.
LEMMA RecentRemembers ==
  ASSUME Window \in Nat, clock \in Nat, times \in Seq(0 .. clock),
         NEW s \in Seq(0 .. clock), Remembers(times, s, clock)
  PROVE  Remembers(Recent, s, clock)
<1>1. PICK dropped \in 0 .. Len(times) :
        /\ \A j \in 1 .. dropped : clock - times[j] >= Window
        /\ Recent \in Seq(0 .. clock)
        /\ Len(Recent) = Len(times) - dropped
        /\ \A i \in 1 .. Len(Recent) : Recent[i] = times[dropped + i]
  BY Pruned
<1>2. /\ Len(times) \in Nat /\ Len(s) \in Nat /\ DOMAIN s = 1 .. Len(s) /\ dropped \in Nat
  <2>1. Len(times) \in Nat
    BY LenProperties
  <2>2. Len(s) \in Nat /\ DOMAIN s = 1 .. Len(s)
    BY LenProperties
  <2>3. QED
    BY <1>1, <2>1, <2>2
<1>3. SUFFICES ASSUME NEW j \in 1 .. Len(s), clock - s[j] < Window
               PROVE  /\ Len(Recent) - (Len(s) - j) >= 1
                      /\ Recent[Len(Recent) - (Len(s) - j)] >= s[j]
  BY <1>2 DEF Remembers
<1> DEFINE k == Len(times) - (Len(s) - j)
<1>4. k >= 1 /\ times[k] >= s[j]
  BY <1>2, <1>3 DEF Remembers
<1>5. k \in 1 .. Len(times)
  BY <1>2, <1>4
<1>6. s[j] \in Nat /\ times[k] \in Nat
  <2> HIDE DEF k
  <2>1. s[j] \in 0 .. clock
    BY ElementOfSeq
  <2>2. times[k] \in 0 .. clock
    BY <1>5, ElementOfSeq
  <2>3. QED
    BY <2>1, <2>2
<1>7. k > dropped
  <2>1. SUFFICES ASSUME k \in 1 .. dropped
                 PROVE  FALSE
    BY <1>2, <1>5
  <2> HIDE DEF k
  <2>2. clock - times[k] >= Window
    BY <1>1, <2>1
  <2>3. times[k] >= s[j]
    BY <1>4
  <2>4. QED
    BY <1>3, <1>6, <2>2, <2>3, InWindow
<1>8. /\ Len(Recent) - (Len(s) - j) = k - dropped
      /\ k - dropped \in 1 .. Len(Recent)
      /\ dropped + (k - dropped) = k
  <2>1. Len(Recent) = Len(times) - dropped
    BY <1>1
  <2>2. QED
    BY <1>2, <1>5, <1>7, <2>1
<1>9. Recent[k - dropped] = times[k]
  <2> HIDE DEF k
  <2>1. QED
    BY <1>1, <1>8
<1>10. k - dropped >= 1
  BY <1>2, <1>7
<1> HIDE DEF k
<1>11. QED
  BY <1>4, <1>8, <1>9, <1>10

\* The limiter counts the request that is sent.
LEMMA SentIsRemembered ==
  ASSUME NEW now \in Nat, NEW t \in Seq(0 .. now), NEW s \in Seq(0 .. now),
         Remembers(t, s, now)
  PROVE  Remembers(Append(t, now), Append(s, now), now)
<1> DEFINE t1 == Append(t, now)
           s1 == Append(s, now)
<1>1. now \in 0 .. now
  OBVIOUS
<1>2. /\ Len(t) \in Nat /\ Len(t1) = Len(t) + 1
      /\ \A i \in 1 .. Len(t) : t1[i] = t[i]
      /\ t1[Len(t) + 1] = now
  BY <1>1, LenProperties, AppendProperties
<1>3. /\ Len(s) \in Nat /\ DOMAIN s = 1 .. Len(s) /\ Len(s1) = Len(s) + 1
      /\ \A i \in 1 .. Len(s) : s1[i] = s[i]
      /\ s1[Len(s) + 1] = now
      /\ DOMAIN s1 = 1 .. Len(s) + 1
  <2>1. s1 \in Seq(0 .. now)
    BY <1>1, AppendProperties
  <2>2. Len(s1) = Len(s) + 1
    BY <1>1, AppendProperties
  <2>3. DOMAIN s1 = 1 .. Len(s) + 1
    BY <2>1, <2>2, LenProperties
  <2>4. QED
    BY <1>1, <2>2, <2>3, LenProperties, AppendProperties
<1> HIDE DEF t1, s1
<1>4. SUFFICES ASSUME NEW j \in 1 .. Len(s) + 1, now - s1[j] < Window
               PROVE  /\ Len(t1) - (Len(s1) - j) >= 1
                      /\ t1[Len(t1) - (Len(s1) - j)] >= s1[j]
  BY <1>3 DEF Remembers, t1, s1
<1>5. Len(t1) - (Len(s1) - j) = Len(t) - (Len(s) - j)
  BY <1>2, <1>3
<1>6. CASE j = Len(s) + 1
  <2>1. Len(t) - (Len(s) - j) = Len(t) + 1
    BY <1>2, <1>3, <1>6
  <2>2. s1[j] = now /\ t1[Len(t1) - (Len(s1) - j)] = now
    BY <1>2, <1>3, <1>5, <1>6, <2>1
  <2>3. now >= now /\ Len(t) + 1 >= 1
    BY <1>2
  <2>4. QED
    BY <1>5, <2>1, <2>2, <2>3
<1>7. CASE j # Len(s) + 1
  <2>1. j \in 1 .. Len(s)
    BY <1>3, <1>7
  <2>2. s1[j] = s[j]
    BY <1>3, <2>1
  <2>3. Len(t) - (Len(s) - j) >= 1 /\ t[Len(t) - (Len(s) - j)] >= s[j]
    BY <1>3, <1>4, <2>1, <2>2 DEF Remembers
  <2>4. Len(t) - (Len(s) - j) \in 1 .. Len(t)
    BY <1>2, <1>3, <2>1, <2>3
  <2>5. t1[Len(t) - (Len(s) - j)] = t[Len(t) - (Len(s) - j)]
    BY <1>2, <2>4
  <2>6. QED
    BY <1>5, <2>2, <2>3, <2>5
<1>8. QED
  BY <1>6, <1>7

\* Nor is anything forgotten when it counts one that is not sent.
LEMMA UnsentForgetsNothing ==
  ASSUME NEW now \in Nat, NEW t \in Seq(0 .. now), NEW s \in Seq(0 .. now),
         Sorted(t), Remembers(t, s, now)
  PROVE  Remembers(Append(t, now), s, now)
<1> DEFINE t1 == Append(t, now)
<1>1. now \in 0 .. now
  OBVIOUS
<1>2. /\ Len(t) \in Nat /\ DOMAIN t = 1 .. Len(t) /\ Len(t1) = Len(t) + 1
      /\ \A i \in 1 .. Len(t) : t1[i] = t[i]
      /\ t1[Len(t) + 1] = now
  BY <1>1, LenProperties, AppendProperties
<1>3. Len(s) \in Nat /\ DOMAIN s = 1 .. Len(s)
  BY LenProperties
<1> HIDE DEF t1
<1>4. SUFFICES ASSUME NEW j \in 1 .. Len(s), now - s[j] < Window
               PROVE  /\ Len(t1) - (Len(s) - j) >= 1
                      /\ t1[Len(t1) - (Len(s) - j)] >= s[j]
  BY <1>3 DEF Remembers, t1
<1> DEFINE k == Len(t) - (Len(s) - j)
<1>5. k >= 1 /\ t[k] >= s[j]
  BY <1>3, <1>4 DEF Remembers
<1>6. k \in 1 .. Len(t) /\ Len(t1) - (Len(s) - j) = k + 1
  BY <1>2, <1>3, <1>5
<1>7. k + 1 >= 1
  BY <1>6
<1> HIDE DEF k
<1>8. s[j] \in 0 .. now /\ t[k] \in 0 .. now
  BY <1>6, ElementOfSeq
<1>9. t1[k + 1] >= s[j]
  <2>1. CASE k = Len(t)
    <3>1. t1[k + 1] = now
      BY <1>2, <2>1
    <3>2. QED
      BY <1>8, <3>1
  <2>2. CASE k # Len(t)
    <3>1. k + 1 \in 1 .. Len(t) /\ k \in 1 .. Len(t) /\ k <= k + 1
      <4>1. Len(t) \in Nat /\ k \in 1 .. Len(t)
        BY <1>2, <1>6
      <4>2. QED
        BY <2>2, <4>1
    <3>2. t[k] <= t[k + 1]
      BY <1>2, <3>1 DEF Sorted
    <3>3. t1[k + 1] = t[k + 1] /\ t[k + 1] \in 0 .. now
      BY <1>2, <3>1, ElementOfSeq
    <3>4. t[k] >= s[j]
      BY <1>5
    <3>5. t[k + 1] >= s[j]
      <4>1. s[j] \in Nat /\ t[k] \in Nat /\ t[k + 1] \in Nat
        <5>1. \A a \in 0 .. now : a \in Nat
          OBVIOUS
        <5>2. QED
          BY <1>8, <3>3, <5>1, Zenon
      <4>2. QED
        BY <3>2, <3>4, <4>1, NotEarlier, Zenon
    <3>6. QED
      BY <3>3, <3>5
  <2>3. QED
    BY <2>1, <2>2
<1>10. QED
  BY <1>6, <1>7, <1>9

\* Time passes: less is in the window.
LEMMA RemembersLater ==
  ASSUME Window \in Nat, NEW now \in Nat, NEW t, NEW s \in Seq(0 .. now), Remembers(t, s, now)
  PROVE  Remembers(t, s, now + 1)
<1>1. SUFFICES ASSUME NEW j \in DOMAIN s, now + 1 - s[j] < Window
               PROVE  now - s[j] < Window
  BY DEF Remembers
<1>2. s[j] \in Nat
  <2>1. j \in 1 .. Len(s)
    BY LenProperties
  <2>2. s[j] \in 0 .. now
    BY <2>1, ElementOfSeq
  <2>3. QED
    BY <2>2
<1>3. QED
  BY <1>1, <1>2

\* Times stay in the past when the clock goes on.
LEMMA LaterTimes ==
  ASSUME NEW now \in Nat, NEW s \in Seq(0 .. now)
  PROVE  s \in Seq(0 .. now + 1)
<1>1. 0 .. now \subseteq 0 .. now + 1
  OBVIOUS
<1>2. QED
  BY <1>1, SeqMonotonic

\* What the limiter lets through keeps a rate of one a second or more: the
\* request that is a rate's length before the new one has left the window, or
\* the limiter would remember it and all after it.
LEMMA RateKept ==
  ASSUME Window \in Nat, Rates \subseteq Rate, rate \in Rates, clock \in Nat,
         NEW s \in Seq(0 .. clock), Recent \in Seq(0 .. clock), Remembers(Recent, s, clock),
         Sorted(s), RateOk, rate.gap = 0,
         NEW i \in 1 .. Len(s), i + rate.perSecond = Len(s) + 1
  PROVE  clock - s[i] >= Window
<1>1. rate.perSecond \in Nat \ {0}
  BY DEF Rate
<1>2. /\ Len(s) \in Nat /\ DOMAIN s = 1 .. Len(s)
      /\ Len(Recent) \in Nat /\ DOMAIN Recent = 1 .. Len(Recent)
  <2>1. Len(s) \in Nat /\ DOMAIN s = 1 .. Len(s)
    BY LenProperties
  <2>2. Len(Recent) \in Nat /\ DOMAIN Recent = 1 .. Len(Recent)
    BY LenProperties
  <2>3. QED
    BY <2>1, <2>2
<1>3. s[i] \in 0 .. clock
  BY ElementOfSeq
<1>4. SUFFICES ASSUME clock - s[i] < Window
               PROVE  FALSE
  BY <1>3
<1> DEFINE k == Len(Recent) - (Len(s) - i)
<1>5. k >= 1 /\ Recent[k] >= s[i]
  BY <1>2, <1>4 DEF Remembers
<1>6. k \in 1 .. Len(Recent) /\ Len(Recent) >= rate.perSecond
  BY SMTT(20), <1>1, <1>2, <1>5
<1> HIDE DEF k
<1>7. QED
  BY SMTT(20), <1>1, <1>2, <1>6 DEF RateOk

-----------------------------------------------------------------------------
(* The ends of an attempt                                                  *)

Passed(c) == Authorized(clients[c].call, clients[c].url, clients[c].sends = 0) /\ Safe(clients[c].url)

Ended(c) ==
  /\ clients[c].pc = "hop"
  /\ clients' = [clients EXCEPT ![c] = IdleClient]
  /\ UNCHANGED <<session, authority, clock, safety, sentAt>>

Denied(c) == Ended(c) /\ UNCHANGED <<times, hop>>
Described(c) == Ended(c) /\ Passed(c) /\ hop' = Hop(c) /\ times' = times
Unpinned(c) == Ended(c) /\ times' = Append(Recent, clock) /\ hop' = hop
Sent(c) ==
  /\ clients[c].pc = "hop" /\ Passed(c) /\ RateOk
  /\ clients' = [clients EXCEPT ![c].pc = "waiting", ![c].sends = @ + 1]
  /\ safety' = [count |-> safety.count + 1, inFlight |-> safety.inFlight + 1,
                targets |-> safety.targets \union {clients[c].url}]
  /\ times' = Append(Recent, clock) /\ sentAt' = Append(sentAt, clock) /\ hop' = Hop(c)
  /\ UNCHANGED <<session, authority, clock>>

\* An attempt is denied, only described, not pinned, or sent.
LEMMA AttemptEnds ==
  ASSUME NEW c \in Clients, Attempt(c)
  PROVE  Denied(c) \/ Described(c) \/ Unpinned(c) \/ Sent(c)
BY DEF Attempt, Denied, Described, Unpinned, Sent, Ended, Passed

-----------------------------------------------------------------------------
(* Types                                                                   *)

Client == [pc : {"idle", "hop", "waiting"}, call : Calls \union {NoCall},
           url : Urls \union {"none"}, credentials : BOOLEAN,
           left : Nat, seen : SUBSET Urls, sends : Nat]
Busy(cl) == cl.call \in Calls /\ cl.url \in Urls
HopType == [url : Urls, first : Urls, use : Uses, credentials : BOOLEAN,
            rev : 0 .. Len(Scopes), process : Nat]

\* What is assumed of the constants.
LEMMA Constants ==
  /\ Window \in Nat /\ Len(Scopes) \in Nat \ {0} /\ DOMAIN Scopes = 1 .. Len(Scopes)
  /\ Calls \subseteq Call /\ Rates \subseteq Rate
  /\ Kinds \subseteq {"agent_live", "agent_lab", "api_live"}
  /\ Defaults \in Limits /\ LabLimits \in Limits
  /\ IsFiniteSet(Clients) /\ IsFiniteSet(Urls)
<1>1. Len(Scopes) \in Nat \ {0} /\ DOMAIN Scopes = 1 .. Len(Scopes)
  BY TestingAssumption, LenProperties, EmptySeq
<1>2. QED
  BY <1>1, TestingAssumption

\* The fields of a call.
LEMMA CallTypes ==
  ASSUME NEW call \in Calls
  PROVE  call.url \in Urls /\ call.use \in Uses /\ call.credentials \in BOOLEAN /\ call.follow \in BOOLEAN
BY Constants DEF Call

\* A client without a call.
LEMMA IdleClientTypes == IdleClient \in Client /\ IdleClient.pc = "idle"
BY DEF IdleClient, Client

\* A step that changes one client.
LEMMA OneClientTypes ==
  ASSUME TypeOK, NEW c \in Clients, NEW cl \in Client, cl.pc # "idle" => Busy(cl),
         clients' = [clients EXCEPT ![c] = cl]
  PROVE  /\ clients' \in [Clients -> Client]
         /\ \A d \in Clients : clients'[d].pc # "idle" => Busy(clients'[d])
         /\ clients'[c] = cl /\ \A d \in Clients \ {c} : clients'[d] = clients[d]
BY DEF TypeOK, Client, Busy

\* An engine that is built.
LEMMA NewEngineTypes ==
  ASSUME NEW active \in BOOLEAN, NEW dryRun \in BOOLEAN
  PROVE  NewEngine(active, dryRun) \in Engine
<1>1. (IF Live THEN 1 ELSE 0) \in 0 .. Len(Scopes)
  BY Constants
<1>2. (IF kind = "agent_lab" THEN LabLimits ELSE Defaults) \in Limits
  BY Constants
<1>3. QED
  BY <1>1, <1>2 DEF NewEngine, Engine

\* What is stored of an engine is a snapshot.
LEMMA CapturedTypes ==
  ASSUME NEW e \in Engine
  PROVE  Captured(e) \in Snapshot
BY DEF Captured, Snapshot, Engine, Limits

\* What is rebuilt from a snapshot is an engine.
LEMMA RestoredEngineTypes ==
  ASSUME stored \in Snapshot, program \in DOMAIN Scopes, NEW keeps, NEW downgraded \in BOOLEAN
  PROVE  RestoredEngine(keeps, downgraded) \in Engine
<1>1. RestoredLimits \in Limits
  BY Constants DEF RestoredLimits, Limits, Snapshot
<1>2. (IF Live THEN program ELSE 0) \in 0 .. Len(Scopes)
  BY Constants
<1>3. [k \in Approvals |-> IF k \in keeps THEN stored.approvals[k] ELSE 0] \in [Approvals -> Nat]
  BY DEF Snapshot
<1>4. (stored.active /\ "enable_active_testing" \in keeps) \in BOOLEAN
  OBVIOUS
<1>5. (stored.fuzzing /\ "enable_fuzzing" \in keeps) \in BOOLEAN
  OBVIOUS
<1>6. (downgraded \/ stored.dryRun) \in BOOLEAN
  OBVIOUS
<1>7. QED
  BY <1>1, <1>2, <1>3, <1>4, <1>5, <1>6 DEF RestoredEngine, Engine

\* The next hop of a client that has a call.
LEMMA HopTypes ==
  ASSUME TypeOK, NEW c \in Clients, clients[c].pc # "idle"
  PROVE  Hop(c) \in HopType
<1>1. clients[c].call \in Calls /\ clients[c].url \in Urls /\ clients[c].credentials \in BOOLEAN
  BY DEF TypeOK
<1>2. engine.rev \in 0 .. Len(Scopes) /\ restarts \in Nat
  BY DEF TypeOK, Engine
<1>3. QED
  BY <1>1, <1>2, CallTypes DEF Hop, HopType

\* The types when the process starts.
LEMMA InitTypes == Init => TypeOK
<1> SUFFICES ASSUME Init
             PROVE  TypeOK
  OBVIOUS
<1>1. kind \in {"agent_live", "agent_lab", "api_live"}
  BY Constants DEF Init
<1>2. engine \in Engine
  <2>1. PICK active \in BOOLEAN, dryRun \in BOOLEAN : engine = NewEngine(active, dryRun)
    BY <1>1 DEF Init, NewEngines
  <2>2. QED
    BY <2>1, NewEngineTypes
<1>3. stored \in Snapshot
  BY <1>2, CapturedTypes DEF Init
<1>4. times \in Seq(0 .. clock) /\ sentAt \in Seq(0 .. clock)
  BY EmptySeq DEF Init
<1>5. clients \in [Clients -> Client] /\ \A c \in Clients : clients[c].pc = "idle"
  BY IdleClientTypes DEF Init
<1>6. program \in DOMAIN Scopes
  BY Constants DEF Init
<1>7. safety \in [count : Nat, inFlight : Nat, targets : SUBSET Urls]
  BY DEF Init, NewSafety
<1>8. clock \in Nat /\ grants \in Nat /\ aged \in 0 .. grants /\ restarts \in Nat /\ rescopes \in Nat
  BY DEF Init
<1>9. QED
  BY <1>2, <1>3, <1>4, <1>5, <1>6, <1>7, <1>8 DEF Init, TypeOK, Client

\* A call that begins is well typed,
LEMMA BeginTypes ==
  ASSUME TypeOK, NEW c \in Clients, Begin(c)
  PROVE  TypeOK'
<1>1. PICK call \in Calls :
        clients' = [clients EXCEPT ![c] =
          [pc |-> "hop", call |-> call, url |-> call.url, credentials |-> call.credentials,
           left |-> IF call.follow THEN engine.limits.redirects ELSE 0, seen |-> {}, sends |-> 0]]
  BY DEF Begin
<1> DEFINE left == IF call.follow THEN engine.limits.redirects ELSE 0
           cl == [pc |-> "hop", call |-> call, url |-> call.url, credentials |-> call.credentials,
                  left |-> left, seen |-> {}, sends |-> 0]
<1>2. left \in Nat
  BY DEF TypeOK, Engine, Limits
<1>3. cl \in Client /\ Busy(cl)
  BY <1>2, CallTypes DEF Client, Busy
<1>4. clients' = [clients EXCEPT ![c] = cl]
  BY <1>1
<1> HIDE DEF cl
<1>5. clients' \in [Clients -> Client] /\ \A d \in Clients : clients'[d].pc # "idle" => Busy(clients'[d])
  BY <1>3, <1>4, OneClientTypes
<1>6. QED
  BY <1>5 DEF TypeOK, Client, Busy, Begin, session, authority

\* its attempt is,
LEMMA AttemptTypes ==
  ASSUME TypeOK, NEW c \in Clients, Attempt(c)
  PROVE  TypeOK'
<1>1. Recent \in Seq(0 .. clock) /\ clock \in 0 .. clock
  BY Pruned DEF TypeOK
<1>2. Append(Recent, clock) \in Seq(0 .. clock)
  BY <1>1, AppendProperties
<1>3. ASSUME Ended(c), times' \in Seq(0 .. clock), hop' \in {hop, Hop(c)}
      PROVE  TypeOK'
  <2>1. clients' \in [Clients -> Client] /\ \A d \in Clients : clients'[d].pc # "idle" => Busy(clients'[d])
    BY <1>3, IdleClientTypes, OneClientTypes DEF Ended
  <2>2. hop' \in HopType \union {NoHop}
    <3>1. hop \in HopType \union {NoHop} /\ clients[c].pc # "idle"
      BY <1>3 DEF Ended, TypeOK, HopType
    <3>2. Hop(c) \in HopType
      BY <3>1, HopTypes
    <3>3. QED
      BY <1>3, <3>1, <3>2
  <2>3. QED
    BY <1>3, <2>1, <2>2 DEF TypeOK, Client, Busy, Ended, session, authority, HopType
<1>4. CASE Denied(c)
  BY <1>3, <1>4 DEF Denied, TypeOK
<1>5. CASE Described(c)
  BY <1>3, <1>5 DEF Described, TypeOK
<1>6. CASE Unpinned(c)
  BY <1>2, <1>3, <1>6 DEF Unpinned
<1>7. CASE Sent(c)
  <2> DEFINE cl == [clients[c] EXCEPT !.pc = "waiting", !.sends = @ + 1]
  <2>1. clients[c] \in Client /\ Busy(clients[c]) /\ clients[c].pc # "idle"
    BY <1>7 DEF Sent, TypeOK, Client, Busy
  <2>2. cl \in Client /\ Busy(cl)
    <3>1. clients[c].sends + 1 \in Nat
      BY <2>1 DEF Client
    <3>2. QED
      BY <2>1, <3>1 DEF Client, Busy
  <2>3. clients' = [clients EXCEPT ![c] = cl]
    BY <1>7 DEF Sent
  <2> HIDE DEF cl
  <2>4. clients' \in [Clients -> Client] /\ \A d \in Clients : clients'[d].pc # "idle" => Busy(clients'[d])
    BY <2>2, <2>3, OneClientTypes
  <2>5. safety' \in [count : Nat, inFlight : Nat, targets : SUBSET Urls]
    <3>1. safety.count \in Nat /\ safety.inFlight \in Nat /\ safety.targets \subseteq Urls
      BY DEF TypeOK
    <3>2. safety.count + 1 \in Nat /\ safety.inFlight + 1 \in Nat
      BY <3>1
    <3>3. safety.targets \union {clients[c].url} \in SUBSET Urls
      BY <2>1, <3>1 DEF Busy
    <3>4. QED
      BY <1>7, <3>2, <3>3 DEF Sent
  <2>6. hop' \in HopType
    BY <1>7, <2>1, HopTypes DEF Sent
  <2>7. sentAt' \in Seq(0 .. clock) /\ times' \in Seq(0 .. clock)
    BY <1>1, <1>2, <1>7, AppendProperties DEF Sent, TypeOK
  <2>8. QED
    BY <1>7, <2>4, <2>5, <2>6, <2>7 DEF TypeOK, Client, Busy, Sent, session, authority, HopType
<1>8. QED
  BY <1>4, <1>5, <1>6, <1>7, AttemptEnds

\* and its response is.
LEMMA RespondTypes ==
  ASSUME TypeOK, NEW c \in Clients, Respond(c)
  PROVE  TypeOK'
<1>1. clients[c] \in Client /\ Busy(clients[c])
  BY DEF Respond, TypeOK, Client, Busy
<1>2. \E cl \in Client : (cl.pc # "idle" => Busy(cl)) /\ clients' = [clients EXCEPT ![c] = cl]
  <2>1. CASE clients' = [clients EXCEPT ![c] = IdleClient]
    BY <2>1, IdleClientTypes
  <2>2. CASE \E nxt \in Urls :
               /\ clients[c].left > 0
               /\ clients' = [clients EXCEPT ![c] =
                    [clients[c] EXCEPT !.pc = "hop", !.url = nxt, !.seen = @ \union {clients[c].url},
                                       !.left = @ - 1, !.credentials = Headers(clients[c], nxt)]]
    <3>1. PICK nxt \in Urls :
               /\ clients[c].left > 0
               /\ clients' = [clients EXCEPT ![c] =
                    [clients[c] EXCEPT !.pc = "hop", !.url = nxt, !.seen = @ \union {clients[c].url},
                                       !.left = @ - 1, !.credentials = Headers(clients[c], nxt)]]
      BY <2>2
    <3>2. clients[c].left - 1 \in Nat
      BY <1>1, <3>1 DEF Client
    <3>3. Headers(clients[c], nxt) \in BOOLEAN
      BY DEF Headers
    <3> DEFINE cl == [clients[c] EXCEPT !.pc = "hop", !.url = nxt, !.seen = @ \union {clients[c].url},
                                       !.left = @ - 1, !.credentials = Headers(clients[c], nxt)]
    <3>4. cl \in Client /\ Busy(cl)
      BY <1>1, <3>2, <3>3 DEF Client, Busy
    <3>5. QED
      BY <3>1, <3>4
  <2>3. QED
    BY <2>1, <2>2 DEF Respond
<1>3. clients' \in [Clients -> Client] /\ \A d \in Clients : clients'[d].pc # "idle" => Busy(clients'[d])
  BY <1>2, OneClientTypes
<1>4. safety' \in [count : Nat, inFlight : Nat, targets : SUBSET Urls]
  <2> DEFINE n == IF safety.inFlight > 0 THEN safety.inFlight - 1 ELSE safety.inFlight
  <2>1. safety \in [count : Nat, inFlight : Nat, targets : SUBSET Urls]
    BY DEF TypeOK
  <2>2. n \in Nat
    BY <2>1
  <2>3. safety' = [safety EXCEPT !.inFlight = n]
    BY DEF Respond
  <2> HIDE DEF n
  <2>4. QED
    BY <2>1, <2>2, <2>3
<1>5. QED
  BY <1>3, <1>4 DEF TypeOK, Client, Busy, Respond, session, authority

\* A grant is well typed,
LEMMA GrantTypes ==
  ASSUME TypeOK, NEW k \in Approvals, Grant(k)
  PROVE  TypeOK'
<1>1. grants + 1 \in Nat /\ aged \in 0 .. grants + 1 /\ grants' = grants + 1
  BY DEF TypeOK, Grant
<1>2. engine' \in Engine
  <2>1. engine' = [engine EXCEPT !.approvals = [@ EXCEPT ![k] = grants + 1],
                                 !.active = @ \/ k = "enable_active_testing",
                                 !.allow = @ \/ k = "enable_active_testing",
                                 !.fuzzing = @ \/ k = "enable_fuzzing"]
    BY DEF Grant
  <2>2. [engine.approvals EXCEPT ![k] = grants + 1] \in [Approvals -> Nat]
    BY <1>1 DEF TypeOK, Engine
  <2>3. QED
    BY <2>1, <2>2 DEF TypeOK, Engine
<1>3. licensed' \subseteq Approvals \X (0 .. Len(Scopes)) \X Nat \X Nat
  <2>1. engine.rev \in 0 .. Len(Scopes) /\ restarts \in Nat
    BY DEF TypeOK, Engine
  <2>2. <<k, engine.rev, restarts, grants + 1>> \in Approvals \X (0 .. Len(Scopes)) \X Nat \X Nat
    BY <1>1, <2>1
  <2>3. QED
    BY <2>2 DEF Grant, TypeOK
<1>4. QED
  BY <1>1, <1>2, <1>3 DEF TypeOK, Grant, session, traffic

\* time passing is,
LEMMA TickTypes == TypeOK /\ Tick => TypeOK'
<1> SUFFICES ASSUME TypeOK, Tick
             PROVE  TypeOK'
  OBVIOUS
<1>1. clock' = clock + 1 /\ clock' \in Nat
  BY DEF TypeOK, Tick
<1>2. times \in Seq(0 .. clock + 1) /\ sentAt \in Seq(0 .. clock + 1)
  <2>1. clock \in Nat /\ times \in Seq(0 .. clock) /\ sentAt \in Seq(0 .. clock)
    BY DEF TypeOK
  <2>2. QED
    BY <2>1, LaterTimes
<1>3. QED
  BY <1>1, <1>2 DEF TypeOK, Tick, session, traffic, authority

\* storing the engine is,
LEMMA SaveTypes == TypeOK /\ Save => TypeOK'
<1> SUFFICES ASSUME TypeOK, Save
             PROVE  TypeOK'
  OBVIOUS
<1>1. stored' \in Snapshot
  BY CapturedTypes DEF TypeOK, Save
<1>2. QED
  BY <1>1 DEF TypeOK, Save, session, traffic

\* approvals that expire are,
LEMMA AgeTypes == TypeOK /\ Age => TypeOK'
<1> SUFFICES ASSUME TypeOK, Age
             PROVE  TypeOK'
  OBVIOUS
<1>1. aged' \in 0 .. grants
  BY DEF TypeOK, Age
<1>2. QED
  BY <1>1 DEF TypeOK, Age, session, traffic

\* a changed scope is,
LEMMA RescopeTypes == TypeOK /\ Rescope => TypeOK'
<1> SUFFICES ASSUME TypeOK, Rescope
             PROVE  TypeOK'
  OBVIOUS
<1>1. program' \in DOMAIN Scopes
  BY DEF Rescope
<1>2. rescopes' \in Nat
  BY DEF TypeOK, Rescope
<1>3. QED
  BY <1>1, <1>2 DEF TypeOK, Rescope, session, traffic

\* and a restart is.
LEMMA RestartTypes == TypeOK /\ Restart => TypeOK'
<1> SUFFICES ASSUME TypeOK, Restart
             PROVE  TypeOK'
  OBVIOUS
<1>1. restarts' = restarts + 1 /\ restarts + 1 \in Nat
  BY DEF TypeOK, Restart
<1>2. engine' \in Engine
  <2>1. PICK downgraded \in BOOLEAN : \E keeps : engine' = RestoredEngine(keeps, downgraded)
    <3>1. (Live /\ <<program, FALSE>> # <<stored.rev, stored.allow>>) \in BOOLEAN
      OBVIOUS
    <3>2. QED
      BY <3>1 DEF Restart
  <2>2. QED
    BY <2>1, RestoredEngineTypes DEF TypeOK
<1>3. safety' \in [count : Nat, inFlight : Nat, targets : SUBSET Urls]
  BY DEF Restart, NewSafety
<1>4. times' \in Seq(0 .. clock) /\ sentAt' \in Seq(0 .. clock)
  BY EmptySeq DEF Restart
<1>5. clients' \in [Clients -> Client] /\ \A c \in Clients : clients'[c].pc = "idle"
  BY IdleClientTypes DEF Restart
<1>6. licensed' \subseteq Approvals \X (0 .. Len(Scopes)) \X Nat \X Nat
  <2>1. ASSUME NEW l \in licensed
        PROVE  <<l[1], l[2], restarts + 1, l[4]>> \in Approvals \X (0 .. Len(Scopes)) \X Nat \X Nat
    <3>1. /\ l[1] \in Approvals /\ l[2] \in 0 .. Len(Scopes) /\ l[4] \in Nat
          /\ restarts + 1 \in Nat
      BY <1>1 DEF TypeOK
    <3>2. QED
      BY <3>1
  <2>2. licensed \subseteq Approvals \X (0 .. Len(Scopes)) \X Nat \X Nat
    BY DEF TypeOK
  <2>3. \A l \in licensed' : \/ l \in licensed
                            \/ \E m \in licensed : l = <<m[1], m[2], restarts + 1, m[4]>>
    BY DEF Restart
  <2>4. QED
    BY <2>1, <2>2, <2>3, Zenon
<1>7. QED
  BY <1>1, <1>2, <1>3, <1>4, <1>5, <1>6 DEF TypeOK, Restart, session, Client, Busy

\* Every variable has its type, whatever the constants are: so a restored
\* engine has all its limits, and no counter falls below zero.
THEOREM TypeCorrect == Spec => []TypeOK
<1>1. Init => TypeOK
  BY InitTypes
<1>2. TypeOK /\ [Next]_vars => TypeOK'
  <2> SUFFICES ASSUME TypeOK, [Next]_vars
               PROVE  TypeOK'
    OBVIOUS
  <2>1. CASE \E c \in Clients : Begin(c) \/ Attempt(c) \/ Respond(c)
    BY <2>1, BeginTypes, AttemptTypes, RespondTypes
  <2>2. CASE \E k \in Approvals : Grant(k)
    BY <2>2, GrantTypes
  <2>3. CASE Tick \/ Save \/ Age \/ Rescope \/ Restart
    BY <2>3, TickTypes, SaveTypes, AgeTypes, RescopeTypes, RestartTypes
  <2>4. CASE UNCHANGED vars
    BY <2>4 DEF TypeOK, vars
  <2>5. QED
    BY <2>1, <2>2, <2>3, <2>4 DEF Next
<1>3. QED
  BY <1>1, <1>2, PTL DEF Spec

-----------------------------------------------------------------------------
(* The rate                                                                *)

\* The limiter forgets a request only when it has left the window, although it
\* also counts requests that are never sent: so a full window is seen.
Timed ==
  /\ Sorted(times) /\ Sorted(sentAt)
  /\ Remembers(times, sentAt, clock)
  /\ RateHolds

\* A process that starts has no times.
LEMMA NoTimes ==
  ASSUME times = <<>>, sentAt = <<>>
  PROVE  Timed
<1>1. DOMAIN times = {} /\ DOMAIN sentAt = {}
  OBVIOUS
<1>2. QED
  BY <1>1 DEF Timed, Sorted, Remembers, RateHolds

\* A request that is sent has waited for its turn.
LEMMA SentKeepsRate ==
  ASSUME TypeOK, Timed, NEW c \in Clients, Sent(c)
  PROVE  Timed'
<1>1. /\ Window \in Nat /\ Rates \subseteq Rate /\ rate \in Rates /\ clock \in Nat
      /\ times \in Seq(0 .. clock) /\ sentAt \in Seq(0 .. clock)
  BY Constants DEF TypeOK
<1>2. Recent \in Seq(0 .. clock) /\ Sorted(Recent) /\ Remembers(Recent, sentAt, clock)
  BY <1>1, Pruned, RecentIsSorted, RecentRemembers DEF Timed
<1>3. /\ times' = Append(Recent, clock) /\ sentAt' = Append(sentAt, clock)
      /\ clock' = clock /\ rate' = rate /\ RateOk
  BY DEF Sent, session
<1>4. Sorted(times') /\ Sorted(sentAt') /\ Len(sentAt') = Len(sentAt) + 1
  BY <1>1, <1>2, <1>3, AppendIsSorted DEF Timed
<1>5. Remembers(times', sentAt', clock')
  BY <1>1, <1>2, <1>3, SentIsRemembered
<1>6. /\ Len(sentAt) \in Nat /\ DOMAIN sentAt = 1 .. Len(sentAt)
      /\ DOMAIN sentAt' = 1 .. Len(sentAt) + 1
      /\ \A i \in 1 .. Len(sentAt) : sentAt'[i] = sentAt[i]
      /\ sentAt'[Len(sentAt) + 1] = clock
  <2>1. Len(sentAt) \in Nat /\ DOMAIN sentAt = 1 .. Len(sentAt)
    BY <1>1, LenProperties
  <2>2. clock \in 0 .. clock
    BY <1>1
  <2>3. /\ sentAt' \in Seq(0 .. clock)
        /\ \A i \in 1 .. Len(sentAt) : sentAt'[i] = sentAt[i]
        /\ sentAt'[Len(sentAt) + 1] = clock
    BY <1>1, <1>3, <2>2, AppendProperties
  <2>4. DOMAIN sentAt' = 1 .. Len(sentAt) + 1
    BY <1>4, <2>3, LenProperties
  <2>5. QED
    BY <2>1, <2>3, <2>4
<1>7. RateHolds'
  <2> DEFINE p == rate.perSecond
  <2>1. p \in Nat \ {0}
    BY <1>1 DEF Rate
  <2>2. SUFFICES ASSUME rate.gap = 0,
                        NEW i \in 1 .. Len(sentAt) + 1, i + p \in 1 .. Len(sentAt) + 1
                 PROVE  sentAt'[i + p] - sentAt'[i] >= Window
    BY <1>3, <1>6 DEF RateHolds
  <2>3. i \in 1 .. Len(sentAt) /\ sentAt'[i] = sentAt[i]
    BY <1>6, <2>1, <2>2
  <2>4. CASE i + p = Len(sentAt) + 1
    <3>1. clock - sentAt[i] >= Window
      BY <1>1, <1>2, <1>3, <2>2, <2>3, <2>4, RateKept DEF Timed
    <3>2. QED
      BY <1>6, <2>3, <2>4, <3>1
  <2>5. CASE i + p # Len(sentAt) + 1
    <3>1. i + p \in 1 .. Len(sentAt)
      BY <1>6, <2>1, <2>2, <2>3, <2>5
    <3>2. sentAt[i + p] - sentAt[i] >= Window
      BY <1>6, <2>2, <2>3, <3>1 DEF Timed, RateHolds
    <3>3. QED
      BY <1>6, <2>3, <3>1, <3>2
  <2>6. QED
    BY <2>4, <2>5
<1>8. QED
  BY <1>4, <1>5, <1>7 DEF Timed

\* One that is not pinned has waited as well, and was not sent.
LEMMA UnpinnedKeepsRate ==
  ASSUME TypeOK, Timed, NEW c \in Clients, Unpinned(c)
  PROVE  Timed'
<1>1. /\ Window \in Nat /\ clock \in Nat
      /\ times \in Seq(0 .. clock) /\ sentAt \in Seq(0 .. clock)
  BY Constants DEF TypeOK
<1>2. Recent \in Seq(0 .. clock) /\ Sorted(Recent) /\ Remembers(Recent, sentAt, clock)
  BY <1>1, Pruned, RecentIsSorted, RecentRemembers DEF Timed
<1>3. times' = Append(Recent, clock) /\ sentAt' = sentAt /\ clock' = clock /\ rate' = rate
  BY DEF Unpinned, Ended, session
<1>4. Sorted(times') /\ Remembers(times', sentAt', clock')
  BY <1>1, <1>2, <1>3, AppendIsSorted, UnsentForgetsNothing
<1>5. QED
  BY <1>3, <1>4 DEF Timed, RateHolds, Sorted

\* No window of time has more requests than the rate allows, wherever it
\* starts, for every rate of one a second or more and any number of clients.
THEOREM RateIsKept == Spec => []RateHolds
<1>1. Init => Timed
  BY NoTimes DEF Init
<1>2. TypeOK /\ Timed /\ [Next]_vars => Timed'
  <2> SUFFICES ASSUME TypeOK, Timed, [Next]_vars
               PROVE  Timed'
    OBVIOUS
  <2>1. ASSUME UNCHANGED <<times, sentAt, clock, rate>>
        PROVE  Timed'
    BY <2>1 DEF Timed, Sorted, Remembers, RateHolds
  <2>2. ASSUME NEW c \in Clients, Attempt(c)
        PROVE  Timed'
    <3>1. CASE Denied(c) \/ Described(c)
      BY <2>1, <3>1 DEF Denied, Described, Ended, session
    <3>2. CASE Unpinned(c) \/ Sent(c)
      BY <3>2, UnpinnedKeepsRate, SentKeepsRate
    <3>3. QED
      BY <2>2, <3>1, <3>2, AttemptEnds
  <2>3. ASSUME NEW c \in Clients, Begin(c) \/ Respond(c)
        PROVE  Timed'
    BY <2>1, <2>3 DEF Begin, Respond, session
  <2>4. CASE Tick
    <3>1. Window \in Nat /\ clock \in Nat /\ sentAt \in Seq(0 .. clock)
      BY Constants DEF TypeOK
    <3>2. Remembers(times, sentAt, clock + 1)
      BY <3>1, RemembersLater DEF Timed
    <3>3. times' = times /\ sentAt' = sentAt /\ rate' = rate /\ clock' = clock + 1
      BY <2>4 DEF Tick, session, traffic
    <3>4. QED
      BY <3>2, <3>3 DEF Timed, Sorted, RateHolds
  <2>5. CASE (\E k \in Approvals : Grant(k)) \/ Save \/ Age \/ Rescope
    BY <2>1, <2>5 DEF Grant, Save, Age, Rescope, session, traffic
  <2>6. CASE Restart
    <3>1. times' = <<>> /\ sentAt' = <<>>
      BY <2>6 DEF Restart
    <3>2. DOMAIN times' = {} /\ DOMAIN sentAt' = {}
      BY <3>1
    <3>3. QED
      BY <3>2 DEF Timed, Sorted, Remembers, RateHolds
  <2>7. CASE UNCHANGED vars
    BY <2>1, <2>7 DEF vars
  <2>8. QED
    BY <2>2, <2>3, <2>4, <2>5, <2>6, <2>7 DEF Next
<1>3. Timed => RateHolds
  BY DEF Timed
<1>4. QED
  BY <1>1, <1>2, <1>3, TypeCorrect, PTL DEF Spec

-----------------------------------------------------------------------------
(* The limits                                                              *)

Waiting == {c \in Clients : clients[c].pc = "waiting"}

Counted ==
  /\ safety.inFlight = Cardinality(Waiting) /\ safety.inFlight <= engine.limits.concurrent
  /\ safety.count = Len(sentAt) /\ safety.count <= engine.limits.requests
  /\ Cardinality(safety.targets) <= engine.limits.targets

\* What a client has sent and may still follow is within the redirects of the
\* limits, which change only when all clients are gone.
Budget(c) ==
  LET cl == clients[c]
  IN /\ cl.pc = "idle" => cl.sends = 0
     /\ cl.pc = "hop" => cl.sends + cl.left <= engine.limits.redirects
     /\ cl.pc = "waiting" => cl.sends + cl.left <= engine.limits.redirects + 1

\* The counters of the safety controls.
LEMMA LimitTypes ==
  ASSUME TypeOK
  PROVE  /\ safety.inFlight \in Nat /\ safety.count \in Nat /\ safety.targets \subseteq Urls
         /\ engine.limits.concurrent \in Nat /\ engine.limits.requests \in Nat
         /\ engine.limits.targets \in Nat /\ engine.limits.redirects \in Nat
         /\ Len(sentAt) \in Nat
         /\ IsFiniteSet(Waiting) /\ Cardinality(Waiting) \in Nat
         /\ IsFiniteSet(safety.targets) /\ Cardinality(safety.targets) \in Nat
<1>1. safety.inFlight \in Nat /\ safety.count \in Nat /\ safety.targets \subseteq Urls
  BY DEF TypeOK
<1>2. /\ engine.limits.concurrent \in Nat /\ engine.limits.requests \in Nat
      /\ engine.limits.targets \in Nat /\ engine.limits.redirects \in Nat
  BY DEF TypeOK, Engine, Limits
<1>3. Len(sentAt) \in Nat
  BY LenProperties DEF TypeOK
<1>4. IsFiniteSet(Waiting) /\ IsFiniteSet(safety.targets)
  BY <1>1, Constants, FS_Subset DEF Waiting
<1>5. QED
  BY <1>1, <1>2, <1>3, <1>4, FS_CardinalityType

\* The counters of a client.
LEMMA ClientTypes ==
  ASSUME TypeOK, NEW c \in Clients
  PROVE  /\ clients[c].pc \in {"idle", "hop", "waiting"}
         /\ clients[c].left \in Nat /\ clients[c].sends \in Nat /\ c \in DOMAIN clients
BY DEF TypeOK

\* A client has sent no more than its redirects allow.
LEMMA BudgetIsEnough ==
  ASSUME TypeOK, NEW c \in Clients, Budget(c)
  PROVE  clients[c].sends <= engine.limits.redirects + 1
<1>1. clients[c].left \in Nat /\ clients[c].sends \in Nat /\ engine.limits.redirects \in Nat
  BY ClientTypes, LimitTypes
<1>2. CASE clients[c].pc = "idle"
  BY <1>1, <1>2 DEF Budget
<1>3. CASE clients[c].pc = "hop"
  BY <1>1, <1>3 DEF Budget
<1>4. CASE clients[c].pc = "waiting"
  BY <1>1, <1>4 DEF Budget
<1>5. QED
  BY <1>2, <1>3, <1>4, ClientTypes

\* Sending counts the request.
LEMMA SentKeepsLimits ==
  ASSUME TypeOK, Counted, \A d \in Clients : Budget(d), NEW c \in Clients, Sent(c)
  PROVE  Counted' /\ \A d \in Clients : Budget(d)'
<1>1. /\ clients[c].pc = "hop" /\ Safe(clients[c].url) /\ engine' = engine
      /\ clients' = [clients EXCEPT ![c].pc = "waiting", ![c].sends = @ + 1]
      /\ safety'.count = safety.count + 1 /\ safety'.inFlight = safety.inFlight + 1
      /\ safety'.targets = safety.targets \union {clients[c].url}
      /\ sentAt' = Append(sentAt, clock)
  BY DEF Sent, Passed, authority
<1>2. /\ clients'[c].pc = "waiting" /\ clients'[c].sends = clients[c].sends + 1
      /\ clients'[c].left = clients[c].left
      /\ \A d \in Clients \ {c} : clients'[d] = clients[d]
  BY <1>1 DEF TypeOK
<1>3. Waiting' = Waiting \union {c} /\ c \notin Waiting
  BY <1>1, <1>2 DEF Waiting
<1>4. Cardinality(Waiting') = Cardinality(Waiting) + 1
  BY <1>3, LimitTypes, FS_AddElement
<1>5. Len(sentAt') = Len(sentAt) + 1
  BY <1>1, AppendProperties DEF TypeOK
<1>6. Counted'
  <2>1. safety'.inFlight = Cardinality(Waiting')
    BY <1>1, <1>4 DEF Counted
  <2>2. safety'.inFlight <= engine'.limits.concurrent
    BY <1>1, LimitTypes DEF Safe
  <2>3. safety'.count = Len(sentAt')
    BY <1>1, <1>5 DEF Counted
  <2>4. safety'.count <= engine'.limits.requests
    <3>1. safety.count < engine.limits.requests
      BY <1>1 DEF Safe
    <3>2. safety.count + 1 <= engine.limits.requests
      BY <3>1, LimitTypes, OneMore, Zenon
    <3>3. safety'.count = safety.count + 1 /\ engine' = engine
      BY <1>1
    <3>4. QED
      BY <3>2, <3>3
  <2>5. Cardinality(safety'.targets) <= engine'.limits.targets
    BY <1>1 DEF Safe
  <2>6. QED
    BY <2>1, <2>2, <2>3, <2>4, <2>5 DEF Counted
<1>7. ASSUME NEW d \in Clients
      PROVE  Budget(d)'
  <2>1. CASE d = c
    <3>1. clients[c].sends + clients[c].left <= engine.limits.redirects
      BY <1>1 DEF Budget
    <3>2. clients[c].sends + 1 + clients[c].left <= engine.limits.redirects + 1
      <4>1. /\ clients[c].sends \in Nat /\ clients[c].left \in Nat
            /\ engine.limits.redirects \in Nat
        BY ClientTypes, LimitTypes
      <4>2. QED
        BY <3>1, <4>1, OneMore
    <3>3. QED
      BY <1>1, <1>2, <2>1, <3>2 DEF Budget
  <2>2. CASE d # c
    BY <1>1, <1>2, <2>2 DEF Budget
  <2>3. QED
    BY <2>1, <2>2
<1>8. QED
  BY <1>6, <1>7

\* A client that is not in flight, and stays out of it.
LEMMA OutsideKeepsLimits ==
  ASSUME TypeOK, Counted, \A d \in Clients : Budget(d), NEW c \in Clients, NEW cl,
         clients[c].pc # "waiting", cl.pc # "waiting", clients' = [clients EXCEPT ![c] = cl],
         UNCHANGED <<engine, safety, sentAt>>,
         cl.pc = "idle" => cl.sends = 0,
         cl.pc = "hop" => cl.sends + cl.left <= engine.limits.redirects
  PROVE  Counted' /\ \A d \in Clients : Budget(d)'
<1>1. clients'[c] = cl /\ \A d \in Clients \ {c} : clients'[d] = clients[d]
  BY ClientTypes DEF TypeOK
<1>2. Waiting' = Waiting
  BY <1>1 DEF Waiting
<1>3. Counted'
  BY <1>2 DEF Counted
<1>4. ASSUME NEW d \in Clients
      PROVE  Budget(d)'
  <2>1. CASE d = c
    BY <1>1, <2>1 DEF Budget
  <2>2. CASE d # c
    BY <1>1, <2>2 DEF Budget
  <2>3. QED
    BY <2>1, <2>2
<1>5. QED
  BY <1>3, <1>4

\* A response frees a place, and a redirect takes one of those left.
LEMMA RespondKeepsLimits ==
  ASSUME TypeOK, Counted, \A d \in Clients : Budget(d), NEW c \in Clients, Respond(c)
  PROVE  Counted' /\ \A d \in Clients : Budget(d)'
<1>1. c \in Waiting /\ engine' = engine /\ sentAt' = sentAt
  BY DEF Respond, Waiting, authority
<1>2. PICK cl :
        /\ clients' = [clients EXCEPT ![c] = cl] /\ cl.pc # "waiting"
        /\ cl.pc = "idle" => cl.sends = 0
        /\ cl.pc = "hop" => cl.sends + cl.left <= engine.limits.redirects
  <2>1. CASE clients' = [clients EXCEPT ![c] = IdleClient]
    <3>1. IdleClient.pc = "idle" /\ IdleClient.sends = 0
      BY DEF IdleClient
    <3>2. IdleClient.pc # "waiting" /\ IdleClient.pc # "hop"
      BY <3>1
    <3>3. QED
      BY <2>1, <3>1, <3>2, Zenon
  <2>2. CASE \E nxt \in Urls :
               /\ clients[c].left > 0
               /\ clients' = [clients EXCEPT ![c] =
                    [clients[c] EXCEPT !.pc = "hop", !.url = nxt, !.seen = @ \union {clients[c].url},
                                       !.left = @ - 1, !.credentials = Headers(clients[c], nxt)]]
    <3>1. PICK nxt \in Urls :
               /\ clients[c].left > 0
               /\ clients' = [clients EXCEPT ![c] =
                    [clients[c] EXCEPT !.pc = "hop", !.url = nxt, !.seen = @ \union {clients[c].url},
                                       !.left = @ - 1, !.credentials = Headers(clients[c], nxt)]]
      BY <2>2
    <3> DEFINE cl == [clients[c] EXCEPT !.pc = "hop", !.url = nxt, !.seen = @ \union {clients[c].url},
                                       !.left = @ - 1, !.credentials = Headers(clients[c], nxt)]
    <3>2. cl.pc = "hop" /\ cl.sends = clients[c].sends /\ cl.left = clients[c].left - 1
      BY DEF TypeOK
    <3>3. clients[c].sends + clients[c].left <= engine.limits.redirects + 1
      BY <1>1 DEF Budget, Waiting
    <3>4. clients[c].sends + (clients[c].left - 1) <= engine.limits.redirects
      <4>1. /\ clients[c].sends \in Nat /\ clients[c].left \in Nat
            /\ engine.limits.redirects \in Nat
        BY ClientTypes, LimitTypes
      <4>2. QED
        BY <3>3, <4>1, OneMore
    <3>5. clients' = [clients EXCEPT ![c] = cl]
      BY <3>1
    <3> HIDE DEF cl
    <3>6. cl.sends + cl.left <= engine.limits.redirects
      BY <3>2, <3>4
    <3>7. QED
      BY <3>2, <3>5, <3>6
  <2>3. QED
    BY <2>1, <2>2 DEF Respond
<1>3. clients'[c] = cl /\ \A d \in Clients \ {c} : clients'[d] = clients[d]
  BY <1>2, ClientTypes DEF TypeOK
<1>4. Waiting' = Waiting \ {c}
  BY <1>2, <1>3 DEF Waiting
<1>5. Cardinality(Waiting') = Cardinality(Waiting) - 1
  BY <1>1, <1>4, LimitTypes, FS_RemoveElement
<1>6. Cardinality(Waiting) > 0
  BY <1>1, LimitTypes, FS_EmptySet
<1>7. Counted'
  <2>1. safety'.inFlight = safety.inFlight - 1 /\ safety'.count = safety.count /\ safety'.targets = safety.targets
    BY <1>6, LimitTypes DEF Respond, Counted, TypeOK
  <2>2. safety'.inFlight = Cardinality(Waiting')
    BY <1>5, <2>1 DEF Counted
  <2>3. safety'.inFlight <= engine'.limits.concurrent
    BY <1>1, <2>1, LimitTypes DEF Counted
  <2>4. QED
    BY <1>1, <2>1, <2>2, <2>3 DEF Counted
<1>8. ASSUME NEW d \in Clients
      PROVE  Budget(d)'
  <2>1. CASE d = c
    BY <1>1, <1>2, <1>3, <2>1 DEF Budget
  <2>2. CASE d # c
    BY <1>1, <1>3, <2>2 DEF Budget
  <2>3. QED
    BY <2>1, <2>2
<1>9. QED
  BY <1>7, <1>8

LimitsKept == Counted /\ \A c \in Clients : Budget(c)

\* Requests in flight are counted exactly, and no limit is exceeded, however
\* the clients and their redirects interleave and whatever way they end, for
\* any limits and any number of clients.
THEOREM LimitsAreKept == Spec => []LimitsHold
<1>1. Init => LimitsKept
  <2> SUFFICES ASSUME Init
               PROVE  LimitsKept
    OBVIOUS
  <2>1. TypeOK
    BY InitTypes
  <2>2. Waiting = {} /\ safety.targets = {} /\ safety.inFlight = 0 /\ safety.count = 0 /\ Len(sentAt) = 0
    BY DEF Init, Waiting, IdleClient, NewSafety
  <2>3. Counted
    BY <2>1, <2>2, LimitTypes, FS_EmptySet DEF Counted
  <2>4. ASSUME NEW c \in Clients
        PROVE  Budget(c)
    <3>1. clients[c].pc = "idle" /\ clients[c].sends = 0
      BY DEF Init, IdleClient
    <3>2. clients[c].pc # "hop" /\ clients[c].pc # "waiting"
      BY <3>1
    <3>3. QED
      BY <3>1, <3>2, Zenon DEF Budget
  <2>5. QED
    BY <2>3, <2>4 DEF LimitsKept
<1>2. TypeOK /\ TypeOK' /\ LimitsKept /\ [Next]_vars => LimitsKept'
  <2> SUFFICES ASSUME TypeOK, TypeOK', LimitsKept, [Next]_vars
               PROVE  LimitsKept'
    OBVIOUS
  <2>1. ASSUME engine'.limits = engine.limits, UNCHANGED <<clients, safety, sentAt>>
        PROVE  LimitsKept'
    BY <2>1 DEF LimitsKept, Counted, Budget, Waiting
  <2>2. ASSUME NEW c \in Clients, Begin(c)
        PROVE  LimitsKept'
    <3>1. PICK call \in Calls :
            clients' = [clients EXCEPT ![c] =
              [pc |-> "hop", call |-> call, url |-> call.url, credentials |-> call.credentials,
               left |-> IF call.follow THEN engine.limits.redirects ELSE 0, seen |-> {}, sends |-> 0]]
      BY <2>2 DEF Begin
    <3> DEFINE left == IF call.follow THEN engine.limits.redirects ELSE 0
               cl == [pc |-> "hop", call |-> call, url |-> call.url, credentials |-> call.credentials,
                      left |-> left, seen |-> {}, sends |-> 0]
    <3>2. 0 + left <= engine.limits.redirects
      BY LimitTypes
    <3>3. clients' = [clients EXCEPT ![c] = cl]
      BY <3>1
    <3>4. cl.pc = "hop" /\ cl.sends = 0 /\ cl.left = left
      OBVIOUS
    <3> HIDE DEF cl, left
    <3>5. cl.sends + cl.left <= engine.limits.redirects
      BY <3>2, <3>4
    <3>6. clients[c].pc # "waiting" /\ UNCHANGED <<engine, safety, sentAt>>
      BY <2>2 DEF Begin, authority
    <3>7. cl.pc # "waiting" /\ cl.pc # "idle"
      BY <3>4
    <3>8. QED
      BY <3>3, <3>5, <3>6, <3>7, OutsideKeepsLimits DEF LimitsKept
  <2>3. ASSUME NEW c \in Clients, Attempt(c)
        PROVE  LimitsKept'
    <3>1. ASSUME Ended(c)
          PROVE  LimitsKept'
      <4>1. IdleClient.pc = "idle" /\ IdleClient.sends = 0
        BY DEF IdleClient
      <4>2. IdleClient.pc # "waiting" /\ IdleClient.pc # "hop"
        BY <4>1
      <4>3. /\ clients[c].pc # "waiting" /\ clients' = [clients EXCEPT ![c] = IdleClient]
            /\ UNCHANGED <<engine, safety, sentAt>>
        BY <3>1 DEF Ended, authority
      <4>4. QED
        BY <4>1, <4>2, <4>3, OutsideKeepsLimits DEF LimitsKept
    <3>2. CASE Sent(c)
      BY <3>2, SentKeepsLimits DEF LimitsKept
    <3>3. QED
      BY <2>3, <3>1, <3>2, AttemptEnds DEF Denied, Described, Unpinned
  <2>4. ASSUME NEW c \in Clients, Respond(c)
        PROVE  LimitsKept'
    BY <2>4, RespondKeepsLimits DEF LimitsKept
  <2>5. ASSUME NEW k \in Approvals, Grant(k)
        PROVE  LimitsKept'
    <3>1. engine'.limits = engine.limits
      BY <2>5 DEF Grant, TypeOK, Engine
    <3>2. QED
      BY <2>1, <2>5, <3>1 DEF Grant, traffic
  <2>6. CASE Tick \/ Save \/ Age \/ Rescope
    BY <2>1, <2>6 DEF Tick, Save, Age, Rescope, traffic, authority
  <2>7. CASE Restart
    <3>1. Waiting' = {} /\ safety'.targets = {} /\ safety'.inFlight = 0 /\ safety'.count = 0 /\ Len(sentAt') = 0
      BY <2>7 DEF Restart, Waiting, IdleClient, NewSafety
    <3>2. Counted'
      <4>1. /\ engine'.limits.concurrent \in Nat /\ engine'.limits.requests \in Nat
            /\ engine'.limits.targets \in Nat
        BY DEF TypeOK, Engine, Limits
      <4>2. QED
        BY <3>1, <4>1, FS_EmptySet DEF Counted
    <3>3. ASSUME NEW c \in Clients
          PROVE  Budget(c)'
      <4>1. clients'[c].pc = "idle" /\ clients'[c].sends = 0
        BY <2>7 DEF Restart, IdleClient
      <4>2. clients'[c].pc # "hop" /\ clients'[c].pc # "waiting"
        BY <4>1
      <4>3. QED
        BY <4>1, <4>2, Zenon DEF Budget
    <3>4. QED
      BY <3>2, <3>3 DEF LimitsKept
  <2>8. CASE UNCHANGED vars
    BY <2>1, <2>8 DEF vars
  <2>9. QED
    BY <2>2, <2>3, <2>4, <2>5, <2>6, <2>7, <2>8 DEF Next
<1>3. TypeOK /\ LimitsKept => LimitsHold
  BY BudgetIsEnough DEF LimitsKept, LimitsHold, Counted, Waiting
<1>4. QED
  BY <1>1, <1>2, <1>3, TypeCorrect, PTL DEF Spec

-----------------------------------------------------------------------------
(* Credentials                                                             *)

\* A client that holds credentials is at the origin they were given for.
AtHome(c) ==
  clients[c].pc # "idle" /\ clients[c].credentials =>
    Origin[clients[c].url] = Origin[clients[c].call.url]

\* The credentials of a request are sent to the origin they were given for,
\* along every chain of redirects, for any URLs and origins.
THEOREM CredentialsAreKept == Spec => []CredentialsStayHome
<1> DEFINE Kept == CredentialsStayHome /\ \A c \in Clients : AtHome(c)
<1>1. Init => Kept
  BY DEF Init, CredentialsStayHome, AtHome, IdleClient
<1>2. TypeOK /\ Kept /\ [Next]_vars => Kept'
  <2> SUFFICES ASSUME TypeOK, Kept, [Next]_vars
               PROVE  Kept'
    OBVIOUS
  <2>1. ASSUME NEW c \in Clients, NEW cl, clients' = [clients EXCEPT ![c] = cl],
               cl.pc # "idle" /\ cl.credentials => Origin[cl.url] = Origin[cl.call.url]
        PROVE  \A d \in Clients : AtHome(d)'
    <3>1. clients'[c] = cl /\ \A d \in Clients \ {c} : clients'[d] = clients[d]
      BY <2>1 DEF TypeOK
    <3>2. SUFFICES ASSUME NEW d \in Clients
                   PROVE  AtHome(d)'
      OBVIOUS
    <3>3. CASE d = c
      BY <2>1, <3>1, <3>3 DEF AtHome
    <3>4. CASE d # c
      BY <3>1, <3>4 DEF AtHome
    <3>5. QED
      BY <3>3, <3>4
  <2>2. ASSUME NEW c \in Clients, hop' = Hop(c), clients[c].pc = "hop"
        PROVE  CredentialsStayHome'
    BY <2>2 DEF CredentialsStayHome, AtHome, Hop
  <2>3. ASSUME UNCHANGED clients
        PROVE  \A c \in Clients : AtHome(c)'
    BY <2>3 DEF AtHome
  <2>4. ASSUME hop' = hop
        PROVE  CredentialsStayHome'
    BY <2>4 DEF CredentialsStayHome
  <2>5. ASSUME NEW c \in Clients, Begin(c)
        PROVE  Kept'
    <3>1. PICK call \in Calls :
            clients' = [clients EXCEPT ![c] =
              [pc |-> "hop", call |-> call, url |-> call.url, credentials |-> call.credentials,
               left |-> IF call.follow THEN engine.limits.redirects ELSE 0, seen |-> {}, sends |-> 0]]
      BY <2>5 DEF Begin
    <3> DEFINE cl == [pc |-> "hop", call |-> call, url |-> call.url, credentials |-> call.credentials,
                      left |-> IF call.follow THEN engine.limits.redirects ELSE 0, seen |-> {}, sends |-> 0]
    <3>2. clients' = [clients EXCEPT ![c] = cl] /\ cl.url = cl.call.url
      BY <3>1
    <3> HIDE DEF cl
    <3>3. \A d \in Clients : AtHome(d)'
      BY <2>1, <3>2
    <3>4. QED
      BY <2>4, <2>5, <3>3 DEF Begin
  <2>6. ASSUME NEW c \in Clients, Attempt(c)
        PROVE  Kept'
    <3>1. ASSUME Ended(c)
          PROVE  \A d \in Clients : AtHome(d)'
      BY <2>1, <3>1 DEF Ended, IdleClient
    <3>2. CASE Sent(c)
      <4> DEFINE cl == [clients[c] EXCEPT !.pc = "waiting", !.sends = @ + 1]
      <4>1. clients' = [clients EXCEPT ![c] = cl] /\ hop' = Hop(c) /\ clients[c].pc = "hop"
        BY <3>2 DEF Sent
      <4>2. cl.credentials = clients[c].credentials /\ cl.url = clients[c].url /\ cl.call = clients[c].call
        BY DEF TypeOK
      <4> HIDE DEF cl
      <4>3. cl.pc # "idle" /\ cl.credentials => Origin[cl.url] = Origin[cl.call.url]
        BY <4>1, <4>2 DEF AtHome
      <4>4. QED
        BY <2>1, <2>2, <4>1, <4>3
    <3>3. CASE Denied(c) \/ Unpinned(c)
      BY <2>4, <3>1, <3>3 DEF Denied, Unpinned
    <3>4. CASE Described(c)
      BY <2>2, <3>1, <3>4 DEF Described, Ended
    <3>5. QED
      BY <2>6, <3>2, <3>3, <3>4, AttemptEnds
  <2>7. ASSUME NEW c \in Clients, Respond(c)
        PROVE  Kept'
    <3>1. CASE clients' = [clients EXCEPT ![c] = IdleClient]
      BY <2>1, <2>4, <2>7, <3>1 DEF Respond, IdleClient
    <3>2. CASE \E nxt \in Urls :
                 clients' = [clients EXCEPT ![c] =
                   [clients[c] EXCEPT !.pc = "hop", !.url = nxt, !.seen = @ \union {clients[c].url},
                                      !.left = @ - 1, !.credentials = Headers(clients[c], nxt)]]
      <4>1. PICK nxt \in Urls :
                 clients' = [clients EXCEPT ![c] =
                   [clients[c] EXCEPT !.pc = "hop", !.url = nxt, !.seen = @ \union {clients[c].url},
                                      !.left = @ - 1, !.credentials = Headers(clients[c], nxt)]]
        BY <3>2
      <4> DEFINE cl == [clients[c] EXCEPT !.pc = "hop", !.url = nxt, !.seen = @ \union {clients[c].url},
                                          !.left = @ - 1, !.credentials = Headers(clients[c], nxt)]
      <4>2. cl.credentials = Headers(clients[c], nxt) /\ cl.url = nxt /\ cl.call = clients[c].call
        BY DEF TypeOK
      <4>3. clients' = [clients EXCEPT ![c] = cl]
        BY <4>1
      <4> HIDE DEF cl
      <4>4. cl.pc # "idle" /\ cl.credentials => Origin[cl.url] = Origin[cl.call.url]
        BY <2>7, <4>2 DEF AtHome, Headers, Respond
      <4>5. QED
        BY <2>1, <2>4, <2>7, <4>3, <4>4 DEF Respond
    <3>3. QED
      BY <2>7, <3>1, <3>2 DEF Respond
  <2>8. CASE (\E k \in Approvals : Grant(k)) \/ Tick \/ Save \/ Age \/ Rescope
    BY <2>3, <2>4, <2>8 DEF Grant, Tick, Save, Age, Rescope, traffic
  <2>9. CASE Restart
    <3>1. \A c \in Clients : AtHome(c)'
      BY <2>9 DEF Restart, AtHome, IdleClient
    <3>2. QED
      BY <2>4, <2>9, <3>1 DEF Restart
  <2>10. CASE UNCHANGED vars
    BY <2>3, <2>4, <2>10 DEF vars
  <2>11. QED
    BY <2>5, <2>6, <2>7, <2>8, <2>9, <2>10 DEF Next
<1>3. Kept => CredentialsStayHome
  OBVIOUS
<1> HIDE DEF Kept
<1>4. QED
  BY <1>1, <1>2, <1>3, TypeCorrect, PTL DEF Spec

-----------------------------------------------------------------------------
(* Consent                                                                 *)

\* A human allowed k for the scope the engine has, in this process.
Allowed(k) == \E l \in licensed : l[1] = k /\ l[2] = engine.rev /\ l[3] = restarts

\* Every approval, in memory or in the row, was given for the scope it stands
\* with; a flag of the engine stands only with its approval, but for active
\* testing in the process that made a lab; and a fuzzer that is past its first
\* request was allowed in this process.
ApprovalsEarned ==
  \A k \in Approvals : Granted(k) => <<k, engine.rev, restarts, engine.approvals[k]>> \in licensed
RowEarned ==
  \A k \in Approvals :
    stored.approvals[k] # 0 => \E p \in Nat : <<k, stored.rev, p, stored.approvals[k]>> \in licensed
FlagsEarned ==
  /\ ~ Live => engine.rev = 0 /\ stored.rev = 0
  /\ (Live \/ restarts > 0) /\ engine.allow => Granted("enable_active_testing")
  /\ engine.fuzzing => Granted("enable_fuzzing")
FuzzersEarned ==
  \A c \in Clients :
    clients[c].pc # "idle" /\ clients[c].sends # 0 /\ clients[c].call.use = "fuzzer" =>
      Allowed("enable_fuzzing")
Consent == ApprovalsEarned /\ RowEarned /\ FlagsEarned /\ FuzzersEarned /\ NothingWithoutAHuman

\* What is granted was allowed to be granted.
LEMMA GrantedIsAllowed ==
  ASSUME ApprovalsEarned, NEW k \in Approvals, Granted(k)
  PROVE  Allowed(k)
BY DEF ApprovalsEarned, Allowed

\* Whatever passes the checks was allowed.
LEMMA PassedIsAllowed ==
  ASSUME Consent, NEW c \in Clients, clients[c].pc = "hop", Passed(c)
  PROVE  /\ clients[c].call.use # "passive" /\ (Live \/ restarts > 0) => Allowed("enable_active_testing")
         /\ clients[c].call.use = "fuzzer" => Allowed("enable_fuzzing")
<1>1. "enable_active_testing" \in Approvals /\ "enable_fuzzing" \in Approvals
  BY DEF Approvals
<1>2. ASSUME clients[c].call.use # "passive", Live \/ restarts > 0
      PROVE  Allowed("enable_active_testing")
  <2>1. engine.allow
    BY <1>2 DEF Passed, Authorized, InScope
  <2>2. Granted("enable_active_testing")
    BY <1>2, <2>1 DEF Consent, FlagsEarned
  <2>3. QED
    BY <1>1, <2>2, GrantedIsAllowed DEF Consent
<1>3. ASSUME clients[c].call.use = "fuzzer"
      PROVE  Allowed("enable_fuzzing")
  <2>1. CASE clients[c].sends = 0
    <3>1. Granted("enable_fuzzing")
      BY <1>3, <2>1 DEF Passed, Authorized, Consent, FlagsEarned
    <3>2. QED
      BY <1>1, <3>1, GrantedIsAllowed DEF Consent
  <2>2. CASE clients[c].sends # 0
    BY <1>3, <2>2 DEF Consent, FuzzersEarned
  <2>3. QED
    BY <2>1, <2>2
<1>4. QED
  BY <1>2, <1>3

\* The hop of a request that passed.
LEMMA PassedKeepsConsent ==
  ASSUME Consent, NEW c \in Clients, clients[c].pc = "hop", Passed(c), hop' = Hop(c),
         UNCHANGED <<kind, engine, restarts, licensed>>
  PROVE  NothingWithoutAHuman'
<1>1. /\ hop'.use = clients[c].call.use /\ hop'.rev = engine.rev /\ hop'.process = restarts
  BY DEF Hop
<1>2. ASSUME NEW k, Allowed(k)
      PROVE  Licensed(k)'
  BY <1>1, <1>2 DEF Allowed, Licensed
<1>3. Live' = Live
  BY DEF Live
<1>4. QED
  BY <1>1, <1>2, <1>3, PassedIsAllowed DEF NothingWithoutAHuman

\* A step that leaves the engine alone, and forgets no licence.
LEMMA SameEngine ==
  ASSUME Consent, UNCHANGED <<kind, engine, restarts, licensed>>
  PROVE  /\ ApprovalsEarned'
         /\ stored' = stored => RowEarned' /\ FlagsEarned'
         /\ clients' = clients => FuzzersEarned'
         /\ hop' = hop => NothingWithoutAHuman'
<1>1. ApprovalsEarned'
  BY DEF Consent, ApprovalsEarned, Granted
<1>2. stored' = stored => RowEarned' /\ FlagsEarned'
  BY DEF Consent, RowEarned, FlagsEarned, Granted, Live
<1>3. clients' = clients => FuzzersEarned'
  BY DEF Consent, FuzzersEarned, Allowed
<1>4. hop' = hop => NothingWithoutAHuman'
  BY DEF Consent, NothingWithoutAHuman, Licensed, Live
<1>5. QED
  BY <1>1, <1>2, <1>3, <1>4

\* A step that changes one client.
LEMMA OneClientKeepsFuzzers ==
  ASSUME TypeOK, Consent, NEW c \in Clients, NEW cl, clients' = [clients EXCEPT ![c] = cl],
         UNCHANGED <<engine, restarts, licensed>>,
         cl.pc # "idle" /\ cl.sends # 0 /\ cl.call.use = "fuzzer" => Allowed("enable_fuzzing")
  PROVE  FuzzersEarned'
<1>1. clients'[c] = cl /\ \A d \in Clients \ {c} : clients'[d] = clients[d]
  BY DEF TypeOK
<1>2. Allowed("enable_fuzzing") => Allowed("enable_fuzzing")'
  BY DEF Allowed
<1>3. SUFFICES ASSUME NEW d \in Clients, clients'[d].pc # "idle", clients'[d].sends # 0,
                      clients'[d].call.use = "fuzzer"
               PROVE  Allowed("enable_fuzzing")
  BY <1>2 DEF FuzzersEarned
<1>4. CASE d = c
  BY <1>1, <1>3, <1>4
<1>5. CASE d # c
  BY <1>1, <1>3, <1>5 DEF Consent, FuzzersEarned
<1>6. QED
  BY <1>4, <1>5

\* An attempt asks before it sends.
LEMMA AttemptKeepsConsent ==
  ASSUME TypeOK, Consent, NEW c \in Clients, Attempt(c)
  PROVE  Consent'
<1>1. UNCHANGED <<kind, engine, stored, restarts, licensed>> /\ clients[c].pc = "hop"
  BY DEF Attempt, session, authority
<1>2. ApprovalsEarned' /\ RowEarned' /\ FlagsEarned' /\ (hop' = hop => NothingWithoutAHuman')
  BY <1>1, SameEngine
<1>3. ASSUME Ended(c)
      PROVE  FuzzersEarned'
  <2>1. clients' = [clients EXCEPT ![c] = IdleClient] /\ IdleClient.pc = "idle"
    BY <1>3 DEF Ended, IdleClient
  <2>2. QED
    BY <1>1, <2>1, OneClientKeepsFuzzers
<1>4. CASE Denied(c) \/ Unpinned(c)
  BY <1>2, <1>3, <1>4 DEF Denied, Unpinned, Consent
<1>5. CASE Described(c)
  <2>1. NothingWithoutAHuman'
    BY <1>1, <1>5, PassedKeepsConsent DEF Described
  <2>2. QED
    BY <1>2, <1>3, <1>5, <2>1 DEF Described, Consent
<1>6. CASE Sent(c)
  <2>1. NothingWithoutAHuman'
    BY <1>1, <1>6, PassedKeepsConsent DEF Sent
  <2> DEFINE cl == [clients[c] EXCEPT !.pc = "waiting", !.sends = @ + 1]
  <2>2. clients' = [clients EXCEPT ![c] = cl] /\ Passed(c)
    BY <1>6 DEF Sent
  <2>3. cl.call = clients[c].call
    BY DEF TypeOK
  <2> HIDE DEF cl
  <2>4. cl.call.use = "fuzzer" => Allowed("enable_fuzzing")
    BY <1>1, <2>2, <2>3, PassedIsAllowed
  <2>5. FuzzersEarned'
    BY <1>1, <2>2, <2>4, OneClientKeepsFuzzers
  <2>6. QED
    BY <1>2, <2>1, <2>5 DEF Consent
<1>7. QED
  BY <1>4, <1>5, <1>6, AttemptEnds

\* A call that begins sends nothing.
LEMMA BeginKeepsConsent ==
  ASSUME TypeOK, Consent, NEW c \in Clients, Begin(c)
  PROVE  Consent'
<1>1. UNCHANGED <<kind, engine, stored, restarts, licensed, hop>>
  BY DEF Begin, session, authority
<1>2. PICK call \in Calls :
        clients' = [clients EXCEPT ![c] =
          [pc |-> "hop", call |-> call, url |-> call.url, credentials |-> call.credentials,
           left |-> IF call.follow THEN engine.limits.redirects ELSE 0, seen |-> {}, sends |-> 0]]
  BY DEF Begin
<1> DEFINE cl == [pc |-> "hop", call |-> call, url |-> call.url, credentials |-> call.credentials,
                  left |-> IF call.follow THEN engine.limits.redirects ELSE 0, seen |-> {}, sends |-> 0]
<1>3. clients' = [clients EXCEPT ![c] = cl] /\ cl.sends = 0
  BY <1>2
<1> HIDE DEF cl
<1>4. FuzzersEarned'
  BY <1>1, <1>3, OneClientKeepsFuzzers
<1>5. QED
  BY <1>1, <1>4, SameEngine DEF Consent

\* Following a redirect asks again.
LEMMA RespondKeepsConsent ==
  ASSUME TypeOK, Consent, NEW c \in Clients, Respond(c)
  PROVE  Consent'
<1>1. UNCHANGED <<kind, engine, stored, restarts, licensed, hop>> /\ clients[c].pc = "waiting"
  BY DEF Respond, session, authority
<1>2. CASE clients' = [clients EXCEPT ![c] = IdleClient]
  <2>1. IdleClient.pc = "idle"
    BY DEF IdleClient
  <2>2. FuzzersEarned'
    BY <1>1, <1>2, <2>1, OneClientKeepsFuzzers
  <2>3. QED
    BY <1>1, <2>2, SameEngine DEF Consent
<1>3. CASE \E nxt \in Urls :
             clients' = [clients EXCEPT ![c] =
               [clients[c] EXCEPT !.pc = "hop", !.url = nxt, !.seen = @ \union {clients[c].url},
                                  !.left = @ - 1, !.credentials = Headers(clients[c], nxt)]]
  <2>1. PICK nxt \in Urls :
             clients' = [clients EXCEPT ![c] =
               [clients[c] EXCEPT !.pc = "hop", !.url = nxt, !.seen = @ \union {clients[c].url},
                                  !.left = @ - 1, !.credentials = Headers(clients[c], nxt)]]
    BY <1>3
  <2> DEFINE cl == [clients[c] EXCEPT !.pc = "hop", !.url = nxt, !.seen = @ \union {clients[c].url},
                                      !.left = @ - 1, !.credentials = Headers(clients[c], nxt)]
  <2>2. cl.call = clients[c].call /\ cl.sends = clients[c].sends
    BY DEF TypeOK
  <2>3. clients' = [clients EXCEPT ![c] = cl]
    BY <2>1
  <2> HIDE DEF cl
  <2>4. cl.sends # 0 /\ cl.call.use = "fuzzer" => Allowed("enable_fuzzing")
    BY <1>1, <2>2 DEF Consent, FuzzersEarned
  <2>5. FuzzersEarned'
    BY <1>1, <2>3, <2>4, OneClientKeepsFuzzers
  <2>6. QED
    BY <1>1, <2>5, SameEngine DEF Consent
<1>4. QED
  BY <1>2, <1>3 DEF Respond

\* A grant is of a human.
LEMMA GrantKeepsConsent ==
  ASSUME TypeOK, Consent, NEW k \in Approvals, Grant(k)
  PROVE  Consent'
<1>1. /\ UNCHANGED <<kind, stored, restarts, clients, hop>>
      /\ licensed' = licensed \union {<<k, engine.rev, restarts, grants + 1>>}
  BY DEF Grant, session, traffic
<1>2. /\ engine'.rev = engine.rev
      /\ engine'.approvals[k] = grants + 1
      /\ \A j \in Approvals \ {k} : engine'.approvals[j] = engine.approvals[j]
      /\ engine'.allow <=> engine.allow \/ k = "enable_active_testing"
      /\ engine'.fuzzing <=> engine.fuzzing \/ k = "enable_fuzzing"
  <2>1. engine' = [engine EXCEPT !.approvals = [@ EXCEPT ![k] = grants + 1],
                                 !.active = @ \/ k = "enable_active_testing",
                                 !.allow = @ \/ k = "enable_active_testing",
                                 !.fuzzing = @ \/ k = "enable_fuzzing"]
    BY DEF Grant
  <2>2. DOMAIN engine = {"rev", "allow", "active", "fuzzing", "dryRun", "approvals", "limits"}
        /\ engine \in Engine
    BY DEF TypeOK, Engine
  <2>3. engine.approvals \in [Approvals -> Nat]
    BY DEF TypeOK, Engine
  <2>4. engine'.rev = engine.rev /\ engine'.approvals = [engine.approvals EXCEPT ![k] = grants + 1]
    BY <2>1, <2>2 DEF Engine
  <2>5. engine'.allow <=> engine.allow \/ k = "enable_active_testing"
    BY <2>1, <2>2 DEF Engine
  <2>6. engine'.fuzzing <=> engine.fuzzing \/ k = "enable_fuzzing"
    BY <2>1, <2>2 DEF Engine
  <2>7. QED
    BY <2>3, <2>4, <2>5, <2>6
<1>3. grants + 1 # 0
  BY DEF TypeOK
<1>4. ApprovalsEarned'
  BY <1>1, <1>2 DEF Consent, ApprovalsEarned, Granted
<1>5. RowEarned'
  BY <1>1 DEF Consent, RowEarned
<1>6. ASSUME NEW j \in Approvals, Granted(j)
      PROVE  Granted(j)'
  BY <1>2, <1>3, <1>6 DEF Granted
<1>7. Granted(k)'
  BY <1>2, <1>3 DEF Granted
<1>8. FlagsEarned'
  <2>1. Live' = Live
    BY <1>1 DEF Live
  <2>2. "enable_active_testing" \in Approvals /\ "enable_fuzzing" \in Approvals
    BY DEF Approvals
  <2>3. ~ Live' => engine'.rev = 0 /\ stored'.rev = 0
    BY <1>1, <1>2, <2>1 DEF Consent, FlagsEarned
  <2>4. (Live' \/ restarts' > 0) /\ engine'.allow => Granted("enable_active_testing")'
    BY <1>1, <1>2, <1>6, <1>7, <2>1, <2>2 DEF Consent, FlagsEarned
  <2>5. engine'.fuzzing => Granted("enable_fuzzing")'
    BY <1>2, <1>6, <1>7, <2>2 DEF Consent, FlagsEarned
  <2>6. QED
    BY <2>3, <2>4, <2>5 DEF FlagsEarned
<1>9. FuzzersEarned'
  BY <1>1, <1>2 DEF Consent, FuzzersEarned, Allowed
<1>10. NothingWithoutAHuman'
  BY <1>1 DEF Consent, NothingWithoutAHuman, Licensed, Live
<1>11. QED
  BY <1>4, <1>5, <1>8, <1>9, <1>10 DEF Consent

\* Storing the engine stores the consent it has.
LEMMA SaveKeepsConsent ==
  ASSUME TypeOK, Consent, Save
  PROVE  Consent'
<1>1. /\ UNCHANGED <<kind, engine, restarts, licensed, clients, hop>>
      /\ stored'.rev = engine.rev /\ stored'.approvals = engine.approvals
  BY DEF Save, session, traffic, Captured
<1>2. RowEarned'
  BY <1>1 DEF Consent, RowEarned, ApprovalsEarned, Granted, TypeOK
<1>3. FlagsEarned'
  BY <1>1 DEF Consent, FlagsEarned, Granted, Live
<1>4. QED
  BY <1>1, <1>2, <1>3, SameEngine DEF Consent

\* A restored approval has a licence for the scope it is restored with: it was
\* given for the scope in the row, which is the one the program has now, or the
\* session is downgraded and has none.
LEMMA RestartKeepsConsent ==
  ASSUME TypeOK, Consent, Restart
  PROVE  Consent'
<1> DEFINE downgraded == Live /\ <<program, FALSE>> # <<stored.rev, stored.allow>>
           fresh == {k \in Approvals : stored.approvals[k] > aged}
           keeps == IF downgraded THEN {} ELSE fresh
<1>1. /\ UNCHANGED <<kind, stored, hop>> /\ restarts' = restarts + 1
      /\ engine' = RestoredEngine(keeps, downgraded)
      /\ licensed' = licensed \union
           {<<l[1], l[2], restarts + 1, l[4]>> :
              l \in {m \in licensed : m[2] = engine'.rev /\ m[4] > aged}}
  BY DEF Restart, session
<1>2. /\ engine'.rev = IF Live THEN program ELSE 0
      /\ engine'.approvals = [k \in Approvals |-> IF k \in keeps THEN stored.approvals[k] ELSE 0]
      /\ engine'.allow <=> stored.active /\ "enable_active_testing" \in keeps
      /\ engine'.fuzzing <=> stored.fuzzing /\ "enable_fuzzing" \in keeps
  BY <1>1 DEF RestoredEngine
<1>3. \A c \in Clients : clients'[c].pc = "idle"
  BY DEF Restart, IdleClient
<1>4. aged \in Nat /\ stored.approvals \in [Approvals -> Nat]
  BY DEF TypeOK, Snapshot
<1>5. keeps # {} => engine'.rev = stored.rev
  BY <1>2 DEF Consent, FlagsEarned
<1>6. ASSUME NEW k \in keeps
      PROVE  k \in Approvals /\ stored.approvals[k] > aged /\ stored.approvals[k] # 0
  <2>1. k \in Approvals /\ stored.approvals[k] > aged
    BY <1>6
  <2>2. QED
    BY <1>4, <2>1
<1> HIDE DEF keeps, fresh, downgraded
<1>7. ASSUME NEW k \in Approvals, Granted(k)'
      PROVE  k \in keeps /\ engine'.approvals[k] = stored.approvals[k]
  BY <1>2, <1>7 DEF Granted
<1>8. ASSUME NEW k \in keeps
      PROVE  Granted(k)'
  BY <1>2, <1>6, <1>8 DEF Granted
<1>9. ApprovalsEarned'
  <2>1. SUFFICES ASSUME NEW k \in Approvals, Granted(k)'
                 PROVE  <<k, engine'.rev, restarts + 1, stored.approvals[k]>> \in licensed'
    BY <1>1, <1>7 DEF ApprovalsEarned
  <2>2. k \in keeps
    BY <1>7, <2>1
  <2>3. PICK p \in Nat : <<k, stored.rev, p, stored.approvals[k]>> \in licensed
    BY <1>6, <2>2 DEF Consent, RowEarned
  <2> DEFINE m == <<k, stored.rev, p, stored.approvals[k]>>
  <2>4. m \in licensed /\ m[2] = engine'.rev /\ m[4] > aged
    BY <1>5, <1>6, <2>2, <2>3
  <2>5. <<m[1], m[2], restarts + 1, m[4]>> = <<k, engine'.rev, restarts + 1, stored.approvals[k]>>
    BY <2>4
  <2> HIDE DEF m
  <2>6. <<m[1], m[2], restarts + 1, m[4]>> \in licensed'
    BY <1>1, <2>4
  <2>7. QED
    BY <2>5, <2>6
<1>10. RowEarned'
  BY <1>1 DEF Consent, RowEarned
<1>11. FlagsEarned'
  <2>1. ~ Live' => engine'.rev = 0 /\ stored'.rev = 0
    BY <1>1, <1>2 DEF Consent, FlagsEarned, Live
  <2>2. engine'.allow => Granted("enable_active_testing")'
    BY <1>2, <1>8
  <2>3. engine'.fuzzing => Granted("enable_fuzzing")'
    BY <1>2, <1>8
  <2>4. QED
    BY <2>1, <2>2, <2>3 DEF FlagsEarned
<1>12. FuzzersEarned'
  BY <1>3 DEF FuzzersEarned
<1>13. NothingWithoutAHuman'
  BY <1>1 DEF Consent, NothingWithoutAHuman, Licensed, Live
<1>14. QED
  BY <1>9, <1>10, <1>11, <1>12, <1>13 DEF Consent

\* Active testing of a live scope, or of a lab that was restored, and fuzzing
\* anywhere, have a human's approval behind them for the scope they are done
\* in, through every chain of grants, saves, expiries, changes of scope and
\* restarts.
THEOREM HumanBehindIt == Spec => []NothingWithoutAHuman
<1>1. Init => Consent
  <2> SUFFICES ASSUME Init
               PROVE  Consent
    OBVIOUS
  <2>1. TypeOK /\ kind \in {"agent_live", "agent_lab", "api_live"}
    BY InitTypes, Constants DEF Init
  <2>2. PICK active \in BOOLEAN, dryRun \in BOOLEAN :
          engine = NewEngine(active, dryRun) /\ (Live => ~ active)
    BY <2>1 DEF Init, NewEngines, Live
  <2>3. /\ \A k \in Approvals : engine.approvals[k] = 0
        /\ ~ engine.fuzzing /\ (engine.allow => ~ Live) /\ (~ Live => engine.rev = 0)
    BY <2>2 DEF NewEngine
  <2>4. \A k \in Approvals : ~ Granted(k) /\ stored.approvals[k] = 0
    BY <2>3 DEF Init, Granted, Captured
  <2>5. stored.rev = engine.rev /\ restarts = 0 /\ hop = NoHop
    BY DEF Init, Captured
  <2>6. \A c \in Clients : clients[c].pc = "idle"
    BY DEF Init, IdleClient
  <2>7. QED
    BY <2>3, <2>4, <2>5, <2>6
    DEF Consent, ApprovalsEarned, RowEarned, FlagsEarned, FuzzersEarned, NothingWithoutAHuman
<1>2. TypeOK /\ Consent /\ [Next]_vars => Consent'
  <2> SUFFICES ASSUME TypeOK, Consent, [Next]_vars
               PROVE  Consent'
    OBVIOUS
  <2>1. ASSUME UNCHANGED <<kind, engine, stored, restarts, licensed, clients, hop>>
        PROVE  Consent'
    BY <2>1, SameEngine DEF Consent
  <2>2. CASE \E c \in Clients : Begin(c) \/ Attempt(c) \/ Respond(c)
    BY <2>2, BeginKeepsConsent, AttemptKeepsConsent, RespondKeepsConsent
  <2>3. CASE \E k \in Approvals : Grant(k)
    BY <2>3, GrantKeepsConsent
  <2>4. CASE Tick \/ Age \/ Rescope
    BY <2>1, <2>4 DEF Tick, Age, Rescope, session, traffic, authority
  <2>5. CASE Save \/ Restart
    BY <2>5, SaveKeepsConsent, RestartKeepsConsent
  <2>6. CASE UNCHANGED vars
    BY <2>1, <2>6 DEF vars
  <2>7. QED
    BY <2>2, <2>3, <2>4, <2>5, <2>6 DEF Next
<1>3. Consent => NothingWithoutAHuman
  BY DEF Consent
<1>4. QED
  BY <1>1, <1>2, <1>3, TypeCorrect, PTL DEF Spec
=============================================================================
