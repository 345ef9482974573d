-------------------------- MODULE RateLimitingProofs --------------------------
(***************************************************************************)
(* The limits hold for every window, period, number of processes and       *)
(* goroutines.                                                             *)
(***************************************************************************)
EXTENDS RateLimiting, FiniteSetTheorems, TLAPS

-----------------------------------------------------------------------------
(* The local limiter. *)

Steps == {"idle", "allow", "reserve", "delay", "cancel"}

LocalTypeOK ==
    /\ clock \in 0..MaxClock
    /\ limiter \in [credit : Int, last : Int, lastEvent : Int]
    /\ call \in [Goroutines -> [step : Steps, timeToAct : Int, until : Int, sole : BOOLEAN]]
    /\ reservations \in Nat
    /\ passed \in [0..MaxClock -> Nat]
    /\ told \in Int

\* The time at which the limiter's last token was or will be used up; the
\* next one is available Period ticks later.
Used == limiter.last - limiter.credit

\* The limiter exists once a call is under way.
MadeInv ==
    /\ limiter = NoLimiter \/ limiter.last \in 0..clock
    /\ \A g \in Goroutines : call[g].step # "idle" => limiter.last >= 0

\* g has a reservation that Cancel would still give back.
CanGiveBack(g) == call[g].step \in {"delay", "cancel"} /\ clock <= call[g].timeToAct

\* b is a whole number of periods after a.
Spaced(a, b) == \E k \in Nat : b = a + k * Period

\* Reservations that can be given back are all accounted for, whole periods
\* apart from each other up to the limiter's last event.
ReservedInv ==
    \A g \in Goroutines : CanGiveBack(g) =>
      /\ Used = limiter.lastEvent
      /\ Spaced(call[g].timeToAct, limiter.lastEvent)
      /\ call[g].sole => call[g].timeToAct = limiter.lastEvent
      /\ \A h \in Goroutines : CanGiveBack(h) /\ h # g => call[h].timeToAct # call[g].timeToAct

\* Requests let through used up tokens that no cancellation gives back.
PassedInv ==
    \A t \in 0..MaxClock : passed[t] > 0 =>
      /\ t <= Used /\ t <= clock
      /\ \A g \in Goroutines : CanGiveBack(g) => t + Period <= call[g].timeToAct

\* What a caller was told is no earlier than the next token.
ToldInv ==
    /\ \A g \in Goroutines : call[g].step = "cancel" => call[g].until >= call[g].timeToAct
    /\ told # Unknown => limiter.last >= 0 /\ Used + Period <= told

LocalInv == LocalTypeOK /\ MadeInv /\ ReservedInv /\ PassedInv /\ ToldInv /\ RateRespected

\* Whole periods apart.
LEMMA SpacedFacts ==
    ASSUME NEW a \in Int, NEW b \in Int
    PROVE  /\ Spaced(a, a)
           /\ Spaced(a, b) => a <= b /\ Spaced(a, b + Period)
           /\ Spaced(a, b) /\ a # b => a + Period <= b /\ Spaced(a, b - Period)
<1> Period \in Nat /\ Period > 0
  BY LocalAssumption
<1>1. Spaced(a, a)
  <2>1. a = a + 0 * Period
    OBVIOUS
  <2> QED
    BY <2>1 DEF Spaced
<1>2. ASSUME NEW k \in Nat, b = a + k * Period
      PROVE  /\ a <= b /\ Spaced(a, b + Period)
             /\ a # b => a + Period <= b /\ Spaced(a, b - Period)
  <2>1. k * Period \in Nat /\ b + Period = a + (k + 1) * Period
    BY <1>2
  <2>2. CASE k = 0
    BY <1>2, <2>1, <2>2 DEF Spaced
  <2>3. CASE k > 0
    <3>1. k - 1 \in Nat /\ (k - 1) * Period \in Nat
      BY <2>3
    <3>2. b - Period = a + (k - 1) * Period
      BY <1>2
    <3>3. Spaced(a, b - Period) /\ Spaced(a, b + Period)
      BY <2>1, <3>1, <3>2 DEF Spaced
    <3> QED
      BY <2>1, <3>1, <3>2, <3>3, <1>2
  <2> QED
    BY <2>2, <2>3
<1> QED
  BY <1>1, <1>2, Zenon DEF Spaced

\* The fields of a call and of the limiter.
LEMMA LocalFields ==
    ASSUME LocalTypeOK
    PROVE  /\ limiter.credit \in Int /\ limiter.last \in Int /\ limiter.lastEvent \in Int
           /\ Used \in Int /\ clock \in Nat /\ Period \in Nat /\ Period > 0
           /\ \A g \in Goroutines : /\ call[g].step \in Steps /\ call[g].timeToAct \in Int
                                    /\ call[g].until \in Int /\ call[g].sole \in BOOLEAN
<1>1. /\ limiter.credit \in Int /\ limiter.last \in Int /\ limiter.lastEvent \in Int
      /\ \A g \in Goroutines : /\ call[g].step \in Steps /\ call[g].timeToAct \in Int
                               /\ call[g].until \in Int /\ call[g].sole \in BOOLEAN
  BY Zenon DEF LocalTypeOK
<1> QED
  BY <1>1, LocalAssumption DEF LocalTypeOK, Used

\* advance gives a full token exactly when the last one was used up a period
\* ago, and a reservation acts a period after that or at once.
LEMMA AdvancedIs ==
    ASSUME LocalTypeOK
    PROVE  /\ Advanced \in Int /\ (Advanced >= Period <=> Used + Period <= clock)
           /\ Advanced <= Period /\ (Advanced < Period => Advanced = clock - Used)
           /\ TimeToAct = IF Used + Period <= clock THEN clock ELSE Used + Period
  BY LocalFields DEF Advanced, Least, Used, TimeToAct

\* A token is used up at the time its reservation may act.
LEMMA TakeTokenEffect ==
    ASSUME LocalTypeOK, TakeToken
    PROVE  /\ limiter' \in [credit : Int, last : Int, lastEvent : Int] /\ limiter'.last = clock
           /\ Used' = TimeToAct /\ limiter'.lastEvent = TimeToAct
<1>1. limiter'.last = clock /\ limiter'.lastEvent = TimeToAct /\ limiter'.credit = Advanced - Period
  BY DEF TakeToken
<1>2. TimeToAct \in Int /\ Advanced \in Int /\ clock - (Advanced - Period) = TimeToAct
  BY AdvancedIs, LocalFields
<1>3. clock \in Int /\ Advanced - Period \in Int
  BY <1>2, LocalFields
<1> QED
  BY <1>1, <1>2, <1>3 DEF Used, TakeToken

\* Only the latest reservation gives anything back, and then a whole token.
LEMMA GiveBackEffect ==
    ASSUME LocalTypeOK, MadeInv, ReservedInv,
           NEW g \in Goroutines, call[g].step = "cancel", GiveBack(call[g].timeToAct)
    PROVE  \/ /\ limiter' = limiter
              /\ CanGiveBack(g) => call[g].timeToAct # limiter.lastEvent
           \/ /\ CanGiveBack(g) /\ call[g].timeToAct = limiter.lastEvent
              /\ limiter' \in [credit : Int, last : Int, lastEvent : Int] /\ limiter'.last = clock
              /\ Used' = limiter.lastEvent - Period
              /\ limiter'.lastEvent = IF limiter.lastEvent - Period >= clock
                                      THEN limiter.lastEvent - Period ELSE limiter.lastEvent
<1> DEFINE T == call[g].timeToAct
<1>0. /\ T \in Int /\ clock \in Nat /\ Used \in Int /\ Period \in Nat /\ Period > 0
      /\ limiter.lastEvent \in Int /\ Advanced \in Int
  BY LocalFields, AdvancedIs
<1>1. CASE T < clock
  BY <1>0, <1>1 DEF GiveBack, CanGiveBack
<1>2. CASE clock <= T
  <2>1. CanGiveBack(g) /\ Used = limiter.lastEvent /\ Spaced(T, limiter.lastEvent)
    BY <1>2 DEF CanGiveBack, ReservedInv
  <2>2. CASE T # limiter.lastEvent
    <3>1. T + Period <= limiter.lastEvent
      BY <1>0, <2>1, <2>2, SpacedFacts
    <3>2. Period - (limiter.lastEvent - T) <= 0
      BY <1>0, <3>1
    <3> QED
      BY <2>2, <3>2 DEF GiveBack
  <2>3. CASE T = limiter.lastEvent
    <3>1. Advanced = clock - T
      BY <1>0, <1>2, <2>1, <2>3, AdvancedIs
    <3>2. /\ Period - (limiter.lastEvent - T) = Period /\ ~(T < clock) /\ ~(Period <= 0)
          /\ Least(Period, Advanced + Period) = clock - T + Period
      BY <1>0, <1>2, <2>3, <3>1 DEF Least
    <3>3. limiter' = [credit |-> clock - T + Period, last |-> clock,
                      lastEvent |-> IF T - Period >= clock THEN T - Period ELSE T]
      BY <2>3, <3>2 DEF GiveBack
    <3>4. limiter'.credit = clock - T + Period /\ limiter'.last = clock
      BY <3>3
    <3>5. Used' = T - Period
      BY <1>0, <3>4 DEF Used
    <3>6. limiter'.lastEvent = IF T - Period >= clock THEN T - Period ELSE T
      BY <3>3
    <3>7. limiter' \in [credit : Int, last : Int, lastEvent : Int]
      BY <1>0, <3>3
    <3> QED
      BY <2>1, <2>3, <3>4, <3>5, <3>6, <3>7
  <2> QED
    BY <2>2, <2>3
<1> QED
  BY <1>0, <1>1, <1>2

\* A step that leaves the limiter and what was let through alone, and adds no
\* reservation, keeps them consistent.
LEMMA LocalFrame ==
    ASSUME LocalInv, UNCHANGED <<limiter, passed>>, clock' \in Nat, clock <= clock',
           \A h \in Goroutines : CanGiveBack(h)' =>
             /\ CanGiveBack(h) /\ call'[h].timeToAct = call[h].timeToAct
             /\ call'[h].sole => call[h].sole
    PROVE  ReservedInv' /\ PassedInv' /\ RateRespected'
<1> USE DEF LocalInv
<1> Used' = Used
  BY DEF Used
<1>1. ReservedInv'
  BY DEF ReservedInv
<1>2. \A t \in 0..MaxClock : t <= clock => t <= clock'
  BY LocalFields
<1>3. PassedInv'
  BY <1>2 DEF PassedInv
<1> QED
  BY <1>1, <1>3 DEF RateRespected

\* SetRateIfChanged makes a limiter only where there was none, and then there
\* are no reservations yet.
LEMMA SetRateStep ==
    ASSUME LocalInv, NEW g \in Goroutines, SetRateIfChanged(g) PROVE LocalInv'
<1> USE DEF LocalInv
<1> /\ clock \in 0..MaxClock /\ clock \in Nat /\ Period \in Nat
    /\ limiter.credit \in Int /\ limiter.last \in Int
  BY LocalFields DEF LocalTypeOK
<1>1. call' \in [Goroutines -> [step : Steps, timeToAct : Int, until : Int, sole : BOOLEAN]]
  BY Zenon DEF SetRateIfChanged, LocalTypeOK, Steps
<1>2. \A h \in Goroutines : CanGiveBack(h)' => CanGiveBack(h) /\ call'[h] = call[h]
  BY DEF SetRateIfChanged, CanGiveBack, LocalTypeOK
<1>3. \A h \in Goroutines : call'[h].step = "cancel" => call'[h] = call[h]
  BY DEF SetRateIfChanged, LocalTypeOK
<1>4. CASE limiter = NoLimiter
  <2>1. limiter' = [credit |-> Period, last |-> clock, lastEvent |-> 0]
    BY <1>4 DEF SetRateIfChanged
  <2>2. limiter'.last = clock /\ limiter' \in [credit : Int, last : Int, lastEvent : Int]
    BY <2>1
  <2>3. Used = -1 /\ limiter.last = -1
    BY <1>4 DEF NoLimiter, Used
  <2>4. \A h \in Goroutines : call[h].step = "idle"
    BY <2>3 DEF MadeInv
  <2>5. \A t \in 0..MaxClock : ~(passed[t] > 0)
    BY <2>3 DEF PassedInv
  <2>6. told = Unknown
    BY <2>3 DEF ToldInv
  <2>7. \A h \in Goroutines : ~CanGiveBack(h)'
    BY <1>2, <2>4 DEF CanGiveBack
  <2>8. UNCHANGED <<clock, reservations, passed, told>>
    BY DEF SetRateIfChanged
  <2>9. LocalTypeOK' /\ MadeInv'
    BY <1>1, <2>2, <2>8 DEF LocalTypeOK, MadeInv
  <2>10. ReservedInv' /\ PassedInv' /\ RateRespected'
    BY <2>5, <2>7, <2>8 DEF ReservedInv, PassedInv, RateRespected
  <2>11. ToldInv'
    BY <1>3, <2>6, <2>8 DEF ToldInv
  <2> QED
    BY <2>9, <2>10, <2>11
<1>5. CASE limiter # NoLimiter
  <2>1. UNCHANGED <<clock, limiter, reservations, passed, told>>
    BY <1>5 DEF SetRateIfChanged
  <2>2. LocalTypeOK' /\ MadeInv'
    BY <1>1, <1>5, <2>1 DEF LocalTypeOK, MadeInv
  <2>3. ReservedInv' /\ PassedInv' /\ RateRespected'
    BY <1>2, <2>1, LocalFrame
  <2>4. ToldInv'
    BY <1>3, <2>1 DEF ToldInv, Used
  <2> QED
    BY <2>2, <2>3, <2>4
<1> QED
  BY <1>4, <1>5

\* Allow lets a request through only when the last token was used up a period
\* ago, and then nobody holds a reservation that could be given back.
LEMMA AllowStep ==
    ASSUME LocalInv, NEW g \in Goroutines, AllowNow(g) PROVE LocalInv'
<1> USE DEF LocalInv
<1> /\ clock \in 0..MaxClock /\ clock \in Nat /\ Period \in Nat /\ Period > 0
    /\ Used \in Int /\ limiter.last \in Int /\ passed \in [0..MaxClock -> Nat]
    /\ \A h \in Goroutines : call[h].timeToAct \in Int
  BY LocalFields DEF LocalTypeOK
<1>1. call' \in [Goroutines -> [step : Steps, timeToAct : Int, until : Int, sole : BOOLEAN]]
  <2>1. Idle \in [step : Steps, timeToAct : Int, until : Int, sole : BOOLEAN]
    BY DEF Idle, Steps
  <2>2. CASE call' = [call EXCEPT ![g] = Idle]
    BY <2>1, <2>2, Zenon DEF LocalTypeOK
  <2>3. CASE call' = [call EXCEPT ![g].step = "reserve"]
    BY <2>3, ZenonT(30) DEF LocalTypeOK, Steps
  <2> QED
    BY <2>2, <2>3 DEF AllowNow
<1>0. \A h \in Goroutines : call'[h] = call[h] \/ call'[h].step \in {"idle", "reserve"}
  BY DEF AllowNow, LocalTypeOK, Idle
<1>2. \A h \in Goroutines : CanGiveBack(h)' => CanGiveBack(h) /\ call'[h] = call[h]
  BY <1>0 DEF CanGiveBack, AllowNow
<1>3. \A h \in Goroutines : call'[h].step = "cancel" => call'[h] = call[h]
  BY <1>0
<1>4. limiter.last >= 0
  BY DEF MadeInv, AllowNow
<1>5. CASE Advanced >= Period
  <2>1. /\ TakeToken /\ passed' = [passed EXCEPT ![clock] = @ + 1] /\ told' = Unknown
        /\ UNCHANGED <<clock, reservations>>
    BY <1>5 DEF AllowNow
  <2>2. Used + Period <= clock /\ TimeToAct = clock
    BY <1>5, AdvancedIs
  <2>3. /\ limiter' \in [credit : Int, last : Int, lastEvent : Int]
        /\ limiter'.last = clock /\ Used' = clock
    BY <2>1, <2>2, TakeTokenEffect
  <2>4. ASSUME NEW h \in Goroutines, CanGiveBack(h) PROVE FALSE
    <3>1. Used = limiter.lastEvent /\ Spaced(call[h].timeToAct, limiter.lastEvent)
      BY <2>4, Zenon DEF ReservedInv
    <3>2. call[h].timeToAct <= Used
      BY <3>1, SpacedFacts, ZenonT(30)
    <3> QED
      BY <2>2, <2>4, <3>2 DEF CanGiveBack
  <2>5. MadeInv'
    BY <2>1, <2>3 DEF MadeInv
  <2>11. passed' \in [0..MaxClock -> Nat] /\ told' \in Int
    BY <2>1 DEF Unknown
  <2>12. LocalTypeOK'
    BY <1>1, <2>1, <2>3, <2>11 DEF LocalTypeOK
  <2>6. \A t \in 0..MaxClock : passed[t] > 0 => t + Period <= clock
    BY <2>2 DEF PassedInv
  <2>7. passed'[clock] = 1 /\ \A t \in 0..MaxClock : t # clock => passed'[t] = passed[t]
    BY <2>1, <2>6
  <2>8. PassedInv' /\ ReservedInv'
    BY <1>2, <2>1, <2>3, <2>4, <2>6, <2>7 DEF PassedInv, ReservedInv
  <2>9. RateRespected'
    BY <2>6, <2>7 DEF RateRespected
  <2>10. ToldInv'
    BY <1>3, <2>1 DEF ToldInv
  <2> QED
    BY <2>5, <2>8, <2>9, <2>10, <2>12
<1>6. CASE ~(Advanced >= Period)
  <2>1. UNCHANGED <<clock, limiter, reservations, passed, told>>
    BY <1>6 DEF AllowNow
  <2>2. LocalTypeOK' /\ MadeInv'
    BY <1>1, <1>4, <2>1 DEF LocalTypeOK, MadeInv
  <2>3. ReservedInv' /\ PassedInv' /\ RateRespected'
    BY <1>2, <2>1, LocalFrame
  <2>4. ToldInv'
    BY <1>3, <2>1 DEF ToldInv, Used
  <2> QED
    BY <2>2, <2>3, <2>4
<1> QED
  BY <1>5, <1>6

\* A reservation acts a whole period after the last event that can still be
\* given back, and a period after every request that was let through.
LEMMA ReserveStep ==
    ASSUME LocalInv, NEW g \in Goroutines, Reserve(g) PROVE LocalInv'
<1> USE DEF LocalInv
<1> DEFINE T == TimeToAct
           new == [step |-> "delay", timeToAct |-> T, until |-> 0, sole |-> Outstanding = {}]
<1> /\ clock \in 0..MaxClock /\ clock \in Nat /\ Period \in Nat /\ Period > 0
    /\ Used \in Int /\ limiter.last \in Int /\ T \in Int /\ limiter.lastEvent \in Int
    /\ \A h \in Goroutines : call[h].timeToAct \in Int
  BY LocalFields, AdvancedIs DEF LocalTypeOK
<1>1. /\ limiter' \in [credit : Int, last : Int, lastEvent : Int]
      /\ limiter'.last = clock /\ Used' = T /\ limiter'.lastEvent = T
  BY TakeTokenEffect DEF Reserve
<1>2. Used + Period <= T /\ clock <= T /\ (clock <= Used => T = Used + Period)
  BY AdvancedIs
<1>3. /\ call'[g] = new
      /\ \A h \in Goroutines : h # g => call'[h] = [call[h] EXCEPT !.sole = FALSE]
  BY DEF Reserve
<1>4. call'[g].step = "delay" /\ call'[g].timeToAct = T
  BY <1>3
<1>5. \A h \in Goroutines : h # g => /\ call'[h].step = call[h].step /\ ~call'[h].sole
                                     /\ call'[h].timeToAct = call[h].timeToAct
                                     /\ call'[h].until = call[h].until
  BY <1>3, ZenonT(30) DEF LocalTypeOK
<1>6. call' \in [Goroutines -> [step : Steps, timeToAct : Int, until : Int, sole : BOOLEAN]]
  <2>1. new \in [step : Steps, timeToAct : Int, until : Int, sole : BOOLEAN]
    BY DEF Steps
  <2>2. \A h \in Goroutines : [call[h] EXCEPT !.sole = FALSE]
                                 \in [step : Steps, timeToAct : Int, until : Int, sole : BOOLEAN]
    BY ZenonT(30) DEF LocalTypeOK
  <2> QED
    BY <2>1, <2>2, Zenon DEF Reserve
<1>7. UNCHANGED <<clock, passed>> /\ told' = Unknown /\ reservations' = reservations + 1
  BY DEF Reserve
<1>8. LocalTypeOK' /\ MadeInv'
  BY <1>1, <1>6, <1>7 DEF LocalTypeOK, MadeInv, Unknown
<1>9. ASSUME NEW h \in Goroutines, CanGiveBack(h)', h # g
      PROVE  Spaced(call'[h].timeToAct, T) /\ call'[h].timeToAct < T /\ CanGiveBack(h)
  <2>1. CanGiveBack(h)
    BY <1>5, <1>7, <1>9 DEF CanGiveBack
  <2>2. Used = limiter.lastEvent /\ Spaced(call[h].timeToAct, limiter.lastEvent)
    BY <2>1, Zenon DEF ReservedInv
  <2>3. call[h].timeToAct <= Used /\ Spaced(call[h].timeToAct, Used + Period)
    BY <2>2, SpacedFacts
  <2>4. T = Used + Period
    BY <1>2, <2>1, <2>3 DEF CanGiveBack
  <2> QED
    BY <1>5, <1>9, <2>1, <2>3, <2>4
<1>10. ReservedInv'
  <2>1. Spaced(T, T)
    BY SpacedFacts
  <2>2. \A h \in Goroutines : CanGiveBack(h)' => Spaced(call'[h].timeToAct, T)
    BY <1>4, <1>9, <2>1
  <2>3. \A h \in Goroutines : call'[h].sole => call'[h].timeToAct = T
    BY <1>4, <1>5
  <2>4. ASSUME NEW h \in Goroutines, NEW k \in Goroutines, CanGiveBack(h)', CanGiveBack(k)', k # h
        PROVE  call'[k].timeToAct # call'[h].timeToAct
    BY <1>4, <1>5, <1>9, <2>4 DEF ReservedInv
  <2> QED
    BY <1>1, <2>2, <2>3, <2>4, Zenon DEF ReservedInv
<1>11. PassedInv'
  <2>1. \A t \in 0..MaxClock : passed[t] > 0 => t <= Used /\ t <= clock /\ t + Period <= T /\ t <= T
    BY <1>2 DEF PassedInv
  <2> QED
    BY <1>1, <1>4, <1>5, <1>7, <1>9, <2>1 DEF PassedInv
<1>12. RateRespected' /\ ToldInv'
  BY <1>4, <1>5, <1>7 DEF RateRespected, ToldInv
<1> QED
  BY <1>8, <1>10, <1>11, <1>12

\* The caller is told the time at which its reservation may act, or later.
LEMMA DelayStep ==
    ASSUME LocalInv, NEW g \in Goroutines, Delay(g) PROVE LocalInv'
<1> USE DEF LocalInv
<1> DEFINE until == IF clock < call[g].timeToAct THEN call[g].timeToAct ELSE clock
<1> clock \in 0..MaxClock /\ clock \in Nat /\ call[g].timeToAct \in Int
  BY LocalFields DEF LocalTypeOK
<1>1. until \in Int /\ until >= call[g].timeToAct
  OBVIOUS
<1>2. UNCHANGED <<clock, limiter, reservations, passed, told>>
  BY DEF Delay
<1>3. /\ call'[g].step = "cancel" /\ call'[g].until = until
      /\ \A h \in Goroutines : /\ h # g => call'[h] = call[h]
                               /\ call'[h].timeToAct = call[h].timeToAct
                               /\ call'[h].sole = call[h].sole
  BY DEF Delay, LocalTypeOK
<1>4. call' \in [Goroutines -> [step : Steps, timeToAct : Int, until : Int, sole : BOOLEAN]]
  BY <1>1, ZenonT(30) DEF Delay, LocalTypeOK, Steps
<1>5. LocalTypeOK' /\ MadeInv'
  BY <1>2, <1>3, <1>4 DEF LocalTypeOK, MadeInv, Delay
<1>6. \A h \in Goroutines : CanGiveBack(h)' => CanGiveBack(h)
  BY <1>2, <1>3 DEF CanGiveBack, Delay
<1>7. ReservedInv' /\ PassedInv' /\ RateRespected'
  BY <1>2, <1>3, <1>6, LocalFrame
<1>8. ToldInv'
  BY <1>1, <1>2, <1>3 DEF ToldInv, Used
<1> QED
  BY <1>5, <1>7, <1>8

\* Cancel gives back the latest reservation's token, which was counted after
\* every request let through, or nothing.
LEMMA CancelStep ==
    ASSUME LocalInv, NEW g \in Goroutines, Cancel(g) PROVE LocalInv'
<1> USE DEF LocalInv
<1> DEFINE T == call[g].timeToAct
<1> /\ clock \in 0..MaxClock /\ clock \in Nat /\ Period \in Nat /\ Period > 0
    /\ Used \in Int /\ limiter.last \in Int /\ limiter.lastEvent \in Int /\ told \in Int
    /\ \A h \in Goroutines : call[h].timeToAct \in Int /\ call[h].until \in Int
  BY LocalFields DEF LocalTypeOK
<1>1. /\ call[g].step = "cancel" /\ GiveBack(T) /\ UNCHANGED <<clock, reservations, passed>>
      /\ told' = IF call[g].sole /\ clock <= T THEN call[g].until ELSE told
  BY DEF Cancel
<1>2. call'[g].step = "idle" /\ \A h \in Goroutines : h # g => call'[h] = call[h]
  BY DEF Cancel, LocalTypeOK, Idle
<1>3. call' \in [Goroutines -> [step : Steps, timeToAct : Int, until : Int, sole : BOOLEAN]]
  <2>1. Idle \in [step : Steps, timeToAct : Int, until : Int, sole : BOOLEAN]
    BY DEF Idle, Steps
  <2> QED
    BY <2>1, Zenon DEF Cancel, LocalTypeOK
<1>4. \A h \in Goroutines : CanGiveBack(h)' => CanGiveBack(h) /\ call'[h] = call[h] /\ h # g
  BY <1>1, <1>2 DEF CanGiveBack
<1>5. \A h \in Goroutines : call'[h].step = "cancel" => call'[h].until >= call'[h].timeToAct
  BY <1>2 DEF ToldInv
<1>6. told' \in Int /\ limiter.last >= 0
  BY <1>1 DEF MadeInv
<1>7. CASE limiter' = limiter /\ (CanGiveBack(g) => T # limiter.lastEvent)
  <2>1. ~(call[g].sole /\ clock <= T)
    BY <1>1, <1>7 DEF CanGiveBack, ReservedInv
  <2>2. LocalTypeOK' /\ MadeInv'
    BY <1>1, <1>3, <1>6, <1>7 DEF LocalTypeOK, MadeInv
  <2>3. ReservedInv' /\ PassedInv' /\ RateRespected'
    BY <1>1, <1>4, <1>7, LocalFrame
  <2>4. ToldInv'
    BY <1>1, <1>5, <1>7, <2>1 DEF ToldInv, Used
  <2> QED
    BY <2>2, <2>3, <2>4
<1>8. CASE /\ CanGiveBack(g) /\ T = limiter.lastEvent
           /\ limiter' \in [credit : Int, last : Int, lastEvent : Int] /\ limiter'.last = clock
           /\ Used' = limiter.lastEvent - Period
           /\ limiter'.lastEvent = IF limiter.lastEvent - Period >= clock
                                   THEN limiter.lastEvent - Period ELSE limiter.lastEvent
  <2>1. LocalTypeOK' /\ MadeInv'
    BY <1>1, <1>3, <1>6, <1>8 DEF LocalTypeOK, MadeInv
  <2>2. Used = limiter.lastEvent
    BY <1>8, Zenon DEF ReservedInv
  <2>3. ASSUME NEW h \in Goroutines, CanGiveBack(h)'
        PROVE  /\ CanGiveBack(h) /\ call'[h] = call[h] /\ ~call[h].sole
               /\ limiter'.lastEvent = limiter.lastEvent - Period
               /\ Spaced(call[h].timeToAct, limiter.lastEvent - Period)
    <3>1. CanGiveBack(h) /\ call'[h] = call[h] /\ h # g
      BY <1>4, <2>3
    <3>2. /\ Spaced(call[h].timeToAct, limiter.lastEvent) /\ call[h].timeToAct # limiter.lastEvent
          /\ call[h].sole => call[h].timeToAct = limiter.lastEvent
      BY <1>8, <3>1, Zenon DEF ReservedInv
    <3>3. /\ call[h].timeToAct + Period <= limiter.lastEvent
          /\ Spaced(call[h].timeToAct, limiter.lastEvent - Period)
      BY <3>2, SpacedFacts
    <3>4. clock <= call[h].timeToAct
      BY <3>1 DEF CanGiveBack
    <3> QED
      BY <1>8, <3>1, <3>2, <3>3, <3>4
  <2>4. ReservedInv'
    BY <1>8, <2>3 DEF ReservedInv
  <2>5. PassedInv'
    BY <1>1, <1>8, <2>3 DEF PassedInv
  <2>6. RateRespected'
    BY <1>1 DEF RateRespected
  <2>7. ToldInv'
    BY <1>1, <1>5, <1>8, <2>2 DEF ToldInv
  <2> QED
    BY <2>1, <2>4, <2>5, <2>6, <2>7
<1> QED
  BY <1>1, <1>7, <1>8, GiveBackEffect

\* The invariant of the local limiter is inductive.
LEMMA LocalStep == LocalInv /\ [LocalNext]_localVars => LocalInv'
<1> SUFFICES ASSUME LocalInv, [LocalNext]_localVars PROVE LocalInv'
  OBVIOUS
<1>1. CASE ClockTicks
  <2> USE DEF LocalInv
  <2>1. /\ UNCHANGED <<limiter, call, reservations, passed, told>>
        /\ clock' \in 0..MaxClock /\ clock \in Nat /\ clock' = clock + 1
    BY <1>1, LocalAssumption DEF ClockTicks, LocalTypeOK
  <2>2. LocalTypeOK' /\ MadeInv'
    BY <2>1, LocalFields DEF LocalTypeOK, MadeInv
  <2>3. \A h \in Goroutines : CanGiveBack(h)' => CanGiveBack(h)
    BY <2>1, LocalFields DEF CanGiveBack
  <2>4. ReservedInv' /\ PassedInv' /\ RateRespected'
    BY <2>1, <2>3, LocalFrame
  <2> QED
    BY <2>1, <2>2, <2>4 DEF ToldInv, Used
<1>2. CASE UNCHANGED localVars
  BY <1>2 DEF localVars, LocalInv, LocalTypeOK, MadeInv, ReservedInv, PassedInv, ToldInv, RateRespected,
              CanGiveBack, Used
<1> QED
  BY <1>1, <1>2, SetRateStep, AllowStep, ReserveStep, DelayStep, CancelStep DEF LocalNext

\* It holds when the process starts.
LEMMA LocalInitial == LocalInit => LocalInv
<1> SUFFICES ASSUME LocalInit PROVE LocalInv
  OBVIOUS
<1>1. NoLimiter \in [credit : Int, last : Int, lastEvent : Int] /\ NoLimiter.last = -1
  BY DEF NoLimiter
<1>2. /\ Idle \in [step : Steps, timeToAct : Int, until : Int, sole : BOOLEAN]
      /\ Idle.step = "idle"
  BY DEF Idle, Steps
<1>3. LocalTypeOK
  BY <1>1, <1>2, LocalAssumption DEF LocalInit, LocalTypeOK, Unknown
<1>4. \A g \in Goroutines : call[g].step = "idle"
  BY <1>2 DEF LocalInit
<1>5. \A t \in 0..MaxClock : passed[t] = 0
  BY DEF LocalInit
<1> QED
  BY <1>3, <1>4, <1>5 DEF LocalInv, MadeInv, ReservedInv, PassedInv, ToldInv, RateRespected, CanGiveBack,
                          LocalInit

\* A worker with the local limiter lets requests through at least a period
\* apart, however many goroutines call it and whatever they reserve and cancel.
THEOREM RateKept == LimitingSpec => []RateRespected
<1>1. LimitingInit => LocalInv
  BY LocalInitial DEF LimitingInit
<1>2. LocalInv /\ [LimitingNext]_limitingVars => LocalInv'
  BY LocalStep DEF LimitingNext, limitingVars
<1>3. LocalInv => RateRespected
  BY DEF LocalInv
<1> QED
  BY <1>1, <1>2, <1>3, PTL DEF LimitingSpec

\* A caller refused alone that waits for as long as it was told finds a token.
THEOREM DelaySuffices == LimitingSpec => []RetryAfterSuffices
<1>1. LimitingInit => LocalInv
  BY LocalInitial DEF LimitingInit
<1>2. LocalInv /\ [LimitingNext]_limitingVars => LocalInv'
  BY LocalStep DEF LimitingNext, limitingVars
<1>3. LocalInv => RetryAfterSuffices
  <2> SUFFICES ASSUME LocalInv, told # Unknown, clock >= told
               PROVE  limiter # NoLimiter /\ Advanced >= Period
    BY DEF RetryAfterSuffices
  <2>1. limiter.last >= 0 /\ Used + Period <= told
    BY DEF LocalInv, ToldInv
  <2>2. Used + Period <= clock
    BY <2>1, LocalFields DEF LocalInv, LocalTypeOK
  <2> QED
    BY <2>1, <2>2, AdvancedIs DEF LocalInv, NoLimiter
<1> QED
  BY <1>1, <1>2, <1>3, PTL DEF LimitingSpec

-----------------------------------------------------------------------------
(* The Redis limiter. *)

\* A request was stamped by its process's clock at most MaxDelay ticks ago.
RequestInv ==
    \A g \in Callers : request[g] # NoRequest =>
      /\ request[g].sentAt <= now /\ now <= request[g].sentAt + MaxDelay
      /\ request[g].stamp = request[g].sentAt + Offset[ProcOf[g]]
      /\ request[g].member[1] = request[g].stamp

\* A granted call's member was stamped neither too long before, by any
\* process's clock, ...
StampInv ==
    \A x \in granted :
      /\ x[1] <= now /\ x[1] + Window <= expireAt
      /\ \A q \in Procs : x[1] + Offset[q] <= x[2][1] + MaxDelay + MaxSkew

\* ... and stays in the set, as the only one of its name, for as long as the
\* limit is guaranteed.
StoredInv ==
    /\ IsFiniteSet(DOMAIN zset)
    /\ \A x \in granted : now < x[1] + Guaranteed => x[2] \in DOMAIN zset
    /\ \A x, y \in granted : x[2] = y[2] /\ x[1] < y[1] => y[1] >= x[1] + Guaranteed

RedisInv == TypeOK /\ RequestInv /\ StampInv /\ StoredInv /\ WindowRespected

\* What a request carries.
LEMMA RequestFields ==
    ASSUME TypeOK, NEW g \in Callers, request[g] # NoRequest
    PROVE  /\ request[g].sentAt \in 0..MaxNow /\ request[g].stamp \in Nat
           /\ request[g].member \in Members
<1>1. request[g] \in Requests
  BY DEF TypeOK
<1> QED
  BY <1>1 DEF Requests

\* What the script finds is finite, is scored by its members' stamps, and
\* has every member granted within the guaranteed stretch.
LEMMA LiveKeeps ==
    ASSUME RedisInv, NEW g \in Callers, request[g] # NoRequest
    PROVE  LET live == Live(request[g].stamp)
           IN  /\ DOMAIN live \subseteq DOMAIN zset /\ IsFiniteSet(DOMAIN live)
               /\ \A m \in DOMAIN live : live[m] = m[1]
               /\ \A x \in granted : now < x[1] + Guaranteed => x[2] \in DOMAIN live
<1> DEFINE r == request[g]
           live == Live(r.stamp)
<1> USE DEF RedisInv
<1> /\ r.sentAt \in Nat /\ r.stamp \in Nat /\ now \in Nat /\ expireAt \in Nat
    /\ {Window, MaxDelay, MaxSkew} \subseteq Nat /\ ProcOf[g] \in Procs
    /\ \A p \in Procs : Offset[p] \in Nat
  BY RequestFields, RedisAssumption DEF TypeOK
<1>1. DOMAIN Stored \subseteq DOMAIN zset /\ \A m \in DOMAIN Stored : Stored[m] = m[1]
  BY DEF Stored, EmptySet, TypeOK
<1>2. /\ DOMAIN live = {m \in DOMAIN Stored : Stored[m] > r.stamp - Window}
      /\ \A m \in DOMAIN live : live[m] = Stored[m]
  BY DEF Live
<1>3. IsFiniteSet(DOMAIN live)
  BY <1>1, <1>2, FS_Subset DEF StoredInv
<1>4. ASSUME NEW x \in granted, now < x[1] + Guaranteed PROVE x[2] \in DOMAIN live
  <2>1. x[1] \in Nat /\ x[2] \in Members /\ x[2][1] \in Nat
    BY DEF TypeOK, Members
  <2>2. /\ x[1] + Window <= expireAt /\ x[1] + Offset[ProcOf[g]] <= x[2][1] + MaxDelay + MaxSkew
        /\ x[2] \in DOMAIN zset
    BY <1>4 DEF StampInv, StoredInv
  <2>3. now < expireAt
    BY <1>4, <2>1, <2>2 DEF Guaranteed
  <2>4. x[2] \in DOMAIN Stored /\ Stored[x[2]] = x[2][1]
    BY <1>1, <2>2, <2>3 DEF Stored
  <2>5. r.stamp <= now + Offset[ProcOf[g]]
    BY DEF RequestInv
  <2>6. x[2][1] > r.stamp - Window
    BY <1>4, <2>1, <2>2, <2>5 DEF Guaranteed
  <2> QED
    BY <1>2, <2>4, <2>6
<1> QED
  BY <1>1, <1>2, <1>3, <1>4

\* Calls granted within the guaranteed stretch have different members, all of
\* which the script finds: ZCARD counts every one of them.
LEMMA GrantsCounted ==
    ASSUME RedisInv, NEW g \in Callers, request[g] # NoRequest, NEW b \in 0..MaxNow, now <= b
    PROVE  /\ IsFiniteSet(GrantedUpTo(b))
           /\ Cardinality(GrantedUpTo(b)) <= Cardinality(DOMAIN Live(request[g].stamp))
<1> DEFINE S == GrantedUpTo(b)
           D == DOMAIN Live(request[g].stamp)
           f == [x \in S |-> x[2]]
<1> /\ now \in Nat /\ b \in Nat /\ Guaranteed \in Int
    /\ \A x \in S : x \in granted /\ x[1] \in Nat /\ x = <<x[1], x[2]>>
  BY RedisAssumption DEF RedisInv, TypeOK, Guaranteed, GrantedUpTo, Members
<1>1. \A x \in S : b - Guaranteed < x[1] /\ x[1] <= b
  BY DEF GrantedUpTo
<1>2. \A x \in S : x[2] \in D
  BY <1>1, LiveKeeps
<1>3. ASSUME NEW x \in S, NEW y \in S, x[2] = y[2] PROVE x = y
  <2>1. ~(x[1] < y[1]) /\ ~(y[1] < x[1])
    BY <1>1, <1>3 DEF RedisInv, StoredInv
  <2> QED
    BY <1>3, <2>1
<1>4. f \in Injection(S, D)
  BY <1>2, <1>3 DEF Injection, IsInjective
<1>5. IsFiniteSet(D)
  BY LiveKeeps
<1> HIDE DEF S, D, f
<1>6. IsFiniteSet(S) /\ Cardinality(S) <= Cardinality(D)
  BY <1>4, <1>5, FS_Injection
<1> QED
  BY <1>6 DEF S, D

\* A set has at most one element more than another it exceeds by one.
LEMMA AddsOne ==
    ASSUME NEW S, IsFiniteSet(S), NEW x, NEW T \in SUBSET (S \cup {x})
    PROVE  /\ Cardinality(T) \in Nat /\ Cardinality(S) \in Nat
           /\ Cardinality(T) <= Cardinality(S) + 1
<1>1. /\ IsFiniteSet(S \cup {x})
      /\ Cardinality(S \cup {x}) = IF x \in S THEN Cardinality(S) ELSE Cardinality(S) + 1
  BY FS_AddElement
<1>2. IsFiniteSet(T) /\ Cardinality(T) <= Cardinality(S \cup {x})
  BY <1>1, FS_Subset
<1>3. Cardinality(T) \in Nat /\ Cardinality(S) \in Nat
  BY <1>2, FS_CardinalityType
<1> QED
  BY <1>1, <1>2, <1>3

\* The script keeps the invariant: it adds a member only below the limit.
LEMMA ScriptStep ==
    ASSUME RedisInv, NEW g \in Callers, NEW replied \in BOOLEAN, RunScript(g, replied)
    PROVE  RedisInv'
<1> DEFINE r == request[g]
           live == Live(r.stamp)
<1> USE DEF RedisInv
<1>0. /\ r # NoRequest /\ UNCHANGED <<now, counter>> /\ expireAt' = now + Window
      /\ request' = [request EXCEPT ![g] = NoRequest]
      /\ zset' = IF BelowLimit(live) THEN Add(live, r) ELSE live
      /\ granted' = IF BelowLimit(live) /\ replied /\ r.member \notin DOMAIN live
                    THEN granted \cup {<<now, r.member>>} ELSE granted
  BY DEF RunScript
<1> /\ r.sentAt \in Nat /\ r.stamp \in Nat /\ r.member \in Members /\ r.member[1] = r.stamp
    /\ now \in 0..MaxNow /\ {Window, Limit, MaxDelay, MaxSkew, MaxNow} \subseteq Nat
    /\ Guaranteed \in Int
    /\ ProcOf[g] \in Procs /\ \A p \in Procs : Offset[p] \in Nat
    /\ \A p, q \in Procs : Offset[p] - Offset[q] <= MaxSkew
  <2>1. r.sentAt \in 0..MaxNow /\ r.stamp \in Nat /\ r.member \in Members /\ r.member[1] = r.stamp
    BY <1>0, RequestFields, ZenonT(30) DEF RequestInv
  <2> QED
    BY <2>1, RedisAssumption DEF TypeOK, Guaranteed
<1>1. /\ DOMAIN live \subseteq DOMAIN zset /\ IsFiniteSet(DOMAIN live)
      /\ \A m \in DOMAIN live : live[m] = m[1]
      /\ \A x \in granted : now < x[1] + Guaranteed => x[2] \in DOMAIN live
  BY <1>0, LiveKeeps
<1> HIDE DEF live
<1>2. /\ DOMAIN Add(live, r) = DOMAIN live \cup {r.member}
      /\ \A m \in DOMAIN Add(live, r) : Add(live, r)[m] = m[1]
  BY <1>1, Zenon DEF Add
<1>3. /\ DOMAIN live \subseteq DOMAIN zset' /\ DOMAIN zset' \subseteq DOMAIN live \cup {r.member}
      /\ BelowLimit(live) => r.member \in DOMAIN zset'
      /\ \A m \in DOMAIN zset' : zset'[m] = m[1]
  BY <1>0, <1>1, <1>2, Zenon
<1>4. IsFiniteSet(DOMAIN zset')
  BY <1>1, <1>3, FS_AddElement, FS_Subset, Zenon
<1>5. granted' \subseteq granted \cup {<<now, r.member>>} /\ granted \subseteq granted'
  BY <1>0, ZenonT(30)
<1>6. TypeOK'
  <2>1. request' \in [Callers -> Requests \cup {NoRequest}]
    BY <1>0 DEF TypeOK
  <2>2. DOMAIN zset' \subseteq Members
    BY <1>1, <1>3, Zenon DEF TypeOK
  <2> QED
    BY <1>0, <1>3, <1>5, <2>1, <2>2, SMTT(30) DEF TypeOK
<1>7. RequestInv'
  BY <1>0 DEF RequestInv, TypeOK
<1>8. StampInv'
  <2>1. \A q \in Procs : now + Offset[q] <= r.member[1] + MaxDelay + MaxSkew
    BY <1>0 DEF RequestInv
  <2>2. \A x \in granted : x[1] \in Nat /\ x[1] <= now /\ x[1] + Window <= now + Window
    BY DEF StampInv, TypeOK
  <2> QED
    BY <1>0, <1>5, <2>1, <2>2 DEF StampInv
<1>9. StoredInv'
  <2>1. \A x \in granted' : now < x[1] + Guaranteed => x[2] \in DOMAIN zset'
    BY <1>0, <1>1, <1>3
  <2>2. CASE granted' = granted
    BY <1>0, <1>4, <2>1, <2>2 DEF StoredInv
  <2>3. CASE r.member \notin DOMAIN live /\ granted' = granted \cup {<<now, r.member>>}
    <3>1. \A x \in granted : x[1] \in Nat /\ x[1] <= now /\ (x[2] = r.member => now >= x[1] + Guaranteed)
      BY <1>1, <2>3 DEF StampInv, TypeOK
    <3>2. \A x, y \in granted' : x[2] = y[2] /\ x[1] < y[1] => y[1] >= x[1] + Guaranteed
      BY <2>3, <3>1 DEF StoredInv
    <3> QED
      BY <1>0, <1>4, <2>1, <3>2 DEF StoredInv
  <2> QED
    BY <1>0, <2>2, <2>3, Zenon
<1>10. ASSUME NEW b \in 0..MaxNow PROVE Cardinality(GrantedUpTo(b)') <= Limit
  <2>1. CASE granted' = granted
    BY <2>1 DEF WindowRespected, GrantedUpTo
  <2>2. CASE BelowLimit(live) /\ granted' = granted \cup {<<now, r.member>>}
    <3>1. CASE b < now
      <4>1. GrantedUpTo(b)' = GrantedUpTo(b)
        BY <2>2, <3>1 DEF GrantedUpTo, Guaranteed
      <4> QED
        BY <4>1 DEF WindowRespected
    <3>2. CASE now <= b
      <4>1. IsFiniteSet(GrantedUpTo(b)) /\ Cardinality(GrantedUpTo(b)) <= Cardinality(DOMAIN live)
        BY <1>0, <3>2, GrantsCounted DEF live
      <4>2. Cardinality(DOMAIN live) < Limit
        BY <2>2 DEF BelowLimit
      <4>3. GrantedUpTo(b)' \subseteq GrantedUpTo(b) \cup {<<now, r.member>>}
        BY <2>2 DEF GrantedUpTo, Guaranteed
      <4>4. Cardinality(DOMAIN live) \in Nat
        BY <1>1, FS_CardinalityType
      <4>5. /\ Cardinality(GrantedUpTo(b)') \in Nat /\ Cardinality(GrantedUpTo(b)) \in Nat
            /\ Cardinality(GrantedUpTo(b)') <= Cardinality(GrantedUpTo(b)) + 1
        BY <4>1, <4>3, AddsOne, Zenon
      <4> QED
        BY <4>1, <4>2, <4>4, <4>5, SMTT(30)
    <3> QED
      BY <3>1, <3>2
  <2> QED
    BY <1>0, <2>1, <2>2
<1> QED
  BY <1>6, <1>7, <1>8, <1>9, <1>10 DEF WindowRespected

\* The invariant of the Redis limiter is inductive.
LEMMA RedisStep == RedisInv /\ [Next]_vars => RedisInv'
<1> SUFFICES ASSUME RedisInv, [Next]_vars PROVE RedisInv'
  OBVIOUS
<1> USE DEF RedisInv
<1> /\ now \in 0..MaxNow /\ {Window, MaxDelay, MaxSkew, MaxNow, MaxCalls} \subseteq Nat
    /\ ProcOf \in [Callers -> Procs] /\ Offset \in [Procs -> Nat]
  BY RedisAssumption DEF TypeOK
<1>1. ASSUME NEW g \in Callers, Allow(g) PROVE RedisInv'
  <2> DEFINE stamp == now + Offset[ProcOf[g]]
             new == [sentAt |-> now, stamp |-> stamp, member |-> <<stamp, counter[ProcOf[g]] + 1>>]
  <2>1. counter[ProcOf[g]] \in Nat /\ stamp \in Nat
    BY DEF TypeOK
  <2>2. new \in Requests
    BY <2>1 DEF Requests, Members
  <2>3. /\ request' = [request EXCEPT ![g] = new] /\ UNCHANGED <<now, zset, expireAt, granted>>
        /\ counter' = [counter EXCEPT ![ProcOf[g]] = @ + 1]
    BY <1>1 DEF Allow
  <2>4. TypeOK'
    BY <2>1, <2>2, <2>3 DEF TypeOK
  <2>5. /\ new.sentAt = now /\ new.stamp = now + Offset[ProcOf[g]] /\ new.member[1] = new.stamp
    OBVIOUS
  <2> HIDE DEF new
  <2>6. request'[g] = new /\ \A h \in Callers : h # g => request'[h] = request[h]
    BY <2>3 DEF TypeOK
  <2>7. RequestInv'
    BY <2>3, <2>5, <2>6 DEF RequestInv
  <2> QED
    BY <2>3, <2>4, <2>7 DEF StampInv, StoredInv, WindowRespected, GrantedUpTo
<1>2. ASSUME NEW g \in Callers, FailClosed(g) PROVE RedisInv'
  <2>1. /\ request' = [request EXCEPT ![g] = NoRequest]
        /\ UNCHANGED <<now, zset, expireAt, counter, granted>>
    BY <1>2 DEF FailClosed
  <2>2. TypeOK' /\ RequestInv'
    BY <2>1, Zenon DEF TypeOK, RequestInv
  <2> QED
    BY <2>1, <2>2 DEF StampInv, StoredInv, WindowRespected, GrantedUpTo
<1>3. CASE Tick
  <2>1. UNCHANGED <<zset, expireAt, counter, request, granted>> /\ now' = now + 1 /\ now' \in 0..MaxNow
    BY <1>3 DEF Tick
  <2>2. \A g \in Callers : request[g] # NoRequest => now < request[g].sentAt + MaxDelay
    BY <1>3 DEF Tick
  <2>3. TypeOK'
    BY <2>1 DEF TypeOK
  <2>4. RequestInv'
    BY <2>1, <2>2, RequestFields DEF RequestInv
  <2>5. \A x \in granted : x[1] \in Nat
    BY SMTT(30) DEF TypeOK
  <2>6. StampInv' /\ StoredInv'
    BY <2>1, <2>5, RedisAssumption, SMTT(30) DEF StampInv, StoredInv, Guaranteed
  <2> QED
    BY <2>1, <2>3, <2>4, <2>6, Zenon DEF WindowRespected, GrantedUpTo
<1>4. CASE UNCHANGED vars
  BY <1>4 DEF vars, TypeOK, RequestInv, StampInv, StoredInv, WindowRespected, GrantedUpTo
<1> QED
  BY <1>1, <1>2, <1>3, <1>4, ScriptStep DEF Next

\* It holds of an empty set.
LEMMA RedisInitial == Init => RedisInv
<1> SUFFICES ASSUME Init PROVE RedisInv
  OBVIOUS
<1>1. TypeOK
  <2>1. /\ now \in 0..MaxNow /\ expireAt \in 0..(MaxNow + Window)
        /\ DOMAIN zset = {} /\ granted = {}
    BY RedisAssumption DEF Init, EmptySet
  <2>2. counter \in [Procs -> Nat] /\ request \in [Callers -> Requests \cup {NoRequest}]
    BY RedisAssumption DEF Init
  <2> QED
    BY <2>1, <2>2 DEF TypeOK
<1>2. DOMAIN zset = {} /\ granted = {} /\ \A b \in 0..MaxNow : GrantedUpTo(b) = {}
  BY DEF Init, EmptySet, GrantedUpTo
<1>3. RequestInv /\ StampInv /\ StoredInv
  BY <1>2, FS_EmptySet DEF Init, RequestInv, StampInv, StoredInv
<1>4. WindowRespected
  <2>1. Limit \in Nat /\ Cardinality({}) = 0
    BY FS_EmptySet, RedisAssumption
  <2>2. ASSUME NEW b \in 0..MaxNow PROVE Cardinality(GrantedUpTo(b)) = 0
    BY <1>2, <2>1, Zenon
  <2>3. 0 <= Limit
    BY <2>1
  <2> QED
    BY <2>2, <2>3, Zenon DEF WindowRespected
<1> QED
  BY <1>1, <1>3, <1>4 DEF RedisInv

\* The Redis limiter keeps its types.
THEOREM TypeCorrect == LimitingSpec => []TypeOK
<1>1. LimitingInit => RedisInv
  BY RedisInitial DEF LimitingInit
<1>2. RedisInv /\ [LimitingNext]_limitingVars => RedisInv'
  BY RedisStep DEF LimitingNext, limitingVars
<1>3. RedisInv => TypeOK
  BY DEF RedisInv
<1> QED
  BY <1>1, <1>2, <1>3, PTL DEF LimitingSpec

\* Over any stretch of Guaranteed ticks at most Limit calls add a member,
\* for every number of processes, window, limit, delay and skew of clocks.
THEOREM WindowKept == LimitingSpec => []WindowRespected
<1>1. LimitingInit => RedisInv
  BY RedisInitial DEF LimitingInit
<1>2. RedisInv /\ [LimitingNext]_limitingVars => RedisInv'
  BY RedisStep DEF LimitingNext, limitingVars
<1>3. RedisInv => WindowRespected
  BY DEF RedisInv
<1> QED
  BY <1>1, <1>2, <1>3, PTL DEF LimitingSpec
=============================================================================
