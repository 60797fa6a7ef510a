------------------------ MODULE ImageCheckerProofs -------------------------
(***************************************************************************)
(* The cache of the image checker keeps its promise for any number of      *)
(* requests, images and manifests, any behaviour of the registry, and any  *)
(* time limit and latency.                                                 *)
(***************************************************************************)
EXTENDS ImageChecker, TLAPS

USE CheckerAssumption

(* The image itself is the last manifest on its path.                      *)
LEMMA ImageIsLast ==
    ASSUME NEW i \in Images
    PROVE  /\ Len(path[i]) \in Nat \ {0} /\ DOMAIN path[i] = 1 .. Len(path[i])
           /\ \A k \in DOMAIN path[i] : path[i][k] \in Manifests
           /\ Image(i) \in Manifests /\ 1 \in DOMAIN path[i]
<1>1. path[i] \in Seq(Manifests) /\ path[i] # <<>>
  OBVIOUS
<1>2. Len(path[i]) \in Nat \ {0} /\ DOMAIN path[i] = 1 .. Len(path[i])
  BY <1>1
<1>3. QED
  BY <1>1, <1>2 DEF Image

(* Ticks are counted up to the horizon and one beyond.                     *)
LEMMA OlderIsLater ==
    ASSUME NEW n \in Ages
    PROVE  Older(n) \in Ages /\ Older(n) <= n + 1
           /\ (Older(n) <= TTL => n <= TTL /\ Older(n) = n + 1)
BY DEF Older, Ages, Horizon

(* Headers have types of their own, which age does not change.             *)
LEMMA AgedIsHeaders ==
    ASSUME NEW h \in Headers
    PROVE  /\ Aged(h) \in Headers
           /\ \A s \in Statuses : h = Keppel(s) => Aged(h) = h
           /\ \A n \in Ages : h = Stamp(n) => Aged(h) = Stamp(Older(n))
           /\ h \in {NoHeaders, Plain} => Aged(h) = h
<1>1. CASE h \in {NoHeaders, Plain}
  BY <1>1 DEF Aged, NoHeaders, Plain, Headers, Keppel, Stamp
<1>2. CASE \E s \in Statuses : h = Keppel(s)
  BY <1>2 DEF Aged, NoHeaders, Plain, Headers, Keppel, Stamp
<1>3. CASE \E n \in Ages : h = Stamp(n)
  <2>1. PICK n \in Ages : h = Stamp(n)
    BY <1>3
  <2>2. h[1] = "late" /\ h[2] = n /\ Aged(h) = Stamp(Older(n)) /\ Older(n) \in Ages
    BY <2>1, OlderIsLater DEF Aged, Stamp
  <2>3. QED
    BY <2>1, <2>2 DEF NoHeaders, Plain, Headers, Keppel, Stamp
<1>4. QED
  BY <1>1, <1>2, <1>3 DEF Headers

(* What was true recently was true within any longer time.                 *)
LEMMA TrueWithinLonger ==
    ASSUME TypeOK, NEW i \in Images, NEW h, NEW n \in Nat, NEW k \in Nat, n <= k,
           TrueWithin(i, h, n)
    PROVE  TrueWithin(i, h, k)
<1>1. \A s \in Statuses : said[Image(i)][s] \in Ages
  BY ImageIsLast DEF TypeOK
<1>2. CASE DOMAIN config = {}
  BY <1>1, <1>2 DEF TrueWithin, Ages, Horizon
<1>3. CASE DOMAIN config # {} /\ i \notin DOMAIN config
  BY <1>3 DEF TrueWithin
<1>4. CASE i \in DOMAIN config
  BY <1>4 DEF TrueWithin
<1>5. QED
  BY <1>2, <1>3, <1>4

(* It remains true when the registry changes its mind,                     *)
LEMMA TrueWithinRescan ==
    ASSUME TypeOK, NEW i \in Images, NEW h, NEW n \in Nat,
           TrueWithin(i, h, n), config' = config,
           NEW m \in Manifests, NEW s \in Statuses, said' = [said EXCEPT ![m][s] = 0]
    PROVE  TrueWithin(i, h, n)'
<1>1. \A t \in Statuses : said'[Image(i)][t] \in {0, said[Image(i)][t]}
  BY ImageIsLast DEF TypeOK
<1>2. \A t \in Statuses : said[Image(i)][t] <= n => said'[Image(i)][t] <= n
  BY <1>1
<1>3. CASE DOMAIN config = {}
  BY <1>2, <1>3 DEF TrueWithin, Image
<1>4. CASE DOMAIN config # {}
  BY <1>4 DEF TrueWithin
<1>5. QED
  BY <1>3, <1>4

(* and with the time that goes by, a tick later.                           *)
LEMMA TrueWithinTick ==
    ASSUME TypeOK, NEW i \in Images, NEW h \in Headers, NEW n \in Ages,
           TrueWithin(i, h, n), Tick
    PROVE  TrueWithin(i, Aged(h), n + 1)'
<1>1. config' = config
  BY DEF Tick
<1>2. CASE DOMAIN config = {}
  <2>1. PICK s \in Statuses : h = Keppel(s) /\ said[Image(i)][s] <= n
    BY <1>2 DEF TrueWithin
  <2>2. said'[Image(i)][s] \in {0, Older(said[Image(i)][s])}
    BY ImageIsLast DEF Tick
  <2>3. said[Image(i)][s] \in Ages
    BY ImageIsLast DEF TypeOK
  <2>4. said'[Image(i)][s] <= n + 1
    <3>1. Older(said[Image(i)][s]) <= said[Image(i)][s] + 1
          /\ Older(said[Image(i)][s]) \in Ages
      BY <2>3, OlderIsLater
    <3>2. QED
      BY <2>1, <2>2, <2>3, <3>1 DEF Ages, Horizon
  <2>5. Aged(h) = Keppel(s)
    BY <2>1, AgedIsHeaders
  <2>6. QED
    BY <1>1, <1>2, <2>4, <2>5 DEF TrueWithin, Image
<1>3. CASE DOMAIN config # {} /\ i \notin DOMAIN config
  BY <1>1, <1>3, AgedIsHeaders DEF TrueWithin
<1>4. CASE i \in DOMAIN config /\ config[i] = "stamped"
  <2>1. PICK k \in 0 .. n : h = Stamp(k)
    BY <1>4 DEF TrueWithin
  <2>2. k \in Ages
    BY DEF Ages, Horizon
  <2>3. Aged(h) = Stamp(Older(k)) /\ Older(k) \in 0 .. n + 1
    <3>1. Aged(h) = Stamp(Older(k)) /\ Older(k) \in Ages /\ Older(k) <= k + 1
      BY <2>1, <2>2, AgedIsHeaders, OlderIsLater
    <3>2. QED
      BY <3>1 DEF Ages, Horizon
  <2>4. QED
    BY <1>1, <1>4, <2>3 DEF TrueWithin
<1>5. CASE i \in DOMAIN config /\ config[i] # "stamped"
  BY <1>1, <1>5, AgedIsHeaders DEF TrueWithin
<1>6. QED
  BY <1>2, <1>3, <1>4, <1>5

-----------------------------------------------------------------------------
(* What the invariant says of one goroutine.                               *)
Calls == [at : {"idle", "pull", "configured", "fill", "ok", "failed"},
          image : Images, step : Nat, headers : Headers, waited : 0 .. MaxLatency]

GoodCall(k) ==
    /\ k \in Calls /\ k.step \in DOMAIN path[k.image]
    /\ k.at = "pull" => DOMAIN config = {}
    /\ k.at = "configured" => DOMAIN config # {}
    /\ k.at \in {"pull", "configured", "fill"} => k.image \notin Malformed
    /\ k.at = "fill" => TrueWithin(k.image, k.headers, k.waited)

(* A goroutine that begins has nothing yet.                                *)
LEMMA IdleIsGood == GoodCall(Idle) /\ Idle.at = "idle"
<1>1. (CHOOSE i \in Images : TRUE) \in Images
  OBVIOUS
<1>2. Idle \in Calls /\ Idle.step = 1 /\ Idle.at = "idle"
  BY <1>1 DEF Idle, Calls, Headers
<1>3. QED
  BY <1>2, ImageIsLast DEF GoodCall, Calls

(* Most steps leave one goroutine in a good state, and at most delete an   *)
(* entry of the cache.                                                     *)
LEMMA CallStep ==
    ASSUME IInv, NEW c \in Callers, NEW k, GoodCall(k),
           call' = [call EXCEPT ![c] = k], UNCHANGED <<config, status, said>>,
           DOMAIN cache' \subseteq DOMAIN cache,
           \A i \in DOMAIN cache' : cache'[i] = cache[i]
    PROVE  IInv'
<1> USE DEF IInv
<1>1. \A b \in Callers : call'[b] \in {call[b], k}
  BY DEF TypeOK
<1>3. \A i, h, n : TrueWithin(i, h, n)' <=> TrueWithin(i, h, n)
  BY DEF TrueWithin
<1>4. TypeOK'
  <2>1. \A b \in Callers : call'[b].step \in DOMAIN path[call'[b].image]
    BY <1>1 DEF TypeOK, GoodCall
  <2>2. call' \in [Callers -> Calls]
    BY DEF TypeOK, GoodCall, Calls
  <2>3. QED
    BY <2>1, <2>2 DEF TypeOK, Calls
<1>5. SaidInv'
  BY DEF SaidInv
<1>6. CallInv'
  <2>1. \A b \in Callers : GoodCall(call[b])
    BY DEF TypeOK, CallInv, GoodCall, Calls
  <2>2. \A b \in Callers : GoodCall(call'[b])
    BY <1>1, <2>1
  <2>3. QED
    BY <1>3, <2>2 DEF CallInv, GoodCall
<1>7. CacheInv'
  BY <1>3 DEF CacheInv, Valid
<1>8. QED
  BY <1>4, <1>5, <1>6, <1>7

(* Before the first request the cache is empty.                            *)
LEMMA InitIInv == Init => IInv
<1> SUFFICES ASSUME Init PROVE IInv
  OBVIOUS
<1>1. \A c \in Callers : GoodCall(call[c]) /\ call[c].at = "idle"
  BY IdleIsGood DEF Init
<1>2. \A m \in Manifests, s \in Statuses : said[m][s] \in Ages
  BY DEF Init, Ages, Horizon
<1>3. TypeOK
  <2>1. call \in [Callers -> Calls]
    BY <1>1 DEF Init, GoodCall
  <2>2. said \in [Manifests -> [Statuses -> Ages]]
    BY <1>2 DEF Init
  <2>3. QED
    BY <1>1, <2>1, <2>2 DEF Init, TypeOK, GoodCall, Calls
<1>4. SaidInv
  BY DEF Init, SaidInv
<1>5. CallInv
  BY <1>1 DEF CallInv
<1>6. CacheInv /\ config \in Configs
  BY DEF Init, CacheInv
<1>7. QED
  BY <1>3, <1>4, <1>5, <1>6 DEF IInv

(* A request that finds a valid entry, or none.                            *)
LEMMA RequestKeepsIInv ==
    ASSUME IInv, NEW c \in Callers, NEW i \in Images, Hit(c, i) \/ Miss(c, i)
    PROVE  IInv'
<1>1. CASE Hit(c, i)
  <2> DEFINE k == [Idle EXCEPT !.at = "ok", !.image = i, !.headers = cache[i].headers]
  <2>1. cache[i].headers \in Headers
    BY <1>1 DEF Hit, Valid, IInv, TypeOK
  <2>2. k \in Calls /\ k.step = 1 /\ k.image = i /\ k.at = "ok"
    BY <2>1, IdleIsGood DEF GoodCall, Calls, Idle
  <2>3. GoodCall(k)
    BY <2>2, ImageIsLast DEF GoodCall
  <2>4. QED
    BY <1>1, <2>3, CallStep DEF Hit
<1>2. CASE Miss(c, i)
  <2> DEFINE k == [Idle EXCEPT !.image = i,
                     !.at = IF i \in Malformed THEN "failed"
                            ELSE IF DOMAIN config # {} THEN "configured" ELSE "pull"]
  <2>1. k \in Calls /\ k.step = 1 /\ k.image = i
        /\ k.at = IF i \in Malformed THEN "failed"
                  ELSE IF DOMAIN config # {} THEN "configured" ELSE "pull"
    BY IdleIsGood DEF GoodCall, Calls, Idle
  <2> HIDE DEF k
  <2>2. GoodCall(k)
    BY <2>1, ImageIsLast DEF GoodCall
  <2>3. QED
    BY <1>2, <2>2, CallStep DEF Miss, k
<1>3. QED
  BY <1>1, <1>2

(* What a goroutine does before it fills the cache, and after that.        *)
LEMMA HandlingKeepsIInv ==
    ASSUME IInv, NEW c \in Callers,
           Configure(c) \/ Pull(c) \/ PullFails(c) \/ Respond(c)
    PROVE  IInv'
<1> DEFINE i == call[c].image
<1>1. GoodCall(call[c]) /\ call[c] \in Calls /\ i \in Images
  BY DEF IInv, TypeOK, CallInv, GoodCall, Calls
<1>2. CASE Configure(c)
  <2> DEFINE kind == IF i \in DOMAIN config THEN config[i] ELSE "unlisted"
             headers == CASE kind = "stamped" -> Stamp(0)
                          [] kind = "plain" -> Plain
                          [] OTHER -> NoHeaders
             k == [call[c] EXCEPT !.headers = headers,
                                  !.at = IF kind = "invalid" THEN "failed" ELSE "fill"]
  <2>1. call[c].at = "configured" /\ DOMAIN config # {} /\ i \notin Malformed
    BY <1>1, <1>2 DEF Configure, GoodCall
  <2>2. headers \in Headers /\ (kind # "invalid" => TrueWithin(i, headers, 0))
    <3>1. CASE i \notin DOMAIN config
      BY <2>1, <3>1 DEF TrueWithin, Headers
    <3>2. CASE i \in DOMAIN config
      <4>1. config[i] \in {"stamped", "plain", "invalid"}
        BY <3>2 DEF IInv
      <4>2. 0 \in Ages /\ 0 \in 0 .. 0
        BY DEF Ages, Horizon
      <4>3. QED
        BY <3>2, <4>1, <4>2 DEF TrueWithin, Headers
    <3>3. QED
      BY <3>1, <3>2
  <2>3. call' = [call EXCEPT ![c] = k] /\ UNCHANGED <<config, status, said, cache>>
    BY <1>2 DEF Configure, IInv, TypeOK
  <2> HIDE DEF headers, kind
  <2>4. /\ k \in Calls /\ k.image = i /\ k.step = call[c].step /\ k.headers = headers
        /\ k.waited = call[c].waited
        /\ k.at = IF kind = "invalid" THEN "failed" ELSE "fill"
    BY <1>1, <2>2 DEF Calls
  <2> HIDE DEF k
  <2>5. k.at = "fill" => TrueWithin(k.image, k.headers, k.waited)
    BY <1>1, <2>2, <2>4, TrueWithinLonger DEF Calls, IInv
  <2>6. GoodCall(k)
    BY <1>1, <2>1, <2>4, <2>5 DEF GoodCall
  <2>7. QED
    BY <2>3, <2>6, CallStep
<1>3. CASE Pull(c)
  <2> DEFINE j == call[c].step
             last == j = Len(path[i])
             h == Keppel(status[path[i][j]])
             k == [call[c] EXCEPT !.headers = h, !.waited = 0,
                                  !.step = IF last THEN j ELSE j + 1,
                                  !.at = IF last THEN "fill" ELSE "pull"]
  <2>1. call[c].at = "pull" /\ DOMAIN config = {} /\ i \notin Malformed
    BY <1>1, <1>3 DEF Pull, GoodCall
  <2>2. j \in 1 .. Len(path[i]) /\ path[i][j] \in Manifests /\ Len(path[i]) \in Nat
    BY <1>1, ImageIsLast DEF GoodCall
  <2>3. h \in Headers
    BY <2>2 DEF IInv, TypeOK, Headers
  <2>4. last => TrueWithin(i, h, 0)
    BY <1>1, <2>1, <2>2, ImageIsLast DEF IInv, TypeOK, SaidInv, TrueWithin, Image
  <2>5. call' = [call EXCEPT ![c] = k] /\ UNCHANGED <<config, status, said, cache>>
    BY <1>3 DEF Pull, IInv, TypeOK
  <2> HIDE DEF h
  <2>6. /\ k \in Calls /\ k.image = i /\ k.headers = h /\ k.waited = 0
        /\ k.step = IF last THEN j ELSE j + 1
        /\ k.at = IF last THEN "fill" ELSE "pull"
    <3> HIDE DEF last
    <3>1. j \in Nat /\ j + 1 \in Nat /\ 0 \in 0 .. MaxLatency
      BY <2>2
    <3> HIDE DEF j
    <3>2. QED
      BY <1>1, <2>3, <3>1 DEF Calls
  <2> HIDE DEF k
  <2>7. k.step \in DOMAIN path[i]
    BY <1>1, <2>2, <2>6, ImageIsLast
  <2>8. GoodCall(k)
    BY <2>1, <2>4, <2>6, <2>7 DEF GoodCall
  <2>9. QED
    BY <2>5, <2>8, CallStep
<1>4. CASE PullFails(c)
  <2> DEFINE k == [call[c] EXCEPT !.at = "failed"]
  <2>1. call' = [call EXCEPT ![c] = k] /\ UNCHANGED <<config, status, said, cache>>
    BY <1>4 DEF PullFails, Goto, IInv, TypeOK
  <2>2. GoodCall(k)
    BY <1>1 DEF GoodCall, Calls
  <2>3. QED
    BY <2>1, <2>2, CallStep
<1>5. CASE Respond(c)
  BY <1>5, IdleIsGood, CallStep DEF Respond
<1>6. QED
  BY <1>2, <1>3, <1>4, <1>5

(* Headers that waited on their way into the cache count as checked now,   *)
(* but are no older than the latency.                                      *)
LEMMA FillKeepsIInv ==
    ASSUME IInv, NEW c \in Callers, Fill(c)
    PROVE  IInv'
<1> DEFINE i == call[c].image
           k == [call[c] EXCEPT !.at = "ok"]
           entry == [headers |-> call[c].headers, age |-> 0]
<1> USE DEF IInv
<1>1. /\ call[c] \in Calls /\ i \in Images \ Malformed
      /\ TrueWithin(i, call[c].headers, call[c].waited)
  BY DEF TypeOK, CallInv, Calls, Fill
<1>2. /\ DOMAIN cache' = DOMAIN cache \cup {i} /\ cache'[i] = entry
      /\ \A j \in DOMAIN cache \ {i} : cache'[j] = cache[j]
  BY DEF Fill
<1>3. call' = [call EXCEPT ![c] = k] /\ UNCHANGED <<config, status, said>>
  BY DEF Fill, Goto, TypeOK
<1>4. \A j, h, n : TrueWithin(j, h, n)' <=> TrueWithin(j, h, n)
  BY <1>3 DEF TrueWithin
<1>5. \A b \in Callers : /\ call'[b].image = call[b].image
                          /\ call'[b].headers = call[b].headers
                          /\ call'[b].step = call[b].step
                          /\ call'[b].waited = call[b].waited
                          /\ call'[b].at \in {call[b].at, "ok"}
  BY <1>1, <1>3 DEF TypeOK, Calls
<1>6. TypeOK'
  <2>1. entry \in [headers : Headers, age : Ages]
    BY <1>1 DEF Calls, Ages, Horizon
  <2>2. \A j \in DOMAIN cache' : cache'[j] \in [headers : Headers, age : Ages]
    BY <1>2, <2>1 DEF TypeOK
  <2>3. k \in Calls
    BY <1>1 DEF Calls
  <2>4. call' \in [Callers -> Calls]
    BY <1>3, <2>3 DEF TypeOK, Calls
  <2>5. \A b \in Callers : call'[b].step \in DOMAIN path[call'[b].image]
    BY <1>5 DEF TypeOK
  <2>6. QED
    BY <1>1, <1>2, <1>3, <2>2, <2>4, <2>5 DEF TypeOK, Calls
<1>7. CallInv'
  BY <1>3, <1>4, <1>5 DEF CallInv
<1>8. CacheInv'
  <2>1. call[c].waited \in 0 .. MaxLatency
    BY <1>1 DEF Calls
  <2>2. TrueWithin(i, call[c].headers, 0 + MaxLatency)
    BY <1>1, <2>1, TrueWithinLonger
  <2>3. TrueWithin(i, cache'[i].headers, cache'[i].age + MaxLatency)
    BY <1>2, <2>2
  <2>4. \A j \in DOMAIN cache \ {i} :
          Valid(j)' => TrueWithin(j, cache'[j].headers, cache'[j].age + MaxLatency)
    BY <1>2 DEF CacheInv, Valid
  <2>5. QED
    BY <1>2, <1>4, <2>3, <2>4 DEF CacheInv
<1>9. QED
  BY <1>3, <1>6, <1>7, <1>8 DEF SaidInv

(* The registry changes its mind.                                          *)
LEMMA RescanKeepsIInv ==
    ASSUME IInv, NEW m \in Manifests, NEW s \in Statuses, Rescan(m, s)
    PROVE  IInv'
<1> USE DEF IInv, Rescan
<1>1. 0 \in Ages /\ Ages \subseteq Nat
  BY DEF Ages, Horizon
<1>2. TypeOK'
  BY <1>1 DEF TypeOK
<1>3. SaidInv'
  BY DEF TypeOK, SaidInv
<1>4. CallInv'
  <2>1. ASSUME NEW c \in Callers, call[c].at = "fill"
        PROVE  TrueWithin(call[c].image, call[c].headers, call[c].waited)'
    <3>1. call[c].image \in Images /\ call[c].waited \in Nat
          /\ TrueWithin(call[c].image, call[c].headers, call[c].waited)
      BY <2>1 DEF TypeOK, CallInv
    <3>2. QED
      BY <3>1, TrueWithinRescan
  <2>2. QED
    BY <2>1 DEF CallInv
<1>5. CacheInv'
  <2>1. ASSUME NEW i \in DOMAIN cache, Valid(i)
        PROVE  TrueWithin(i, cache[i].headers, cache[i].age + MaxLatency)'
    <3>1. i \in Images /\ cache[i].age \in Ages
          /\ TrueWithin(i, cache[i].headers, cache[i].age + MaxLatency)
      BY <2>1 DEF TypeOK, CacheInv
    <3>2. cache[i].age + MaxLatency \in Nat
      BY <1>1, <3>1
    <3>3. QED
      BY <3>1, <3>2, TrueWithinRescan
  <2>2. QED
    BY <2>1 DEF CacheInv, Valid
<1>6. QED
  BY <1>2, <1>3, <1>4, <1>5

(* A tick: everything grows older by one at most, and an entry that is     *)
(* still valid was valid before.                                           *)
LEMMA TickKeepsIInv ==
    ASSUME IInv, Tick
    PROVE  IInv'
<1> USE DEF IInv
<1>1. 0 \in Ages /\ Ages \subseteq Nat
  BY DEF Ages, Horizon
<1>2. /\ DOMAIN cache' = DOMAIN cache
      /\ \A i \in DOMAIN cache :
            /\ cache'[i].headers = Aged(cache[i].headers)
            /\ cache'[i].age = Older(cache[i].age)
            /\ cache'[i] \in [headers : Headers, age : Ages]
  BY AgedIsHeaders, OlderIsLater DEF Tick, TypeOK
<1>3. \A c \in Callers :
        /\ call'[c].at = call[c].at /\ call'[c].image = call[c].image
        /\ call'[c].step = call[c].step /\ call'[c].headers = Aged(call[c].headers)
        /\ call'[c].waited = IF call[c].at = "fill" THEN call[c].waited + 1
                             ELSE call[c].waited
        /\ call'[c] \in Calls
  <2>1. ASSUME NEW c \in Callers
        PROVE  /\ call[c] \in Calls /\ Aged(call[c].headers) \in Headers
               /\ call[c].at = "fill" => call[c].waited + 1 \in 0 .. MaxLatency
    <3>1. call[c] \in Calls
      BY DEF TypeOK, Calls
    <3>2. call[c].at = "fill" => call[c].waited < MaxLatency
      BY DEF Tick
    <3>3. call[c].headers \in Headers /\ call[c].waited \in 0 .. MaxLatency
      BY <3>1 DEF Calls
    <3>4. Aged(call[c].headers) \in Headers
      BY <3>3, AgedIsHeaders
    <3>5. QED
      BY <3>1, <3>2, <3>3, <3>4
  <2>2. ASSUME NEW c \in Callers, NEW k \in Calls, k = call[c]
        PROVE  /\ call'[c].at = k.at /\ call'[c].image = k.image
               /\ call'[c].step = k.step /\ call'[c].headers = Aged(k.headers)
               /\ call'[c].waited = IF k.at = "fill" THEN k.waited + 1 ELSE k.waited
               /\ call'[c] \in Calls
    <3>1. call'[c] = [k EXCEPT !.headers = Aged(@),
                               !.waited = IF k.at = "fill" THEN @ + 1 ELSE @]
      BY <2>2 DEF Tick
    <3>2. Aged(k.headers) \in Headers /\ (k.at = "fill" => k.waited + 1 \in 0 .. MaxLatency)
      BY <2>1, <2>2
    <3>3. QED
      BY <3>1, <3>2 DEF Calls
  <2>3. QED
    BY <2>1, <2>2
<1>4. TypeOK'
  <2>1. said' \in [Manifests -> [Statuses -> Ages]]
    <3>1. \A m \in Manifests, s \in Statuses : Older(said[m][s]) \in Ages
      BY OlderIsLater DEF TypeOK
    <3>2. QED
      BY <1>1, <3>1 DEF Tick
  <2>2. call' \in [Callers -> Calls]
    BY <1>3 DEF Tick
  <2>3. status' \in [Manifests -> Statuses] /\ DOMAIN cache' \subseteq Images \ Malformed
    BY <1>2 DEF Tick, TypeOK
  <2>4. \A c \in Callers : call'[c].step \in DOMAIN path[call'[c].image]
    BY <1>3 DEF TypeOK
  <2>5. QED
    BY <1>2, <2>1, <2>2, <2>3, <2>4 DEF TypeOK, Calls
<1>5. SaidInv'
  BY DEF Tick, TypeOK, SaidInv
<1>6. CallInv'
  <2>1. ASSUME NEW c \in Callers, call[c].at = "fill"
        PROVE  TrueWithin(call[c].image, call[c].headers, call[c].waited)'
    <3> SUFFICES ASSUME NEW i, i = call[c].image, NEW h, h = call[c].headers,
                        NEW n, n = call[c].waited
                 PROVE  TrueWithin(call[c].image, call[c].headers, call[c].waited)'
      OBVIOUS
    <3>1. i \in Images /\ h \in Headers /\ n \in 0 .. MaxLatency /\ TrueWithin(i, h, n)
      BY <2>1 DEF TypeOK, CallInv
    <3>2. n \in Ages
      BY <3>1 DEF Ages, Horizon
    <3>3. TrueWithin(i, Aged(h), n + 1)'
      BY <3>1, <3>2, TrueWithinTick
    <3>4. i = call'[c].image /\ Aged(h) = call'[c].headers /\ n + 1 = call'[c].waited
      BY <1>3, <2>1
    <3>5. QED
      BY <3>3, <3>4
  <2>2. QED
    BY <1>3, <2>1, Zenon DEF CallInv, Tick
<1>7. CacheInv'
  <2>1. ASSUME NEW i \in DOMAIN cache, cache'[i].age <= TTL
        PROVE  TrueWithin(i, cache[i].headers, cache[i].age + MaxLatency)'
    <3> SUFFICES ASSUME NEW h, h = cache[i].headers, NEW n, n = cache[i].age
                 PROVE  TrueWithin(i, cache[i].headers, cache[i].age + MaxLatency)'
      OBVIOUS
    <3>1. i \in Images /\ h \in Headers /\ n \in Ages
      BY DEF TypeOK
    <3>2. Older(n) <= TTL /\ n <= TTL /\ cache'[i].age = n + 1
      BY <1>2, <2>1, <3>1, OlderIsLater
    <3>3. TrueWithin(i, h, n + MaxLatency)
      BY <3>2 DEF CacheInv, Valid
    <3>4. n + MaxLatency \in Ages
      BY <3>1, <3>2 DEF Ages, Horizon
    <3>5. TrueWithin(i, Aged(h), (n + MaxLatency) + 1)'
      BY <3>1, <3>3, <3>4, TrueWithinTick
    <3>6. (n + MaxLatency) + 1 = cache'[i].age + MaxLatency /\ Aged(h) = cache'[i].headers
      BY <1>1, <1>2, <3>1, <3>2
    <3>7. QED
      BY <3>5, <3>6
  <2>2. QED
    BY <1>2, <2>1 DEF CacheInv, Valid
<1>8. QED
  BY <1>4, <1>5, <1>6, <1>7 DEF Tick

-----------------------------------------------------------------------------
LEMMA NextIInv == IInv /\ [Next]_vars => IInv'
<1> SUFFICES ASSUME IInv, [Next]_vars PROVE IInv'
  OBVIOUS
<1>1. ASSUME NEW c \in Callers, Handle(c) PROVE IInv'
  BY <1>1, HandlingKeepsIInv, FillKeepsIInv DEF Handle
<1>2. ASSUME NEW c \in Callers, NEW i \in Images, Hit(c, i) \/ Miss(c, i) PROVE IInv'
  BY <1>2, RequestKeepsIInv
<1>3. ASSUME NEW m \in Manifests, NEW s \in Statuses, Rescan(m, s) PROVE IInv'
  BY <1>3, RescanKeepsIInv
<1>4. CASE Tick
  BY <1>4, TickKeepsIInv
<1>5. CASE UNCHANGED vars
  <2>1. \A i, h, n : TrueWithin(i, h, n)' <=> TrueWithin(i, h, n)
    BY <1>5 DEF vars, TrueWithin
  <2>2. TypeOK' /\ SaidInv' /\ config' \in Configs
    BY <1>5 DEF IInv, TypeOK, SaidInv, vars
  <2>3. CallInv' /\ CacheInv'
    BY <1>5, <2>1 DEF IInv, CallInv, CacheInv, Valid, vars
  <2>4. QED
    BY <2>2, <2>3 DEF IInv
<1>6. QED
  BY <1>1, <1>2, <1>3, <1>4, <1>5 DEF Next

(* A request is answered from a valid entry, or with what it has just put  *)
(* there.                                                                  *)
LEMMA AnswersInStep ==
    ASSUME IInv, [Next]_vars, NEW c \in Callers,
           call[c].at # "ok", call'[c].at = "ok"
    PROVE  TrueWithin(call'[c].image, call'[c].headers, Horizon)
<1> USE DEF IInv
<1>0. Horizon \in Nat /\ Idle.at = "idle"
  BY DEF Horizon, Idle
<1>1. ASSUME NEW i \in Images, Hit(c, i)
      PROVE  TrueWithin(call'[c].image, call'[c].headers, Horizon)
  <2>1. call'[c].image = i /\ call'[c].headers = cache[i].headers
    BY <1>1 DEF Hit, TypeOK, Idle
  <2>2. i \in DOMAIN cache /\ cache[i].age <= TTL
        /\ TrueWithin(i, cache[i].headers, cache[i].age + MaxLatency)
    BY <1>1 DEF Hit, Valid, CacheInv
  <2>3. cache[i].age \in Ages
    BY <2>2 DEF TypeOK
  <2>4. cache[i].age + MaxLatency \in Nat /\ cache[i].age + MaxLatency <= Horizon
    BY <2>2, <2>3 DEF Ages, Horizon
  <2>5. QED
    BY <1>0, <2>1, <2>2, <2>4, TrueWithinLonger
<1>2. CASE Fill(c)
  <2>1. /\ call'[c].image = call[c].image /\ call'[c].headers = call[c].headers
        /\ call[c].image \in Images /\ call[c].waited \in 0 .. MaxLatency
        /\ TrueWithin(call[c].image, call[c].headers, call[c].waited)
    BY <1>2 DEF Fill, Goto, TypeOK, CallInv
  <2>2. call[c].waited \in Nat /\ call[c].waited <= Horizon
    BY <2>1 DEF Horizon
  <2>3. QED
    BY <1>0, <2>1, <2>2, TrueWithinLonger
<1>3. Fill(c) \/ \E i \in Images : Hit(c, i)
  <2>1. ASSUME NEW i \in Images, Miss(c, i) PROVE FALSE
    BY <2>1 DEF Miss, TypeOK, Idle
  <2>0. call \in [Callers -> Calls]
    BY DEF TypeOK, Calls
  <2>2. ASSUME Configure(c) \/ Pull(c) \/ PullFails(c) \/ Respond(c) PROVE FALSE
    <3>1. ASSUME Configure(c) PROVE call'[c].at \in {"failed", "fill"}
      BY <2>0, <3>1 DEF Configure, Calls
    <3>2. ASSUME Pull(c) PROVE call'[c].at \in {"fill", "pull"}
      BY <2>0, <3>2 DEF Pull, Calls
    <3>3. ASSUME PullFails(c) PROVE call'[c].at = "failed"
      BY <2>0, <3>3 DEF PullFails, Goto, Calls
    <3>4. ASSUME Respond(c) PROVE call'[c].at = "idle"
      BY <1>0, <2>0, <3>4 DEF Respond
    <3>5. QED
      BY <2>2, <3>1, <3>2, <3>3, <3>4
  <2>3. ASSUME NEW b \in Callers \ {c},
               Handle(b) \/ \E i \in Images : Hit(b, i) \/ Miss(b, i)
        PROVE  call'[c] = call[c]
    <3>1. ASSUME Configure(b) PROVE call'[c] = call[c]
      BY <2>0, <2>3, <3>1 DEF Configure
    <3>2. ASSUME Pull(b) PROVE call'[c] = call[c]
      BY <2>0, <2>3, <3>2 DEF Pull
    <3>3. ASSUME PullFails(b) \/ Fill(b) \/ Respond(b) PROVE call'[c] = call[c]
      BY <2>0, <2>3, <3>3 DEF PullFails, Fill, Respond, Goto
    <3>4. ASSUME NEW i \in Images, Hit(b, i) \/ Miss(b, i) PROVE call'[c] = call[c]
      BY <2>0, <2>3, <3>4 DEF Hit, Miss
    <3>5. QED
      BY <2>3, <3>1, <3>2, <3>3, <3>4 DEF Handle
  <2>4. ASSUME Tick \/ UNCHANGED vars \/ \E m \in Manifests, s \in Statuses : Rescan(m, s)
        PROVE  call'[c].at = call[c].at
    <3>1. ASSUME Tick PROVE call'[c].at = call[c].at
      <4>1. call'[c] = [call[c] EXCEPT !.headers = Aged(@),
                          !.waited = IF call[c].at = "fill" THEN @ + 1 ELSE @]
        BY <3>1 DEF Tick
      <4>2. call[c] \in Calls
        BY <2>0
      <4>3. QED
        BY <4>1, <4>2 DEF Calls
    <3>2. QED
      BY <2>4, <3>1 DEF vars, Rescan
  <2>5. QED
    BY <2>1, <2>2, <2>3, <2>4 DEF Next, Handle
<1>4. QED
  BY <1>1, <1>2, <1>3

(* The inductive invariant: types, and that headers on their way into the  *)
(* cache and in it are as recent as their age and the latency allow.       *)
THEOREM Invariant == Spec => []IInv
  BY InitIInv, NextIInv, PTL DEF Spec

(* Types: nothing that is no image reference is ever cached, and no time   *)
(* is counted beyond the horizon.                                          *)
THEOREM TypeCorrect == Spec => []TypeOK
  BY Invariant, PTL DEF IInv

(* For any number of requests that miss, wait and overwrite one another:   *)
(* no answer is older than the time limit and the latency of one request.  *)
THEOREM AnswersStayRecent == Spec => AnswersAreRecent
<1>1. IInv /\ [Next]_vars =>
        [\A c \in Callers : call[c].at # "ok" /\ call'[c].at = "ok" =>
            TrueWithin(call'[c].image, call'[c].headers, Horizon)]_vars
  BY AnswersInStep
<1>2. QED
  BY <1>1, Invariant, PTL DEF Spec, AnswersAreRecent
=============================================================================
