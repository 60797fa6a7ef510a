--------------------------- MODULE ImageChecker ----------------------------
(***************************************************************************)
(* doop-image-checker (doop-image-checker/main.go, cache.go): any number   *)
(* of requests for the headers that a registry gives with the manifest of  *)
(* an image.  Headers are cached for half an hour; the mutex of the cache  *)
(* is not held while the registry is asked, so requests for one image may  *)
(* miss together and fill the cache in any order.  Instead of asking the   *)
(* registry it can answer from a response config.                          *)
(***************************************************************************)
EXTENDS Integers, Sequences

CONSTANTS
    Callers,      \* the goroutines that handle requests
    Images,       \* the image references asked for
    Malformed,    \* those that are no references
    Manifests,    \* the manifests in the registry
    path,         \* path[i]: the manifests pulled for i: an index, then its child
    Statuses,     \* what the registry may say of a manifest (X-Keppel-...)
    Configs,      \* the response configs; without entries: ask the registry
    TTL,          \* thirty minutes, in ticks
    MaxLatency    \* bound: ticks between an answer of the registry and its use

ASSUME CheckerAssumption ==
    /\ Malformed \subseteq Images
    /\ path \in [Images -> Seq(Manifests) \ {<<>>}]
    /\ Images # {} /\ TTL \in Nat /\ MaxLatency \in Nat
    /\ \A f \in Configs : \A i \in DOMAIN f : f[i] \in {"stamped", "plain", "invalid"}

VARIABLES
    config,   \* a.config
    status,   \* what the registry says of each manifest
    said,     \* history: said[m][s], the ticks since it last said s of m
    cache,    \* the entries: headers, and the ticks since they were checked
    call      \* each goroutine: where it is, for which image, with what headers

vars == <<config, status, said, cache, call>>

(* Past the horizon all times are alike.                                   *)
Horizon == TTL + MaxLatency
Older(n) == IF n > Horizon THEN n ELSE n + 1

(* Headers: none, those of the registry or a config, or a time of creation *)
(* of so many ticks before the one that the config asks for.               *)
NoHeaders == <<"none">>
Plain == <<"plain">>
Keppel(s) == <<"status", s>>
Stamp(n) == <<"late", n>>
Aged(h) == IF h[1] = "late" THEN Stamp(Older(h[2])) ELSE h

Idle == [at |-> "idle", image |-> CHOOSE i \in Images : TRUE, step |-> 1,
         headers |-> NoHeaders, waited |-> 0]

Init ==
    /\ config \in Configs
    /\ status \in [Manifests -> Statuses]
    /\ said = [m \in Manifests |-> [s \in Statuses |->
                 IF s = status[m] THEN 0 ELSE Horizon + 1]]
    /\ cache = [i \in {} |-> Idle]
    /\ call = [c \in Callers |-> Idle]

Goto(c, label) == call' = [call EXCEPT ![c].at = label]

-----------------------------------------------------------------------------
(* checkHeaderCache: an entry is good for TTL.                             *)

Valid(i) == i \in DOMAIN cache /\ cache[i].age <= TTL

(* Mutant: an entry that is used counts as checked again.                  *)
HitRenews(c, i) ==
    /\ call[c].at = "idle" /\ Valid(i)
    /\ call' = [call EXCEPT ![c] = [Idle EXCEPT !.at = "ok", !.image = i,
                                                !.headers = cache[i].headers]]
    /\ cache' = [cache EXCEPT ![i].age = 0]
    /\ UNCHANGED <<config, status, said>>

Hit(c, i) ==
    /\ call[c].at = "idle" /\ Valid(i)
    /\ call' = [call EXCEPT ![c] = [Idle EXCEPT !.at = "ok", !.image = i,
                                                !.headers = cache[i].headers]]
    /\ UNCHANGED <<config, status, said, cache>>

(* An entry that is too old is deleted.  Then the reference is parsed.     *)
Miss(c, i) ==
    /\ call[c].at = "idle" /\ ~Valid(i)
    /\ cache' = [j \in DOMAIN cache \ {i} |-> cache[j]]
    /\ call' = [call EXCEPT ![c] = [Idle EXCEPT !.image = i,
            !.at = IF i \in Malformed THEN "failed"
                   ELSE IF DOMAIN config # {} THEN "configured" ELSE "pull"]]
    /\ UNCHANGED <<config, status, said>>

-----------------------------------------------------------------------------
(* The response config.  An image that it does not list has no headers; a  *)
(* duration that cannot be parsed is an error.                             *)
Configure(c) ==
    LET i == call[c].image
        kind == IF i \in DOMAIN config THEN config[i] ELSE "unlisted"
        headers == CASE kind = "stamped" -> Stamp(0)
                     [] kind = "plain" -> Plain
                     [] OTHER -> NoHeaders
    IN  /\ call[c].at = "configured"
        /\ call' = [call EXCEPT ![c].headers = headers,
                                ![c].at = IF kind = "invalid" THEN "failed" ELSE "fill"]
        /\ UNCHANGED <<config, status, said, cache>>

(* Mutant: what the registry says of the index is kept.                    *)
PullKeepsFirst(c) ==
    LET i == call[c].image
        k == call[c].step
    IN  /\ call[c].at = "pull"
        /\ call' = [call EXCEPT ![c] = [@ EXCEPT
                        !.headers = IF k = 1 THEN Keppel(status[path[i][k]]) ELSE @,
                        !.waited = 0,
                        !.step = IF k = Len(path[i]) THEN k ELSE k + 1,
                        !.at = IF k = Len(path[i]) THEN "fill" ELSE "pull"]]
        /\ UNCHANGED <<config, status, said, cache>>

(* remote.Image pulls the manifest and, if that is an index, its child;    *)
(* headerCapturer keeps the headers of the last manifest.  Responses on the*)
(* way that are no manifests have no digest and are passed over.           *)
Pull(c) ==
    LET i == call[c].image
        k == call[c].step
    IN  /\ call[c].at = "pull"
        /\ call' = [call EXCEPT ![c] = [@ EXCEPT
                        !.headers = Keppel(status[path[i][k]]), !.waited = 0,
                        !.step = IF k = Len(path[i]) THEN k ELSE k + 1,
                        !.at = IF k = Len(path[i]) THEN "fill" ELSE "pull"]]
        /\ UNCHANGED <<config, status, said, cache>>

(* Mutant: what came before the error is used all the same.                *)
PullFailsIsIgnored(c) ==
    /\ call[c].at = "pull"
    /\ Goto(c, "fill")
    /\ UNCHANGED <<config, status, said, cache>>

PullFails(c) ==
    /\ call[c].at = "pull"
    /\ Goto(c, "failed")
    /\ UNCHANGED <<config, status, said, cache>>

(* fillHeaderCache, whatever others have put there meanwhile.              *)
Fill(c) ==
    /\ call[c].at = "fill"
    /\ cache' = [i \in DOMAIN cache \cup {call[c].image} |->
                    IF i = call[c].image THEN [headers |-> call[c].headers, age |-> 0]
                    ELSE cache[i]]
    /\ Goto(c, "ok")
    /\ UNCHANGED <<config, status, said>>

(* The response is written, or a 400 or 500.                               *)
Respond(c) ==
    /\ call[c].at \in {"ok", "failed"}
    /\ call' = [call EXCEPT ![c] = Idle]
    /\ UNCHANGED <<config, status, said, cache>>

-----------------------------------------------------------------------------
Rescan(m, s) ==
    /\ status' = [status EXCEPT ![m] = s]
    /\ said' = [said EXCEPT ![m][s] = 0]
    /\ UNCHANGED <<config, cache, call>>

Tick ==
    /\ \A c \in Callers : call[c].at = "fill" => call[c].waited < MaxLatency
    /\ said' = [m \in Manifests |-> [s \in Statuses |->
                  IF s = status[m] THEN 0 ELSE Older(said[m][s])]]
    /\ cache' = [i \in DOMAIN cache |->
                  [headers |-> Aged(cache[i].headers), age |-> Older(cache[i].age)]]
    /\ call' = [c \in Callers |-> [call[c] EXCEPT !.headers = Aged(@),
            !.waited = IF call[c].at = "fill" THEN @ + 1 ELSE @]]
    /\ UNCHANGED <<config, status>>

Handle(c) == Configure(c) \/ Pull(c) \/ PullFails(c) \/ Fill(c) \/ Respond(c)

Next ==
    \/ \E c \in Callers : Handle(c) \/ \E i \in Images : Hit(c, i) \/ Miss(c, i)
    \/ \E m \in Manifests, s \in Statuses : Rescan(m, s)
    \/ Tick

Spec == Init /\ [][Next]_vars

(* Time goes on, and the registry answers or fails every request.          *)
FairSpec == Spec /\ WF_vars(Tick) /\ \A c \in Callers : WF_vars(Handle(c))

-----------------------------------------------------------------------------
Image(i) == path[i][Len(path[i])]
Ages == 0 .. Horizon + 1
Headers == {NoHeaders, Plain} \cup {Keppel(s) : s \in Statuses} \cup {Stamp(n) : n \in Ages}

(* Every variable has its type; headers that are waiting to be cached wait *)
(* no longer than the bound, and what is cached was parsed.                *)
TypeOK ==
    /\ status \in [Manifests -> Statuses]
    /\ said \in [Manifests -> [Statuses -> Ages]]
    /\ DOMAIN cache \subseteq Images \ Malformed
    /\ \A i \in DOMAIN cache : cache[i] \in [headers : Headers, age : Ages]
    /\ call \in [Callers -> [at : {"idle", "pull", "configured", "fill", "ok", "failed"},
                             image : Images, step : Nat, headers : Headers,
                             waited : 0 .. MaxLatency]]
    /\ \A c \in Callers : call[c].step \in DOMAIN path[call[c].image]

(* What is told of an image was true no more than that many ticks ago: the *)
(* registry said it of the image itself, and not of an index on the way,   *)
(* or the config asked for a time of creation that is off by no more.      *)
TrueWithin(i, h, n) ==
    \/ /\ DOMAIN config = {}
       /\ \E s \in Statuses : h = Keppel(s) /\ said[Image(i)][s] <= n
    \/ DOMAIN config # {} /\ i \notin DOMAIN config /\ h = NoHeaders
    \/ /\ i \in DOMAIN config /\ config[i] = "stamped"
       /\ \E k \in 0 .. n : h = Stamp(k)
    \/ i \in DOMAIN config /\ config[i] = "plain" /\ h = Plain

(* Behind the next property.  What the registry says now is known as said  *)
(* now; a goroutine about to fill the cache has what was true when it got  *)
(* it; and an entry in use was true within its age and that latency, which *)
(* is what makes up for a time stamp that is younger than the headers.     *)
SaidInv == \A m \in Manifests : said[m][status[m]] = 0

CallInv ==
    \A c \in Callers :
        /\ call[c].at = "pull" => DOMAIN config = {}
        /\ call[c].at = "configured" => DOMAIN config # {}
        /\ call[c].at \in {"pull", "configured", "fill"} => call[c].image \notin Malformed
        /\ call[c].at = "fill" =>
              TrueWithin(call[c].image, call[c].headers, call[c].waited)

CacheInv ==
    \A i \in DOMAIN cache :
        Valid(i) => TrueWithin(i, cache[i].headers, cache[i].age + MaxLatency)

IInv == TypeOK /\ config \in Configs /\ SaidInv /\ CallInv /\ CacheInv

(* "The checker may cache headers for a short period of time"              *)
(* (doop-image-checker/README.md): an answer was true within the half hour *)
(* and the duration of one request to the registry, though late answers    *)
(* replace newer ones in the cache and count as just checked.              *)
AnswersAreRecent ==
    [][\A c \in Callers : call[c].at # "ok" /\ call'[c].at = "ok" =>
          TrueWithin(call'[c].image, call'[c].headers, Horizon)]_vars

(* Once the registry says the same of an image for ever, no request gets   *)
(* to hear anything else in the end, however often the image is asked for. *)
SettlesOnTruth ==
    \A i \in Images, s \in Statuses :
        DOMAIN config = {} /\ <>[](status[Image(i)] = s)
            => <>[](Valid(i) => cache[i].headers = Keppel(s))
=============================================================================
