--------------------------- MODULE PermissionProofs ---------------------------
(***************************************************************************)
(* The safety of the permission gate for any tool calls, any number of     *)
(* hooks and any size of the cache.                                        *)
(***************************************************************************)
EXTENDS Permission, SequenceTheorems, TLAPS

\* The stages of a call whose request the client has been sent.
Sent == {"wait", "expired", "expiring", "tell", "insert", "done", "dropped"}

\* A request that the client knows of is past its writing.
AskedAreSent == \A c \in asked : gate[c].at \in Sent

\* A call that writes or waits has gone through the registry.
SendersAreThere ==
  \A c \in ToolCalls :
    /\ GateAt(c, "write") => c \in pending
    /\ GateAt(c, "wait") =>
         c \in pending \/ delivery[c] # "none" \/ channel[c] # "empty"

\* A sender is in one place: taken out of the registry before it is used, and
\* never registered again, because only a request that was sent is answered.
SendersAreUsedOnce ==
  \A c \in ToolCalls :
    delivery[c] # "none" \/ channel[c] # "empty" => c \in asked \ pending

\* The inductive invariant of the request to the client: AnswerCanArrive does not
\* say that the sender about to be used is the last one of its call.
AnswerInv ==
  /\ AskedAreSent
  /\ SendersAreThere
  /\ SendersAreUsedOnce
  /\ NoStaleSender

\* The shard is within its bound,
CacheBounded == Len(cache) <= MaxEntries

\* and a key has one verdict in it.
KeysDistinct == \A i, j \in DOMAIN cache : cache[i].key = cache[j].key => i = j

PermissionInv == PermissionTypeOK /\ CacheBounded /\ KeysDistinct /\ AnswerInv

-----------------------------------------------------------------------------
(* Types *)

\* What a call does to its own record keeps the record's type.
LEMMA ProceedTyped ==
  ASSUME PermissionTypeOK, NEW c \in ToolCalls,
         NEW stage \in GateStages, NEW hook \in Nat, Proceed(c, stage, hook)
  PROVE  gate' \in [ToolCalls -> Gate]
<1> DEFINE g == [at |-> stage, hung |-> FALSE, hook |-> hook,
                 allow |-> gate[c].allow, from |-> gate[c].from]
<1>1. g \in Gate
  BY DEF PermissionTypeOK, Gate
<1>2. gate' = [gate EXCEPT ![c] = g] /\ gate \in [ToolCalls -> Gate]
  BY DEF Proceed, PermissionTypeOK
<1> HIDE DEF g
<1>3. QED
  BY <1>1, <1>2

LEMMA DecideTyped ==
  ASSUME PermissionTypeOK, NEW c \in ToolCalls, NEW stage \in GateStages,
         NEW allow \in BOOLEAN, NEW from \in Origins, Decide(c, stage, allow, from)
  PROVE  gate' \in [ToolCalls -> Gate]
<1> DEFINE g == [at |-> stage, hung |-> FALSE, hook |-> gate[c].hook,
                 allow |-> allow, from |-> from]
<1>1. g \in Gate
  BY DEF PermissionTypeOK, Gate
<1>2. gate' = [gate EXCEPT ![c] = g] /\ gate \in [ToolCalls -> Gate]
  BY DEF Decide, PermissionTypeOK
<1> HIDE DEF g
<1>3. QED
  BY <1>1, <1>2

\* A call that hangs stays where it is.
LEMMA HangsTyped ==
  ASSUME PermissionTypeOK, NEW c \in ToolCalls, Hangs(c)
  PROVE  /\ gate' \in [ToolCalls -> Gate]
         /\ \A d \in ToolCalls : gate'[d].at = gate[d].at
         /\ UNCHANGED <<cache, pending, asked, delivery, channel>>
<1> DEFINE g == [gate[c] EXCEPT !.hung = TRUE]
<1>1. gate \in [ToolCalls -> Gate] /\ gate[c] \in Gate
  BY DEF PermissionTypeOK
<1>2. g \in Gate /\ g.at = gate[c].at
  BY <1>1 DEF Gate
<1>3. /\ gate' = [gate EXCEPT ![c] = g]
      /\ UNCHANGED <<cache, pending, asked, delivery, channel>>
  BY DEF Hangs
<1> HIDE DEF g
<1>4. QED
  BY <1>1, <1>2, <1>3

\* Inserting a verdict gives a shard within its bound.
LEMMA InsertedTyped ==
  ASSUME PermissionTypeOK, CacheBounded, NEW e \in Entry
  PROVE  Inserted(e) \in Seq(Entry) /\ Len(Inserted(e)) <= MaxEntries
<1> DEFINE longer == Append(cache, e)
<1>1. cache \in Seq(Entry) /\ Len(cache) \in Nat
  BY LenProperties DEF PermissionTypeOK
<1>2. longer \in Seq(Entry) /\ longer # <<>> /\ Len(longer) = Len(cache) + 1
  BY <1>1, AppendProperties
<1>3. Tail(longer) \in Seq(Entry) /\ Len(Tail(longer)) = Len(cache)
  BY <1>1, <1>2, HeadTailProperties
<1>4. QED
  BY <1>1, <1>2, <1>3, PermissionAssumption DEF Inserted, CacheBounded

\* Every action keeps the types and the bound of the shard.
LEMMA PermissionTypeNext ==
  ASSUME PermissionTypeOK, CacheBounded, [PermissionNext]_permissionVars
  PROVE  PermissionTypeOK' /\ CacheBounded'
<1>1. ASSUME NEW c \in ToolCalls, GateStep(c) PROVE PermissionTypeOK' /\ CacheBounded'
  <2> USE DEF GateStages, Origins
  <2>0. gate[c].hook \in Nat /\ gate[c].allow \in BOOLEAN /\ gate[c].from \in Origins
    BY DEF PermissionTypeOK, Gate
  <2>1. CASE CacheMiss(c)
    <3>1. HookOrAsk(1) \in GateStages /\ Proceed(c, HookOrAsk(1), 1)
      BY <2>1 DEF CacheMiss, HookOrAsk
    <3>2. QED
      BY <2>1, <3>1, ProceedTyped DEF CacheMiss, PermissionTypeOK, CacheBounded
  <2>2. ASSUME NEW i \in DOMAIN cache, CacheHit(c, i) PROVE PermissionTypeOK' /\ CacheBounded'
    <3>1. cache \in [1..Len(cache) -> Entry]
      BY LenProperties DEF PermissionTypeOK
    <3>2. cache[i] \in Entry
      BY <3>1
    <3>3. cache[i].allow \in BOOLEAN
      BY <3>2 DEF Entry
    <3>4. QED
      BY <2>2, <3>3, DecideTyped DEF CacheHit, PermissionTypeOK, CacheBounded
  <2>3. ASSUME NEW allow \in BOOLEAN, HookDecides(c, allow)
        PROVE PermissionTypeOK' /\ CacheBounded'
    BY <2>3, DecideTyped DEF HookDecides, PermissionTypeOK, CacheBounded
  <2>4. CASE HookSilent(c)
    <3>1. HookOrAsk(gate[c].hook + 1) \in GateStages /\ gate[c].hook + 1 \in Nat
      BY <2>0 DEF HookOrAsk
    <3>2. QED
      BY <2>4, <3>1, ProceedTyped DEF HookSilent, PermissionTypeOK, CacheBounded
  <2>5. CASE Withdraw(c)
    BY <2>5, DecideTyped DEF Withdraw, Unavailable, PermissionTypeOK, CacheBounded
  <2>6. CASE Register(c)
    BY <2>6, <2>0, ProceedTyped DEF Register, PermissionTypeOK, CacheBounded
  <2>7. CASE WriteRequest(c)
    BY <2>7, <2>0, ProceedTyped DEF WriteRequest, PermissionTypeOK, CacheBounded
  <2>8. CASE WriteFails(c)
    BY <2>8, <2>0, ProceedTyped DEF WriteFails, PermissionTypeOK, CacheBounded
  <2>9. CASE Receive(c)
    <3>1. gate' \in [ToolCalls -> Gate]
      BY <2>9, <2>0, ProceedTyped, DecideTyped DEF Receive
    <3>2. channel' \in [ToolCalls -> Answers \cup {"empty"}]
      BY <2>9 DEF Receive, PermissionTypeOK
    <3>3. QED
      BY <2>9, <3>1, <3>2 DEF Receive, PermissionTypeOK, CacheBounded
  <2>10. CASE TimesOut(c)
    BY <2>10, <2>0, ProceedTyped DEF TimesOut, PermissionTypeOK, CacheBounded
  <2>11. CASE Expire(c)
    BY <2>11, <2>0, ProceedTyped DEF Expire, PermissionTypeOK, CacheBounded
  <2>12. CASE InsertVerdict(c)
    <3> DEFINE e == [key |-> KeyOf[c], allow |-> gate[c].allow, from |-> gate[c].from]
    <3>1. e \in Entry
      BY <2>0, PermissionAssumption DEF Entry
    <3>2. Inserted(e) \in Seq(Entry) /\ Len(Inserted(e)) <= MaxEntries
      BY <3>1, InsertedTyped
    <3>3. cache' = Inserted(e)
      BY <2>12 DEF InsertVerdict
    <3>4. gate' \in [ToolCalls -> Gate]
      BY <2>12, <2>0, ProceedTyped DEF InsertVerdict
    <3>5. QED
      BY <2>12, <3>2, <3>3, <3>4 DEF InsertVerdict, PermissionTypeOK, CacheBounded
  <2>13. CASE Told(c)
    BY <2>13, DecideTyped DEF Told, Unavailable, PermissionTypeOK, CacheBounded
  <2>14. QED
    BY <1>1, <2>1, <2>2, <2>3, <2>4, <2>5, <2>6, <2>7, <2>8, <2>9, <2>10, <2>11, <2>12, <2>13
       DEF GateStep
<1>2. ASSUME NEW c \in ToolCalls, DropCall(c) PROVE PermissionTypeOK' /\ CacheBounded'
  <2>1. gate[c].hook \in Nat
    BY DEF PermissionTypeOK, Gate
  <2>2. QED
    BY <1>2, <2>1, ProceedTyped DEF DropCall, GateStages, PermissionTypeOK, CacheBounded
<1>3. ASSUME NEW c \in ToolCalls, NEW answer \in Answers, Respond(c, answer)
      PROVE PermissionTypeOK' /\ CacheBounded'
  BY <1>3 DEF Respond, PermissionTypeOK, CacheBounded
<1>4. ASSUME NEW c \in ToolCalls, SendAnswer(c) PROVE PermissionTypeOK' /\ CacheBounded'
  BY <1>4 DEF SendAnswer, PermissionTypeOK, CacheBounded
<1>5. ASSUME NEW c \in ToolCalls, Hangs(c) PROVE PermissionTypeOK' /\ CacheBounded'
  BY <1>5, HangsTyped DEF PermissionTypeOK, CacheBounded
<1>6. CASE UNCHANGED permissionVars
  BY <1>6 DEF permissionVars, PermissionTypeOK, CacheBounded
<1>7. QED
  BY <1>1, <1>2, <1>3, <1>4, <1>5, <1>6 DEF PermissionNext

-----------------------------------------------------------------------------
(* The request to the client *)

\* Every action keeps the senders where they belong.
LEMMA AnswerNext ==
  ASSUME PermissionTypeOK, AnswerInv, [PermissionNext]_permissionVars
  PROVE  AnswerInv'
<1> USE DEF AnswerInv, AskedAreSent, SendersAreThere, SendersAreUsedOnce, NoStaleSender,
            GateAt, Sent
<1>1. ASSUME NEW c \in ToolCalls, GateStep(c) PROVE AnswerInv'
  <2>1. CASE CacheMiss(c)
    <3>1. HookOrAsk(1) \in {"hooks", "register"}
      BY DEF HookOrAsk
    <3>2. QED
      BY <2>1, <3>1 DEF CacheMiss, Proceed, PermissionTypeOK
  <2>2. ASSUME NEW i \in DOMAIN cache, CacheHit(c, i) PROVE AnswerInv'
    BY <2>2 DEF CacheHit, Decide, PermissionTypeOK
  <2>3. ASSUME NEW allow \in BOOLEAN, HookDecides(c, allow) PROVE AnswerInv'
    BY <2>3 DEF HookDecides, Decide, PermissionTypeOK
  <2>4. CASE HookSilent(c)
    <3>1. HookOrAsk(gate[c].hook + 1) \in {"hooks", "register"}
      BY DEF HookOrAsk
    <3>2. QED
      BY <2>4, <3>1 DEF HookSilent, Proceed, PermissionTypeOK
  <2>5. CASE Withdraw(c)
    BY <2>5 DEF Withdraw, Decide, Unavailable, PermissionTypeOK
  <2>6. CASE Register(c)
    BY <2>6 DEF Register, Proceed, PermissionTypeOK
  <2>7. CASE WriteRequest(c)
    BY <2>7 DEF WriteRequest, Proceed, PermissionTypeOK
  <2>8. CASE WriteFails(c)
    BY <2>8 DEF WriteFails, Proceed, PermissionTypeOK
  <2>9. CASE Receive(c)
    <3>1. gate[c].at = "wait" /\ channel[c] # "empty" /\ gate'[c].at \in {"tell", "insert"}
      BY <2>9 DEF Receive, Proceed, Decide, PermissionTypeOK
    <3>2. \A d \in ToolCalls \ {c} : gate'[d] = gate[d]
      BY <2>9 DEF Receive, Proceed, Decide, PermissionTypeOK
    <3>3. UNCHANGED <<pending, asked, delivery>>
      BY <2>9 DEF Receive
    <3>4. channel'[c] = "empty" /\ \A d \in ToolCalls \ {c} : channel'[d] = channel[d]
      BY <2>9 DEF Receive, PermissionTypeOK
    <3>5. QED
      BY <3>1, <3>2, <3>3, <3>4 DEF PermissionTypeOK
  <2>10. CASE TimesOut(c)
    BY <2>10 DEF TimesOut, Proceed, PermissionTypeOK
  <2>11. CASE Expire(c)
    BY <2>11 DEF Expire, Proceed, PermissionTypeOK
  <2>12. CASE InsertVerdict(c)
    BY <2>12 DEF InsertVerdict, Proceed, PermissionTypeOK
  <2>13. CASE Told(c)
    BY <2>13 DEF Told, Decide, Unavailable, PermissionTypeOK
  <2>14. QED
    BY <1>1, <2>1, <2>2, <2>3, <2>4, <2>5, <2>6, <2>7, <2>8, <2>9, <2>10, <2>11, <2>12, <2>13
       DEF GateStep
<1>2. ASSUME NEW c \in ToolCalls, DropCall(c) PROVE AnswerInv'
  BY <1>2 DEF DropCall, Untimed, Proceed, PermissionTypeOK
<1>3. ASSUME NEW c \in ToolCalls, NEW answer \in Answers, Respond(c, answer)
      PROVE AnswerInv'
  <2>1. answer # "none" /\ c \in asked /\ c \in pending
    BY <1>3 DEF Respond, Answers
  <2>2. /\ delivery'[c] = answer /\ \A d \in ToolCalls \ {c} : delivery'[d] = delivery[d]
        /\ pending' = pending \ {c} /\ UNCHANGED <<gate, asked, channel>>
    BY <1>3 DEF Respond, PermissionTypeOK
  <2>3. QED
    BY <2>1, <2>2 DEF PermissionTypeOK
<1>4. ASSUME NEW c \in ToolCalls, SendAnswer(c) PROVE AnswerInv'
  <2>1. delivery[c] # "none" /\ delivery[c] \in Answers
    BY <1>4 DEF SendAnswer, PermissionTypeOK
  <2>2. /\ delivery'[c] = "none" /\ \A d \in ToolCalls \ {c} : delivery'[d] = delivery[d]
        /\ UNCHANGED <<gate, pending, asked>>
    BY <1>4 DEF SendAnswer, PermissionTypeOK
  <2>3. \A d \in ToolCalls \ {c} : channel'[d] = channel[d]
    BY <1>4 DEF SendAnswer, PermissionTypeOK
  <2>4. channel'[c] = IF GateAt(c, "wait") THEN delivery[c] ELSE channel[c]
    BY <1>4, <2>1 DEF SendAnswer, PermissionTypeOK
  <2>5. delivery[c] # "empty"
    BY <2>1 DEF Answers
  <2>6. QED
    BY <2>1, <2>2, <2>3, <2>4, <2>5 DEF PermissionTypeOK
<1>5. ASSUME NEW c \in ToolCalls, Hangs(c) PROVE AnswerInv'
  BY <1>5, HangsTyped DEF PermissionTypeOK
<1>6. CASE UNCHANGED permissionVars
  BY <1>6 DEF permissionVars
<1>7. QED
  BY <1>1, <1>2, <1>3, <1>4, <1>5, <1>6 DEF PermissionNext

-----------------------------------------------------------------------------
(* The cache *)

\* The shard after an insertion, entry by entry: as before; one entry longer; or
\* moved down by one, the oldest entry gone.
LEMMA InsertedEntries ==
  ASSUME PermissionTypeOK, CacheBounded, NEW e \in Entry
  PROVE  LET new == Inserted(e) IN
         \/ new = cache
         \/ /\ e.key \notin CachedKeys
            /\ DOMAIN new = 1..(Len(cache) + 1)
            /\ \A j \in 1..(Len(cache) + 1) : new[j] = IF j <= Len(cache) THEN cache[j] ELSE e
         \/ /\ e.key \notin CachedKeys
            /\ Len(cache) = MaxEntries
            /\ DOMAIN new = 1..Len(cache)
            /\ \A j \in 1..Len(cache) : new[j] = IF j < Len(cache) THEN cache[j + 1] ELSE e
<1> DEFINE longer == Append(cache, e)
<1>1. cache \in Seq(Entry) /\ Len(cache) \in Nat
  BY LenProperties DEF PermissionTypeOK
<1>2. /\ longer \in Seq(Entry) /\ longer # <<>>
      /\ Len(longer) = Len(cache) + 1
      /\ \A j \in 1..Len(cache) : longer[j] = cache[j]
      /\ longer[Len(cache) + 1] = e
  BY <1>1, AppendProperties
<1>3. CASE e.key \in CachedKeys
  BY <1>3 DEF Inserted
<1>4. CASE e.key \notin CachedKeys /\ ~(Len(longer) > MaxEntries)
  <2>1. DOMAIN longer = 1..Len(longer)
    BY <1>2, LenProperties
  <2>2. Inserted(e) = longer
    BY <1>4 DEF Inserted
  <2> HIDE DEF longer
  <2>3. \A j \in 1..(Len(cache) + 1) : longer[j] = IF j <= Len(cache) THEN cache[j] ELSE e
    BY <1>1, <1>2
  <2>4. QED
    BY <1>2, <1>4, <2>1, <2>2, <2>3
<1>5. CASE e.key \notin CachedKeys /\ Len(longer) > MaxEntries
  <2>1. Inserted(e) = Tail(longer)
    BY <1>5 DEF Inserted
  <2>2. Len(cache) = MaxEntries
    BY <1>1, <1>2, <1>5, PermissionAssumption DEF CacheBounded
  <2>3. /\ Tail(longer) \in Seq(Entry)
        /\ Len(Tail(longer)) = Len(cache)
        /\ \A j \in 1..Len(Tail(longer)) : Tail(longer)[j] = longer[j + 1]
    BY <1>1, <1>2, HeadTailProperties
  <2>4. DOMAIN Tail(longer) = 1..Len(cache)
    BY <2>3, LenProperties
  <2> HIDE DEF longer
  <2>5. \A j \in 1..Len(cache) : Tail(longer)[j] = IF j < Len(cache) THEN cache[j + 1] ELSE e
    BY <1>1, <1>2, <2>3
  <2>6. QED
    BY <1>5, <2>1, <2>2, <2>4, <2>5
<1>6. QED
  BY <1>3, <1>4, <1>5

\* A key that is in the shard is not inserted again.
LEMMA InsertedDistinct ==
  ASSUME PermissionTypeOK, CacheBounded, KeysDistinct, NEW e \in Entry
  PROVE  LET new == Inserted(e) IN
         \A i, j \in DOMAIN new : new[i].key = new[j].key => i = j
<1> DEFINE new == Inserted(e)
<1> SUFFICES \A i, j \in DOMAIN new : new[i].key = new[j].key => i = j
  OBVIOUS
<1>1. Len(cache) \in Nat /\ DOMAIN cache = 1..Len(cache)
  BY LenProperties DEF PermissionTypeOK
<1>2. ASSUME e.key \notin CachedKeys PROVE \A j \in 1..Len(cache) : cache[j].key # e.key
  BY <1>1, <1>2 DEF CachedKeys
<1>3. \A i, j \in 1..Len(cache) : cache[i].key = cache[j].key => i = j
  BY <1>1 DEF KeysDistinct
<1> HIDE DEF new
<1>4. CASE new = cache
  BY <1>4 DEF KeysDistinct
<1>5. CASE /\ e.key \notin CachedKeys
           /\ DOMAIN new = 1..(Len(cache) + 1)
           /\ \A j \in 1..(Len(cache) + 1) : new[j] = IF j <= Len(cache) THEN cache[j] ELSE e
  BY <1>1, <1>2, <1>3, <1>5
<1>6. CASE /\ e.key \notin CachedKeys
           /\ Len(cache) = MaxEntries
           /\ DOMAIN new = 1..Len(cache)
           /\ \A j \in 1..Len(cache) : new[j] = IF j < Len(cache) THEN cache[j + 1] ELSE e
  <2> SUFFICES ASSUME NEW i \in 1..Len(cache), NEW j \in 1..Len(cache),
                      new[i].key = new[j].key
               PROVE  i = j
    BY <1>6
  <2>1. i < Len(cache) => i + 1 \in 1..Len(cache) /\ new[i] = cache[i + 1]
    BY <1>1, <1>6
  <2>2. j < Len(cache) => j + 1 \in 1..Len(cache) /\ new[j] = cache[j + 1]
    BY <1>1, <1>6
  <2>3. CASE i < Len(cache) /\ j < Len(cache)
    <3>1. i + 1 = j + 1
      BY <1>3, <2>1, <2>2, <2>3
    <3>2. QED
      BY <1>1, <3>1
  <2>4. CASE i < Len(cache) /\ ~(j < Len(cache))
    <3>1. new[j] = e
      BY <1>6, <2>4
    <3>2. QED
      BY <1>2, <1>6, <2>1, <2>4, <3>1
  <2>5. CASE ~(i < Len(cache)) /\ j < Len(cache)
    <3>1. new[i] = e
      BY <1>6, <2>5
    <3>2. QED
      BY <1>2, <1>6, <2>2, <2>5, <3>1
  <2>6. CASE ~(i < Len(cache)) /\ ~(j < Len(cache))
    BY <1>1, <2>6
  <2>7. QED
    BY <2>3, <2>4, <2>5, <2>6
<1>7. QED
  BY <1>4, <1>5, <1>6, InsertedEntries DEF new

\* Inserting changes no verdict: an entry stays, or it was the oldest of a full
\* shard and its key is gone with it.
LEMMA InsertedKeeps ==
  ASSUME PermissionTypeOK, CacheBounded, KeysDistinct, NEW e \in Entry,
         NEW i \in DOMAIN cache
  PROVE  LET new == Inserted(e) IN
         \/ \E j \in DOMAIN new : new[j] = cache[i]
         \/ /\ i = 1 /\ Len(cache) = MaxEntries
            /\ \A j \in DOMAIN new : new[j].key # cache[i].key
<1> DEFINE new == Inserted(e)
<1> SUFFICES \/ \E j \in DOMAIN new : new[j] = cache[i]
             \/ /\ i = 1 /\ Len(cache) = MaxEntries
                /\ \A j \in DOMAIN new : new[j].key # cache[i].key
  OBVIOUS
<1>1. Len(cache) \in Nat /\ DOMAIN cache = 1..Len(cache)
  BY LenProperties DEF PermissionTypeOK
<1>2. ASSUME e.key \notin CachedKeys PROVE \A j \in 1..Len(cache) : cache[j].key # e.key
  BY <1>1, <1>2 DEF CachedKeys
<1> HIDE DEF new
<1>3. CASE new = cache
  BY <1>3
<1>4. CASE /\ DOMAIN new = 1..(Len(cache) + 1)
           /\ \A j \in 1..(Len(cache) + 1) : new[j] = IF j <= Len(cache) THEN cache[j] ELSE e
  BY <1>1, <1>4
<1>5. CASE /\ e.key \notin CachedKeys
           /\ Len(cache) = MaxEntries
           /\ DOMAIN new = 1..Len(cache)
           /\ \A j \in 1..Len(cache) : new[j] = IF j < Len(cache) THEN cache[j + 1] ELSE e
  <2>1. CASE i = 1
    BY <1>1, <1>2, <1>5, <2>1 DEF KeysDistinct
  <2>2. CASE i # 1
    <3>1. i - 1 \in 1..Len(cache) /\ new[i - 1] = cache[i]
      BY <1>1, <1>5, <2>2
    <3>2. QED
      BY <1>5, <3>1
  <2>3. QED
    BY <2>1, <2>2
<1>6. QED
  BY <1>3, <1>4, <1>5, InsertedEntries DEF new

\* Only InsertVerdict changes the cache, and it inserts the verdict of its call.
LEMMA CacheChanges ==
  ASSUME PermissionTypeOK, [PermissionNext]_permissionVars
  PROVE  cache' = cache \/ \E e \in Entry : cache' = Inserted(e)
<1>1. ASSUME NEW c \in ToolCalls, InsertVerdict(c) PROVE \E e \in Entry : cache' = Inserted(e)
  <2> DEFINE e == [key |-> KeyOf[c], allow |-> gate[c].allow, from |-> gate[c].from]
  <2>1. e \in Entry
    BY PermissionAssumption DEF PermissionTypeOK, Gate, Entry
  <2>2. cache' = Inserted(e)
    BY <1>1 DEF InsertVerdict
  <2>3. QED
    BY <2>1, <2>2
<1>2. QED
  BY <1>1 DEF PermissionNext, GateStep, permissionVars, CacheMiss, CacheHit, HookDecides,
     HookSilent, Hangs, Register, WriteRequest, WriteFails, Withdraw, Receive, TimesOut, Expire,
     Told, DropCall, Respond, SendAnswer

-----------------------------------------------------------------------------
\* The inductive invariant holds at the start and through every step.
LEMMA PermissionInvInit == PermissionInit => PermissionInv
<1> SUFFICES ASSUME PermissionInit PROVE PermissionInv
  OBVIOUS
<1>1. cache = <<>> /\ Len(cache) = 0 /\ cache \in Seq(Entry)
  BY EmptySeq DEF PermissionInit
<1>2. PermissionTypeOK
  BY <1>1 DEF PermissionInit, PermissionTypeOK, Gate, GateStages, Origins
<1>3. CacheBounded /\ KeysDistinct
  BY <1>1, PermissionAssumption DEF CacheBounded, KeysDistinct
<1>4. AnswerInv
  BY DEF PermissionInit, AnswerInv, AskedAreSent, SendersAreThere, SendersAreUsedOnce,
         NoStaleSender, GateAt
<1>5. QED
  BY <1>2, <1>3, <1>4 DEF PermissionInv

LEMMA PermissionInvNext ==
  PermissionInv /\ [PermissionNext]_permissionVars => PermissionInv'
<1> SUFFICES ASSUME PermissionInv, [PermissionNext]_permissionVars PROVE PermissionInv'
  OBVIOUS
<1> USE DEF PermissionInv
<1>1. PermissionTypeOK' /\ CacheBounded'
  BY PermissionTypeNext
<1>2. AnswerInv'
  BY AnswerNext
<1>3. KeysDistinct'
  BY CacheChanges, InsertedDistinct DEF KeysDistinct
<1>4. QED
  BY <1>1, <1>2, <1>3

\* The permission gate's inductive invariant, for any calls, hooks and cache.
THEOREM PermissionInvariance == PermissionSpec => []PermissionInv
BY PermissionInvInit, PermissionInvNext, PTL DEF PermissionSpec

\* The gate's records, the cache, the registry and the channels keep their types.
THEOREM PermissionTypeCorrect == PermissionSpec => []PermissionTypeOK
<1>1. PermissionInv => PermissionTypeOK
  BY DEF PermissionInv
<1>2. QED
  BY <1>1, PermissionInvariance, PTL

\* A waiting call can be answered, and once: request_client_permission and
\* resolve_pending_client_response lose no answer to a race.
THEOREM AnswersArrive == PermissionSpec => []AnswerCanArrive
<1>1. PermissionInv => AnswerCanArrive
  BY DEF PermissionInv, AnswerInv, SendersAreThere, SendersAreUsedOnce, AnswerCanArrive
<1>2. QED
  BY <1>1, PermissionInvariance, PTL

\* No path of request_client_permission leaves its sender in the registry.
THEOREM SendersRemoved == PermissionSpec => []NoStaleSender
<1>1. PermissionInv => NoStaleSender
  BY DEF PermissionInv, AnswerInv
<1>2. QED
  BY <1>1, PermissionInvariance, PTL

\* GovernanceCache::insert never replaces a verdict: the first one inserted stays
\* until its entry is the oldest of a full shard.
THEOREM VerdictsKept == PermissionSpec => VerdictStable
<1> DEFINE Kept ==
      \A i \in DOMAIN cache :
        \/ \E j \in DOMAIN cache' : cache'[j] = cache[i]
        \/ i = 1 /\ Len(cache) = MaxEntries /\ cache[i].key \notin CachedKeys'
<1>1. PermissionInv /\ [PermissionNext]_permissionVars => [Kept]_permissionVars
  <2> SUFFICES ASSUME PermissionInv, [PermissionNext]_permissionVars PROVE Kept
    OBVIOUS
  <2>1. cache' = cache \/ \E e \in Entry : cache' = Inserted(e)
    BY CacheChanges DEF PermissionInv
  <2>2. CASE cache' = cache
    BY <2>2
  <2>3. ASSUME NEW e \in Entry, cache' = Inserted(e) PROVE Kept
    BY <2>3, InsertedKeeps DEF PermissionInv, CachedKeys
  <2>4. QED
    BY <2>1, <2>2, <2>3
<1>2. QED
  BY <1>1, PermissionInvariance, PTL DEF PermissionSpec, VerdictStable
===============================================================================
