----------------------------- MODULE PushProofs -----------------------------
(***************************************************************************)
(* Proofs about the pushes of Push, for every number of entries of any     *)
(* type, with any domains, and every number of retries.                    *)
(***************************************************************************)
EXTENDS Push, FiniteSetTheorems, SequenceTheorems, TLAPS

-----------------------------------------------------------------------------
(* What a step of a task is, whatever its type.                            *)

\* What the service makes of a request whose answer is bad, or does not come.
Effect(t) ==
    \/ UNCHANGED <<records, late>>
    \/ /\ step[t] \in Writes
       /\ CarriedOut(Request(t))
       /\ UNCHANGED late
    \/ /\ step[t] \in Writes
       /\ late' = late \cup {Request(t)}
       /\ UNCHANGED records

GoOn(t) == /\ step[t] = "zone"
           /\ Goto(t, "list")
           /\ UNCHANGED <<todo, id, records, late>>

GotList(t) == /\ step[t] = "list"
              /\ Listed(t)
              /\ UNCHANGED <<records, late>>

WroteOne(t) == /\ step[t] \in {"edit", "create"}
               /\ CarriedOut(Request(t))
               /\ Advance(t)
               /\ UNCHANGED late

SentAll(t) == /\ step[t] = "send"
              /\ CarriedOut(Request(t))
              /\ End(t, "ok")
              /\ UNCHANGED late

Failed(t) == Fail(t) /\ Effect(t)

Repeated(t) == /\ attempts[t] < config.retries
               /\ attempts' = [attempts EXCEPT ![t] = @ + 1]
               /\ UNCHANGED <<step, todo, id>>
               /\ Effect(t)

Move(t) == \/ GoOn(t) \/ GotList(t) \/ WroteOne(t) \/ SentAll(t)
           \/ Failed(t) \/ Repeated(t)

\* A task takes for done only what the service claims.
LEMMA CloudflareVerdicts == \A v \in CF!Verdicts : v.ok => v.claimed
  BY DEF CF!Verdicts, CF!ClaimsSuccess, CF!parse_cloudflare_response

LEMMA PorkbunVerdicts == \A v \in PB!Verdicts : v.ok => v.claimed
  BY DEF PB!Verdicts, PB!ClaimsSuccess, PB!parse_porkbun_response

\* The parser finds the status of Duck DNS, behind however many blank lines.
LEMMA StatusIsFound ==
    ASSUME NEW answer \in DD!Answer, DD!FirstLine(DD!text(answer)) = "OK"
    PROVE  answer.lines # <<>> /\ Head(answer.lines) = "OK"
<1> DEFINE k == answer.blanks
           lines == answer.lines
           blank == [i \in 1..k |-> "blank"]
           body == DD!text(answer)
           first == {i \in DOMAIN body :
                         /\ body[i] # "blank"
                         /\ \A j \in 1..(i - 1) : body[j] = "blank"}
<1>1. /\ k \in Nat
      /\ lines \in Seq(DD!Line)
      /\ lines # <<>> => Head(lines) # "blank"
  BY PushAssumption DEF DD!Answer, DD!Bodies
<1>2. blank \in Seq({"blank"}) /\ Len(blank) = k
  <2>1. blank \in [1..k -> {"blank"}]
    OBVIOUS
  <2> HIDE DEF blank
  <2> QED
    BY <1>1, <2>1
<1>3. /\ body \in Seq(DD!Line)
      /\ Len(body) = k + Len(lines)
      /\ \A i \in 1..k : body[i] = "blank"
      /\ \A i \in (k + 1)..(k + Len(lines)) : body[i] = lines[i - k]
  <2>1. body = blank \o lines
    BY DEF DD!text
  <2>2. blank \in Seq(DD!Line)
    BY <1>1 DEF DD!Line
  <2> HIDE DEF blank, body
  <2>3. \A i \in 1..k : body[i] = blank[i]
    BY <1>1, <1>2, <2>1, <2>2
  <2>4. \A i \in 1..k : blank[i] = "blank"
    BY DEF blank
  <2>5. body \in Seq(DD!Line) /\ Len(body) = k + Len(lines)
    BY <1>1, <1>2, <2>1, <2>2, ConcatProperties
  <2>6. ASSUME NEW i \in (k + 1)..(k + Len(lines))
        PROVE  body[i] = lines[i - k]
    <3>1. Len(lines) \in Nat
      BY <1>1
    <3>2. i \in 1..(Len(blank) + Len(lines)) /\ ~(i <= Len(blank))
      BY <1>1, <1>2, <3>1
    <3> QED
      BY <1>1, <1>2, <2>1, <2>2, <3>2, ConcatProperties
  <2> QED
    BY <2>3, <2>4, <2>5, <2>6
<1>4. DD!FirstLine(body) =
          IF first = {} THEN "none" ELSE body[CHOOSE i \in first : TRUE]
  BY DEF DD!FirstLine
<1> HIDE DEF k, lines, blank, body
<1>5. PICK i \in first : body[i] = "OK"
  BY <1>4 DEF body
<1>6. i \in 1..(k + Len(lines)) /\ i > k
  BY <1>1, <1>3, <1>5
<1>7. lines # <<>> /\ Len(lines) \in Nat \ {0} /\ Head(lines) = lines[1]
  BY <1>1, <1>6
<1>8. i = k + 1
  <2>1. body[k + 1] = lines[1]
    BY <1>1, <1>3, <1>7
  <2>2. body[k + 1] # "blank"
    BY <1>1, <1>7, <2>1
  <2> QED
    BY <1>1, <1>5, <1>6, <2>2
<1>9. Head(lines) = "OK"
  BY <1>1, <1>3, <1>5, <1>6, <1>7, <1>8
<1> QED
  BY <1>7, <1>9 DEF lines

LEMMA DuckDnsVerdicts == \A v \in DD!Verdicts : v.ok => v.claimed
<1>1. \A answer \in DD!Answer :
          DD!parse_update_response(answer) => DD!ClaimsSuccess(answer)
  BY StatusIsFound
     DEF DD!ClaimsSuccess, DD!parse_update_response,
         DD!parse_update_response_body
<1> QED
  BY <1>1 DEF DD!Verdicts

LEMMA CloudflareSame ==
    ASSUME NEW t \in Task, step[t] \in Writes
    PROVE  /\ CF!CarriedOut(CF!Request(t)) <=> CarriedOut(Request(t))
           /\ CF!LosesWrite(t) => Effect(t)
<1>1. CF!Request(t) = Request(t) /\ Request(t).step \in Writes
  BY DEF CF!Request, Request, CF!NamesIn, NamesIn
<1>2. ASSUME NEW c, NEW a
      PROVE  CF!Put(Request(t), c, a) = Put(Request(t), c, a)
  BY <1>1 DEF CF!Put, Put, Writes
<1>3. CF!CarriedOut(CF!Request(t)) <=> CarriedOut(Request(t))
  BY <1>1, <1>2 DEF CF!CarriedOut, CarriedOut, CF!Slot, Slot,
         CF!IpVersion, IpVersion
<1> QED
  BY <1>1, <1>3 DEF CF!LosesWrite, Effect

LEMMA CloudflareMoves ==
    ASSUME NEW t \in Task, CF!Step(t)
    PROVE  Running(t) /\ UNCHANGED <<config, update>> /\ Move(t)
<1>1. CASE CF!fetch_zone_id(t)
  BY <1>1
     DEF CF!fetch_zone_id, CF!Goto, CF!Fail, CF!End, Running, Ended, Move,
         GoOn, Failed, Effect, Goto, Fail, End
<1>2. CASE CF!fetch_dns_records(t)
  BY <1>2
     DEF CF!fetch_dns_records, CF!Goto, CF!Fail, CF!End, CF!Listed, Running,
         Ended, Move, GotList, Failed, Effect, Goto, Fail, End, Listed
<1>3. CASE CF!update_dns_record(t) \/ CF!create_dns_record(t)
  <2>1. step[t] \in {"edit", "create"} /\ CF!Written(t)
    BY <1>3 DEF CF!update_dns_record, CF!create_dns_record
  <2>2. PICK v \in CF!Verdicts :
            /\ CF!AnswersWrite(t, v.claimed)
            /\ IF v.ok THEN CF!Advance(t) ELSE CF!Fail(t)
    BY <2>1 DEF CF!Written
  <2>3. UNCHANGED <<config, update, late>>
    BY <2>1 DEF CF!Written
  <2>4. \/ CarriedOut(Request(t))
        \/ ~v.claimed /\ UNCHANGED records
    BY <2>1, <2>2, CloudflareSame DEF CF!AnswersWrite, Writes
  <2>5. CASE v.ok
    <3>1. Advance(t) /\ CarriedOut(Request(t))
      BY <2>2, <2>4, <2>5, CloudflareVerdicts
         DEF CF!Advance, Advance, CF!End, End, CF!Goto, Goto
    <3> QED
      BY <2>1, <2>3, <3>1 DEF Running, Ended, Move, WroteOne
  <2>6. CASE ~v.ok
    <3>1. Fail(t)
      BY <2>2, <2>6 DEF CF!Fail, Fail, CF!End, End, CF!Goto, Goto
    <3> QED
      BY <2>1, <2>3, <2>4, <3>1
         DEF Running, Ended, Move, Failed, Effect, Writes
  <2> QED
    BY <2>5, <2>6
<1>4. CASE CF!NoAnswer(t)
  <2>1. Running(t) /\ UNCHANGED <<config, update>>
    BY <1>4 DEF CF!NoAnswer, CF!Running, CF!Ended, Running, Ended
  <2>2. Effect(t)
    BY <1>4, CloudflareSame DEF CF!NoAnswer, CF!Writes, Writes, Effect
  <2>3. \/ /\ attempts[t] < config.retries
           /\ attempts' = [attempts EXCEPT ![t] = @ + 1]
           /\ UNCHANGED <<step, todo, id>>
        \/ Fail(t)
    BY <1>4 DEF CF!NoAnswer, CF!Fail, Fail, CF!End, End, CF!Goto, Goto
  <2> QED
    BY <2>1, <2>2, <2>3 DEF Move, Failed, Repeated
<1> QED
  BY <1>1, <1>2, <1>3, <1>4 DEF CF!Step

LEMMA PorkbunSame ==
    ASSUME NEW t \in Task, step[t] \in Writes
    PROVE  /\ PB!CarriedOut(PB!Request(t)) <=> CarriedOut(Request(t))
           /\ PB!LosesWrite(t) => Effect(t)
<1>1. PB!Request(t) = Request(t) /\ Request(t).step \in Writes
  BY DEF PB!Request, Request, PB!NamesIn, NamesIn
<1>2. ASSUME NEW c, NEW a
      PROVE  PB!Put(Request(t), c, a) = Put(Request(t), c, a)
  BY <1>1 DEF PB!Put, Put, Writes
<1>3. PB!CarriedOut(PB!Request(t)) <=> CarriedOut(Request(t))
  BY <1>1, <1>2 DEF PB!CarriedOut, CarriedOut, PB!Slot, Slot,
         PB!IpVersion, IpVersion
<1> QED
  BY <1>1, <1>3 DEF PB!LosesWrite, Effect

LEMMA PorkbunMoves ==
    ASSUME NEW t \in Task, PB!Step(t)
    PROVE  Running(t) /\ UNCHANGED <<config, update>> /\ Move(t)
<1>2. CASE PB!fetch_dns_records(t)
  BY <1>2
     DEF PB!fetch_dns_records, PB!Goto, PB!Fail, PB!End, PB!Listed, Running,
         Ended, Move, GotList, Failed, Effect, Goto, Fail, End, Listed
<1>3. CASE PB!update_dns_record(t) \/ PB!create_dns_record(t)
  <2>1. step[t] \in {"edit", "create"} /\ PB!Written(t)
    BY <1>3 DEF PB!update_dns_record, PB!create_dns_record
  <2>2. PICK v \in PB!Verdicts :
            /\ PB!AnswersWrite(t, v.claimed)
            /\ IF v.ok THEN PB!Advance(t) ELSE PB!Fail(t)
    BY <2>1 DEF PB!Written
  <2>3. UNCHANGED <<config, update, late>>
    BY <2>1 DEF PB!Written
  <2>4. \/ CarriedOut(Request(t))
        \/ ~v.claimed /\ UNCHANGED records
    BY <2>1, <2>2, PorkbunSame DEF PB!AnswersWrite, Writes
  <2>5. CASE v.ok
    <3>1. Advance(t) /\ CarriedOut(Request(t))
      BY <2>2, <2>4, <2>5, PorkbunVerdicts
         DEF PB!Advance, Advance, PB!End, End, PB!Goto, Goto
    <3> QED
      BY <2>1, <2>3, <3>1 DEF Running, Ended, Move, WroteOne
  <2>6. CASE ~v.ok
    <3>1. Fail(t)
      BY <2>2, <2>6 DEF PB!Fail, Fail, PB!End, End, PB!Goto, Goto
    <3> QED
      BY <2>1, <2>3, <2>4, <3>1
         DEF Running, Ended, Move, Failed, Effect, Writes
  <2> QED
    BY <2>5, <2>6
<1>4. CASE PB!NoAnswer(t)
  <2>1. Running(t) /\ UNCHANGED <<config, update>>
    BY <1>4 DEF PB!NoAnswer, PB!Running, PB!Ended, Running, Ended
  <2>2. Effect(t)
    BY <1>4, PorkbunSame DEF PB!NoAnswer, PB!Writes, Writes, Effect
  <2>3. \/ /\ attempts[t] < config.retries
           /\ attempts' = [attempts EXCEPT ![t] = @ + 1]
           /\ UNCHANGED <<step, todo, id>>
        \/ Fail(t)
    BY <1>4 DEF PB!NoAnswer, PB!Fail, Fail, PB!End, End, PB!Goto, Goto
  <2> QED
    BY <2>1, <2>2, <2>3 DEF Move, Failed, Repeated
<1> QED
  BY <1>2, <1>3, <1>4 DEF PB!Step

LEMMA DuckDnsSame ==
    ASSUME NEW t \in Task, step[t] \in Writes
    PROVE  /\ DD!CarriedOut(DD!Request(t)) <=> CarriedOut(Request(t))
           /\ DD!LosesWrite(t) => Effect(t)
<1>1. DD!Request(t) = Request(t) /\ Request(t).step \in Writes
  BY DEF DD!Request, Request, DD!NamesIn, NamesIn
<1>2. ASSUME NEW c, NEW a
      PROVE  DD!Put(Request(t), c, a) = Put(Request(t), c, a)
  BY <1>1 DEF DD!Put, Put, Writes
<1>3. DD!CarriedOut(DD!Request(t)) <=> CarriedOut(Request(t))
  BY <1>1, <1>2
     DEF DD!CarriedOut, CarriedOut, DD!Slot, Slot, DD!IpVersion, IpVersion
<1> QED
  BY <1>1, <1>3 DEF DD!LosesWrite, Effect

LEMMA DuckDnsMoves ==
    ASSUME NEW t \in Task, DD!Step(t)
    PROVE  Running(t) /\ UNCHANGED <<config, update>> /\ Move(t)
<1>1. CASE DD!update_domains(t)
  <2>1. step[t] = "send" /\ UNCHANGED <<config, update, late>>
    BY <1>1 DEF DD!update_domains
  <2>2. PICK v \in DD!Verdicts :
            /\ DD!AnswersWrite(t, v.claimed)
            /\ IF v.ok THEN DD!End(t, "ok") ELSE DD!Fail(t)
    BY <1>1 DEF DD!update_domains
  <2>3. \/ CarriedOut(Request(t))
        \/ ~v.claimed /\ UNCHANGED records
    BY <2>1, <2>2, DuckDnsSame DEF DD!AnswersWrite, Writes
  <2>4. CASE v.ok
    <3>1. End(t, "ok") /\ CarriedOut(Request(t))
      BY <2>2, <2>3, <2>4, DuckDnsVerdicts DEF DD!End, End, DD!Goto, Goto
    <3> QED
      BY <2>1, <3>1 DEF Running, Ended, Move, SentAll
  <2>5. CASE ~v.ok
    <3>1. Fail(t)
      BY <2>2, <2>5 DEF DD!Fail, Fail, DD!End, End, DD!Goto, Goto
    <3> QED
      BY <2>1, <2>3, <3>1 DEF Running, Ended, Move, Failed, Effect, Writes
  <2> QED
    BY <2>4, <2>5
<1>2. CASE DD!NoAnswer(t)
  <2>1. Running(t) /\ UNCHANGED <<config, update>>
    BY <1>2 DEF DD!NoAnswer, DD!Running, DD!Ended, Running, Ended
  <2>2. Effect(t)
    BY <1>2, DuckDnsSame DEF DD!NoAnswer, DD!Writes, Writes, Effect
  <2>3. \/ /\ attempts[t] < config.retries
           /\ attempts' = [attempts EXCEPT ![t] = @ + 1]
           /\ UNCHANGED <<step, todo, id>>
        \/ Fail(t)
    BY <1>2 DEF DD!NoAnswer, DD!Fail, Fail, DD!End, End, DD!Goto, Goto
  <2> QED
    BY <2>1, <2>2, <2>3 DEF Move, Failed, Repeated
<1> QED
  BY <1>1, <1>2 DEF DD!Step

LEMMA StepMoves ==
    ASSUME NEW t \in Task, Step(t)
    PROVE  Running(t) /\ UNCHANGED <<config, update>> /\ Move(t)
  BY CloudflareMoves, PorkbunMoves, DuckDnsMoves DEF Step

-----------------------------------------------------------------------------
(* The work of a task.                                                     *)

LEMMA IterIs ==
    ASSUME NEW u \in IpUpdates \ {NoAddress}
    PROVE  \/ iter(u) = <<"v4">> /\ u["v4"] # None /\ u["v6"] = None
           \/ iter(u) = <<"v6">> /\ u["v4"] = None /\ u["v6"] # None
           \/ iter(u) = <<"v4", "v6">> /\ u["v4"] # None /\ u["v6"] # None
<1>1. u["v4"] # None \/ u["v6"] # None
  BY DEF IpUpdates, NoAddress, IpVersion
<1> DEFINE s4 == <<"v4">>
           s6 == <<"v6">>
<1>2. /\ s4 \in Seq(IpVersion) /\ Len(s4) = 1 /\ s4[1] = "v4"
      /\ s6 \in Seq(IpVersion) /\ Len(s6) = 1 /\ s6[1] = "v6"
  BY DEF IpVersion
<1>3. <<"v4", "v6">> \in Seq(IpVersion) /\ Len(<<"v4", "v6">>) = 2
  BY DEF IpVersion
<1> HIDE DEF s4, s6
<1>4. s4 \o <<>> = s4 /\ <<>> \o s6 = s6
  BY <1>2, ConcatEmptySeq
<1>5. /\ s4 \o s6 \in Seq(IpVersion)
      /\ Len(s4 \o s6) = 2
      /\ \A i \in 1..2 : (s4 \o s6)[i] = IF i <= 1 THEN s4[i] ELSE s6[i - 1]
  BY <1>2, ConcatProperties
<1>6. \A i \in 1..2 : (s4 \o s6)[i] = <<"v4", "v6">>[i]
  BY <1>2, <1>5
<1>7. s4 \o s6 = <<"v4", "v6">>
  BY <1>3, <1>5, <1>6, SeqEqual
<1>8. iter(u) = (IF u["v4"] # None THEN s4 ELSE <<>>)
                \o (IF u["v6"] # None THEN s6 ELSE <<>>)
  BY DEF iter, s4, s6
<1> QED
  BY <1>1, <1>4, <1>7, <1>8 DEF s4, s6

\* A pair of indices is one index, and the other way around.
LEMMA Pairing ==
    ASSUME NEW n \in {1, 2}, NEW l \in Nat
    PROVE  /\ \A i \in 1..(l * n) : /\ ((i - 1) \div n) + 1 \in 1..l
                                   /\ ((i - 1) % n) + 1 \in 1..n
           /\ \A j \in 1..l, k \in 1..n :
                  LET i == (j - 1) * n + k IN
                  /\ i \in 1..(l * n)
                  /\ ((i - 1) \div n) + 1 = j
                  /\ ((i - 1) % n) + 1 = k
<1>1. CASE n = 1
  BY <1>1
<1>2. CASE n = 2
  BY <1>2
<1> QED
  BY <1>1, <1>2

LEMMA WorkIs ==
    ASSUME NEW domains \in Seq(Name), domains # <<>>,
           NEW u \in IpUpdates \ {NoAddress}
    PROVE  /\ Work(domains, u) \in Seq(Slot)
           /\ Work(domains, u) # <<>>
           /\ NamesIn(Work(domains, u)) =
                  {s \in Slot : s[1] \in NamesIn(domains) /\ u[s[2]] # None}
<1> DEFINE vs == iter(u)
           n == Len(vs)
           l == Len(domains)
           w == Work(domains, u)
           first(i) == ((i - 1) \div n) + 1
           second(i) == ((i - 1) % n) + 1
<1>1. l \in Nat \ {0} /\ DOMAIN domains = 1..l
      /\ \A i \in 1..l : domains[i] \in Name
  OBVIOUS
<1>2. /\ n \in {1, 2} /\ DOMAIN vs = 1..n
      /\ {vs[k] : k \in 1..n} = {v \in IpVersion : u[v] # None}
  BY IterIs DEF IpVersion
<1>3. w = [i \in 1..(l * n) |-> <<domains[first(i)], vs[second(i)]>>]
  BY DEF Work
<1>4. \A i \in 1..(l * n) : first(i) \in 1..l /\ second(i) \in 1..n
  BY <1>1, <1>2, Pairing
<1>5. \A j \in 1..l, k \in 1..n :
          \E i \in 1..(l * n) : first(i) = j /\ second(i) = k
  <2>1. n \in {1, 2} /\ l \in Nat
    BY <1>1, <1>2
  <2> HIDE DEF n, l
  <2> SUFFICES ASSUME NEW j \in 1..l, NEW k \in 1..n
               PROVE  \E i \in 1..(l * n) : first(i) = j /\ second(i) = k
    OBVIOUS
  <2> DEFINE i == (j - 1) * n + k
  <2>2. i \in 1..(l * n) /\ first(i) = j /\ second(i) = k
    BY <2>1, Pairing
  <2> QED
    BY <2>2
<1>6. l * n \in Nat /\ l * n >= 1
  BY <1>1, <1>2
<1> HIDE DEF vs, n, l, w, first, second
<1>7. \A i \in 1..(l * n) : w[i] \in Slot
  BY <1>1, <1>2, <1>3, <1>4 DEF Slot
<1>8. w \in Seq(Slot) /\ Len(w) = l * n /\ DOMAIN w = 1..(l * n)
  BY <1>3, <1>6, <1>7
<1>9. \A s \in NamesIn(w) : /\ s \in Slot /\ s[1] \in NamesIn(domains)
                            /\ u[s[2]] # None
  BY <1>1, <1>2, <1>3, <1>4, <1>7, <1>8 DEF NamesIn
<1>10. ASSUME NEW s \in Slot, s[1] \in NamesIn(domains), u[s[2]] # None
       PROVE  s \in NamesIn(w)
  <2>1. PICK j \in 1..l : domains[j] = s[1]
    BY <1>1, <1>10 DEF NamesIn
  <2>2. PICK k \in 1..n : vs[k] = s[2]
    BY <1>2, <1>10 DEF Slot
  <2>3. PICK i \in 1..(l * n) : first(i) = j /\ second(i) = k
    BY <1>5
  <2>4. w[i] = s
    BY <1>3, <2>1, <2>2, <2>3 DEF Slot
  <2> QED
    BY <1>8, <2>3, <2>4 DEF NamesIn
<1>11. NamesIn(w) = {s \in Slot : s[1] \in NamesIn(domains) /\ u[s[2]] # None}
  BY <1>9, <1>10
<1>12. w # <<>>
  BY <1>6, <1>8
<1> QED
  BY <1>8, <1>11, <1>12 DEF w

-----------------------------------------------------------------------------
(* The invariant.                                                          *)

Published(s) == update[s[2]] \in Contents(s)

\* A request of this push for slots its task was asked to write.
Proper(r) ==
    /\ r \in Requests
    /\ r.slots \subseteq Asked(r.task)
    /\ r.step = "send" <=> config.type[r.task] = "duckdns"
    /\ r.step # "send" => \E s \in Asked(r.task) : r.slots = {s}
    /\ r.step = "edit" => \A s \in r.slots : r.id \in DOMAIN records[s]

\* What task t was asked for is published, or still to be done.
TaskInv(t) ==
    /\ Running(t) => /\ step[t] = "send" <=> config.type[t] = "duckdns"
                     /\ NamesIn(todo[t]) \subseteq Asked(t)
                     /\ \A s \in Asked(t) :
                            s \in NamesIn(todo[t]) \/ Published(s)
    /\ step[t] = "send" => NamesIn(todo[t]) = Asked(t)
    /\ step[t] = "ok" => \A s \in Asked(t) : Published(s)

PInv ==
    /\ TypeOK
    /\ \A t \in Task : TaskInv(t)
    /\ \A r \in late : Proper(r) /\ step[r.task] # "idle"
    /\ \A t, o \in Task : step[t] = "idle" => step[o] = "idle"

LEMMA ConfigFacts ==
    ASSUME config \in Configs
    PROVE  /\ \A t \in Task : /\ config.type[t] \in Type
                              /\ config.domains[t] \in Seq(Name)
                              /\ config.domains[t] # <<>>
           /\ config.retries \in Nat
           /\ \A n \in Name : \E t \in Task : n \in NamesIn(config.domains[t])
           /\ \A t, o \in Task, n \in Name :
                  /\ n \in NamesIn(config.domains[t])
                  /\ n \in NamesIn(config.domains[o])
                  => config.type[t] = config.type[o]
<1>1. config \in [type : [Task -> Type],
                 domains : [Task -> Seq(Name) \ {<<>>}],
                 retries : Nat]
  BY RecordAssumption
<1>2. Name = UNION {NamesIn(config.domains[t]) : t \in Task}
  BY RecordAssumption
<1>3. \A t, o \in Task :
          NamesIn(config.domains[t]) \cap NamesIn(config.domains[o]) # {}
              => config.type[t] = config.type[o]
  BY RecordAssumption
<1> QED
  BY <1>1, <1>2, <1>3

LEMMA AskedIs ==
    ASSUME config \in Configs, update \in IpUpdates, NEW t \in Task
    PROVE  /\ Asked(t) \subseteq Slot
           /\ \A s \in Asked(t) : /\ s[1] \in NamesIn(config.domains[t])
                                  /\ update[s[2]] \in Addr
           /\ Asked(t) = {s \in Slot : /\ s[1] \in NamesIn(config.domains[t])
                                       /\ update[s[2]] # None}
<1>1. NamesIn(config.domains[t]) \subseteq Name
  BY ConfigFacts DEF NamesIn
<1>2. \A v \in IpVersion : update[v] # None => update[v] \in Addr
  BY DEF IpUpdates, OptionAddr
<1> QED
  BY <1>1, <1>2 DEF Asked, Slot

\* The contents d of a name that were c before request r gave it address a.
AfterPut(r, c, a, d) ==
    /\ d \in Seq(Addr)
    /\ \E i \in DOMAIN d : d[i] = a
    /\ \A i \in DOMAIN d : d[i] = a \/ \E j \in DOMAIN c : d[i] = c[j]
    /\ r.step = "create" => Len(d) = Len(c) + 1
    /\ r.step = "edit" => Len(d) = Len(c)
    /\ r.step = "send" => Len(d) = 1

LEMMA PutIs ==
    ASSUME NEW c \in Seq(Addr), NEW a \in Addr, NEW r, r.step \in Writes,
           r.step = "edit" => r.id \in DOMAIN c
    PROVE  AfterPut(r, c, a, Put(r, c, a))
<1> DEFINE d == Put(r, c, a)
<1>1. CASE r.step = "create"
  <2>1. d = Append(c, a)
    BY <1>1 DEF Put
  <2>2. /\ Append(c, a) \in Seq(Addr) /\ Len(Append(c, a)) = Len(c) + 1
        /\ Append(c, a)[Len(c) + 1] = a
        /\ \A i \in 1..Len(c) : Append(c, a)[i] = c[i]
    OBVIOUS
  <2> QED
    BY <1>1, <2>1, <2>2 DEF AfterPut
<1>2. CASE r.step = "edit"
  <2>1. d = [c EXCEPT ![r.id] = a]
    BY <1>2 DEF Put
  <2> QED
    BY <1>2, <2>1, ExceptSeq DEF AfterPut
<1>3. CASE r.step = "send"
  <2>1. d = <<a>>
    BY <1>3 DEF Put
  <2> QED
    BY <1>3, <2>1 DEF AfterPut
<1> QED
  BY <1>1, <1>2, <1>3 DEF Writes

\* What the services do of a proper request.
LEMMA CarryOut ==
    ASSUME PInv, NEW r, Proper(r), CarriedOut(r), UNCHANGED <<config, update>>
    PROVE  /\ records' \in [Slot -> Seq(Addr)]
           /\ \A s \in Slot : s \notin r.slots => records'[s] = records[s]
           /\ \A s \in r.slots :
                  /\ update[s[2]] \in Contents(s)'
                  /\ Contents(s)' \subseteq Contents(s) \cup {update[s[2]]}
                  /\ r.step = "create" => Len(records'[s]) = Len(records[s]) + 1
                  /\ r.step = "edit" => Len(records'[s]) = Len(records[s])
                  /\ r.step = "send" => Len(records'[s]) = 1
<1>1. /\ r \in Requests /\ r.slots \subseteq Slot
      /\ r.step \in Writes /\ r.task \in Task
  BY DEF Proper, Requests
<1>2. \A s \in r.slots : update[s[2]] \in Addr
  BY <1>1, AskedIs DEF PInv, TypeOK, Proper
<1>3. \A s \in Slot : records[s] \in Seq(Addr)
  BY DEF PInv, TypeOK
<1>4. \A s \in Slot :
          records'[s] = IF s \in r.slots THEN Put(r, records[s], update[s[2]])
                                         ELSE records[s]
  BY DEF CarriedOut
<1>5. ASSUME NEW s \in r.slots
      PROVE  /\ records'[s] \in Seq(Addr)
             /\ update[s[2]] \in Contents(s)'
             /\ Contents(s)' \subseteq Contents(s) \cup {update[s[2]]}
             /\ r.step = "create" => Len(records'[s]) = Len(records[s]) + 1
             /\ r.step = "edit" => Len(records'[s]) = Len(records[s])
             /\ r.step = "send" => Len(records'[s]) = 1
  <2> DEFINE a == update[s[2]]
             c == records[s]
             d == records'[s]
  <2>1. s \in Slot /\ d = Put(r, c, a) /\ c \in Seq(Addr) /\ a \in Addr
    BY <1>1, <1>2, <1>3, <1>4
  <2>2. r.step = "edit" => r.id \in DOMAIN c
    BY DEF Proper
  <2> HIDE DEF a, c, d
  <2>3. AfterPut(r, c, a, d)
    BY <1>1, <2>1, <2>2, PutIs
  <2>4. /\ Contents(s) = {c[i] : i \in DOMAIN c}
        /\ Contents(s)' = {d[i] : i \in DOMAIN d}
    BY DEF Contents, c, d
  <2>5. a \in Contents(s)' /\ Contents(s)' \subseteq Contents(s) \cup {a}
    BY <2>3, <2>4 DEF AfterPut
  <2> QED
    BY <2>3, <2>5 DEF a, c, d, AfterPut
<1>6. records' \in [Slot -> Seq(Addr)]
  BY <1>3, <1>4, <1>5 DEF CarriedOut
<1> QED
  BY <1>4, <1>5, <1>6

\* The writes of this push, on time or late, undo nothing.
Grown == /\ records' \in [Slot -> Seq(Addr)]
         /\ \A s \in Slot : Published(s) => Published(s)'
         /\ \A t \in Task : config.type[t] # "duckdns" =>
                \A s \in Asked(t) : DOMAIN records[s] \subseteq DOMAIN records'[s]

LEMMA CarriedOutGrows ==
    ASSUME PInv, NEW r, Proper(r), CarriedOut(r), UNCHANGED <<config, update>>
    PROVE  Grown
<1>1. records' \in [Slot -> Seq(Addr)] /\ records \in [Slot -> Seq(Addr)]
  BY CarryOut DEF PInv, TypeOK
<1>2. \A s \in Slot : Published(s) => Published(s)'
  BY CarryOut DEF Published, Contents
<1>3. ASSUME NEW t \in Task, config.type[t] # "duckdns", NEW s \in Asked(t)
      PROVE  DOMAIN records[s] \subseteq DOMAIN records'[s]
  <2>1. s \in Slot /\ s[1] \in NamesIn(config.domains[t]) /\ s[1] \in Name
    BY AskedIs DEF PInv, TypeOK, Slot
  <2>2. CASE s \notin r.slots
    BY <2>1, <2>2, CarryOut
  <2>3. CASE s \in r.slots
    <3>1. r.task \in Task /\ r.step \in Writes /\ s \in Asked(r.task)
      BY <2>3 DEF Proper, Requests
    <3>2. config.type[r.task] = config.type[t]
      BY <2>1, <3>1, AskedIs, ConfigFacts DEF PInv, TypeOK
    <3>3. r.step # "send"
      BY <1>3, <3>2 DEF Proper
    <3>4. \/ Len(records'[s]) = Len(records[s]) + 1
          \/ Len(records'[s]) = Len(records[s])
      BY <2>3, <3>1, <3>3, CarryOut DEF Writes
    <3>5. records[s] \in Seq(Addr) /\ records'[s] \in Seq(Addr)
      BY <1>1, <2>1
    <3> QED
      BY <3>4, <3>5
  <2> QED
    BY <2>2, <2>3
<1> QED
  BY <1>1, <1>2, <1>3 DEF Grown

LEMMA SameGrows ==
    ASSUME PInv, UNCHANGED <<config, update, records>>
    PROVE  Grown
  BY DEF Grown, PInv, TypeOK, Published, Contents

LEMMA HeadIs ==
    ASSUME PInv, NEW t \in Task, Running(t)
    PROVE  /\ todo[t] \in Seq(Slot) /\ todo[t] # <<>>
           /\ Head(todo[t]) \in NamesIn(todo[t])
           /\ Head(todo[t]) \in Asked(t)
           /\ Head(todo[t]) \in Slot
<1>1. todo[t] \in Seq(Slot) /\ todo[t] # <<>>
  BY DEF PInv, TypeOK
<1>2. Head(todo[t]) = todo[t][1] /\ 1 \in DOMAIN todo[t]
  BY <1>1
<1> QED
  BY <1>1, <1>2 DEF PInv, TaskInv, NamesIn

LEMMA RequestIsProper ==
    ASSUME PInv, NEW t \in Task, step[t] \in Writes
    PROVE  Proper(Request(t)) /\ Request(t).task = t
<1>1. Running(t)
  BY DEF Running, Ended, Writes
<1>2. Head(todo[t]) \in Asked(t) /\ Asked(t) \subseteq Slot
      /\ NamesIn(todo[t]) \subseteq Asked(t)
  BY <1>1, HeadIs, AskedIs DEF PInv, TypeOK, TaskInv
<1>3. id[t] \in Nat /\ attempts[t] \in Nat
  BY ConfigFacts DEF PInv, TypeOK
<1> DEFINE r == Request(t)
<1>4. /\ r.task = t /\ r.step = step[t] /\ r.id = id[t]
      /\ r.slots = IF step[t] = "send" THEN NamesIn(todo[t])
                                       ELSE {Head(todo[t])}
  BY DEF Request
<1>5. r \in Requests
  BY <1>2, <1>3 DEF Request, Requests
<1>6. step[t] = "send" <=> config.type[t] = "duckdns"
  BY <1>1 DEF PInv, TaskInv
<1>7. step[t] = "edit" => id[t] \in DOMAIN records[Head(todo[t])]
  BY DEF PInv, TypeOK
<1> HIDE DEF r
<1>8. Proper(r)
  BY <1>2, <1>4, <1>5, <1>6, <1>7 DEF Proper
<1> QED
  BY <1>4, <1>8 DEF r

LEMMA EffectGrows ==
    ASSUME PInv, NEW t \in Task, Effect(t), UNCHANGED <<config, update>>
    PROVE  /\ Grown
           /\ late' \subseteq late \cup {Request(t)}
           /\ late' = late \/ step[t] \in Writes
  BY RequestIsProper, CarriedOutGrows, SameGrows DEF Effect

-----------------------------------------------------------------------------
(* The invariant, for each kind of step.                                   *)

LEMMA PushInit == Init => PInv
<1> SUFFICES ASSUME Init
             PROVE  PInv
  OBVIOUS
<1>1. NoAddress \in IpUpdates
  BY DEF NoAddress, IpUpdates, OptionAddr
<1>2. \A t \in Task : ~Running(t) /\ step[t] = "idle"
  BY DEF Init, Running, Ended
<1>3. TypeOK
  BY <1>1, <1>2, ConfigFacts, RecordAssumption DEF Init, TypeOK, Ended
<1> QED
  BY <1>2, <1>3 DEF Init, PInv, TaskInv

LEMMA CallStep == ASSUME PInv, NEW u \in Updates, Call(u)  PROVE PInv'
<1>1. u \in IpUpdates \ {NoAddress}
  BY RecordAssumption
<1>2. ASSUME NEW t \in Task
      PROVE  /\ step'[t] = FirstStep(config.type[t])
             /\ step'[t] \in {"zone", "list", "send"}
             /\ step'[t] = "send" <=> config.type[t] = "duckdns"
             /\ todo'[t] \in Seq(Slot) /\ todo'[t] # <<>>
             /\ NamesIn(todo'[t]) = Asked(t)'
  <2>1. /\ config \in Configs /\ config' = config /\ update' = u
        /\ step'[t] = FirstStep(config.type[t])
        /\ todo'[t] = Work(config.domains[t], u)
    BY DEF Call, PInv, TypeOK
  <2>2. config.type[t] \in Type /\ config.domains[t] \in Seq(Name)
        /\ config.domains[t] # <<>>
    BY <2>1, ConfigFacts
  <2>3. step'[t] \in {"zone", "list", "send"}
        /\ (step'[t] = "send" <=> config.type[t] = "duckdns")
    BY <2>1, <2>2 DEF FirstStep, Type
  <2>4. Asked(t)' = {s \in Slot : /\ s[1] \in NamesIn(config.domains[t])
                                 /\ u[s[2]] # None}
    BY <2>1, <2>2 DEF Asked, Slot, NamesIn
  <2> QED
    BY <1>1, <2>1, <2>2, <2>3, <2>4, WorkIs
<1>3. TypeOK'
  <2>1. step' \in [Task -> Ended \cup Writes \cup {"zone", "list"}]
    BY <1>2 DEF Call, Writes
  <2>2. todo' \in [Task -> Seq(Slot)]
    BY <1>2 DEF Call
  <2>3. attempts' \in [Task -> 0..config.retries] /\ id' \in [Task -> Nat]
    BY ConfigFacts DEF Call, PInv, TypeOK
  <2>4. \A t \in Task : todo'[t] # <<>> /\ step'[t] # "edit"
    BY <1>2
  <2>5. UNCHANGED <<config, records, late>> /\ update' = u
    BY DEF Call
  <2> QED
    BY <1>1, <2>1, <2>2, <2>3, <2>4, <2>5 DEF PInv, TypeOK
<1>4. \A t \in Task : TaskInv(t)'
  BY <1>2 DEF Call, TaskInv, NamesIn
<1> QED
  BY <1>2, <1>3, <1>4 DEF Call, PInv

\* A task whose turn it is not keeps what it knows.
LEMMA OthersKeep ==
    ASSUME PInv, Grown, UNCHANGED <<config, update>>, NEW o \in Task,
           step'[o] = step[o], todo'[o] = todo[o], id'[o] = id[o]
    PROVE  /\ TaskInv(o)'
           /\ Running(o)' => todo'[o] # <<>>
           /\ step'[o] = "edit" => id'[o] \in DOMAIN records'[Head(todo'[o])]
<1>1. Asked(o)' = Asked(o) /\ Asked(o) \subseteq Slot /\ Running(o)' = Running(o)
      /\ NamesIn(todo[o])' = NamesIn(todo[o])
  BY AskedIs DEF PInv, TypeOK, Asked, Running, NamesIn
<1>2. \A s \in Asked(o) : Published(s) => Published(s)'
  BY <1>1 DEF Grown
<1>3. TaskInv(o)'
  BY <1>1, <1>2 DEF PInv, TaskInv
<1>4. ASSUME step[o] = "edit"
      PROVE  id[o] \in DOMAIN records'[Head(todo[o])]
  <2>1. Running(o)
    BY <1>4 DEF Running, Ended
  <2>2. Head(todo[o]) \in Asked(o) /\ config.type[o] # "duckdns"
    BY <1>4, <2>1, HeadIs DEF PInv, TaskInv
  <2>3. id[o] \in DOMAIN records[Head(todo[o])]
    BY <1>4 DEF PInv, TypeOK
  <2> QED
    BY <2>2, <2>3 DEF Grown
<1> QED
  BY <1>1, <1>3, <1>4 DEF PInv, TypeOK

LEMMA ProperStays ==
    ASSUME PInv, Grown, UNCHANGED <<config, update>>, NEW r, Proper(r)
    PROVE  Proper(r)'
<1>1. r \in Requests /\ Requests' = Requests /\ r.task \in Task
  BY DEF Proper, Requests
<1>2. Asked(r.task)' = Asked(r.task)
  BY DEF Asked
<1>3. ASSUME r.step = "edit", NEW s \in r.slots
      PROVE  r.id \in DOMAIN records'[s]
  <2>1. s \in Asked(r.task) /\ config.type[r.task] # "duckdns"
    BY <1>3 DEF Proper
  <2> QED
    BY <1>1, <1>3, <2>1 DEF Proper, Grown
<1> QED
  BY <1>1, <1>2, <1>3 DEF Proper

\* A step of task t, whose own obligations are met, keeps the invariant.
LEMMA MoveKeeps ==
    ASSUME PInv, NEW t \in Task, Running(t), Grown,
           UNCHANGED <<config, update>>,
           late' \subseteq late \cup {Request(t)},
           late' = late \/ step[t] \in Writes,
           step' \in [Task -> Ended \cup Writes \cup {"zone", "list"}],
           todo' \in [Task -> Seq(Slot)],
           id' \in [Task -> Nat],
           attempts' \in [Task -> 0..config.retries],
           \A o \in Task \ {t} : /\ step'[o] = step[o]
                                 /\ todo'[o] = todo[o] /\ id'[o] = id[o],
           step'[t] # "idle",
           TaskInv(t)',
           Running(t)' => todo'[t] # <<>>,
           step'[t] = "edit" => id'[t] \in DOMAIN records'[Head(todo'[t])]
    PROVE  PInv'
<1>1. \A r \in late' : Proper(r)' /\ r.task \in Task /\ step'[r.task] # "idle"
  <2> SUFFICES ASSUME NEW r \in late'
               PROVE  Proper(r)' /\ r.task \in Task /\ step'[r.task] # "idle"
    OBVIOUS
  <2>1. Proper(r) /\ step[r.task] # "idle"
    BY RequestIsProper DEF PInv, Running, Ended
  <2>2. r.task \in Task
    BY <2>1 DEF Proper, Requests
  <2> QED
    BY <2>1, <2>2, ProperStays
<1>2. \A o \in Task : /\ TaskInv(o)'
                      /\ Running(o)' => todo'[o] # <<>>
                      /\ step'[o] = "edit" =>
                             id'[o] \in DOMAIN records'[Head(todo'[o])]
  BY OthersKeep
<1>3. late' \subseteq Requests
  BY <1>1 DEF Proper, Requests
<1>4. TypeOK'
  BY <1>2, <1>3 DEF PInv, TypeOK, Grown
<1>5. \A o \in Task : step'[o] # "idle"
  BY DEF PInv, Running, Ended
<1> QED
  BY <1>1, <1>2, <1>4, <1>5 DEF PInv

LEMMA GotoIs ==
    ASSUME PInv, NEW t \in Task,
           NEW s \in Ended \cup Writes \cup {"zone", "list"}, Goto(t, s)
    PROVE  /\ step' \in [Task -> Ended \cup Writes \cup {"zone", "list"}]
           /\ attempts' \in [Task -> 0..config.retries]
           /\ step'[t] = s
           /\ \A o \in Task \ {t} : step'[o] = step[o]
  BY ConfigFacts DEF Goto, PInv, TypeOK

LEMMA EndKeeps ==
    ASSUME PInv, NEW t \in Task, Running(t), Grown,
           UNCHANGED <<config, update>>,
           late' \subseteq late \cup {Request(t)},
           late' = late \/ step[t] \in Writes,
           NEW s \in {"ok", "err"}, End(t, s),
           s = "ok" => \A q \in Asked(t) : Published(q)'
    PROVE  PInv'
<1>1. s \in Ended
  BY DEF Ended
<1>2. /\ step' \in [Task -> Ended \cup Writes \cup {"zone", "list"}]
      /\ attempts' \in [Task -> 0..config.retries]
      /\ step'[t] = s
      /\ \A o \in Task \ {t} : step'[o] = step[o]
  BY <1>1, GotoIs DEF End
<1>3. todo' \in [Task -> Seq(Slot)]
  BY DEF End, PInv, TypeOK
<1>4. id' \in [Task -> Nat]
  BY DEF End, PInv, TypeOK
<1>5. \A o \in Task \ {t} : todo'[o] = todo[o] /\ id'[o] = id[o]
  BY DEF End, PInv, TypeOK
<1>6. ~Running(t)'
  BY <1>1, <1>2 DEF Running
<1>7. Asked(t)' = Asked(t)
  BY DEF Asked
<1>8. TaskInv(t)'
  BY <1>2, <1>6, <1>7 DEF TaskInv
<1>9. step'[t] # "idle" /\ step'[t] # "edit"
  BY <1>2
<1> QED
  BY <1>2, <1>3, <1>4, <1>5, <1>6, <1>8, <1>9, MoveKeeps

LEMMA GoOnKeeps ==
    ASSUME PInv, NEW t \in Task, Running(t), UNCHANGED <<config, update>>,
           GoOn(t)
    PROVE  PInv'
<1>1. /\ step' \in [Task -> Ended \cup Writes \cup {"zone", "list"}]
      /\ attempts' \in [Task -> 0..config.retries]
      /\ step'[t] = "list"
      /\ \A o \in Task \ {t} : step'[o] = step[o]
  BY GotoIs DEF GoOn
<1>2. UNCHANGED <<todo, id, records, late>> /\ step[t] = "zone"
  BY DEF GoOn
<1>3. Grown
  BY <1>2, SameGrows
<1>4. todo[t] # <<>>
  BY DEF PInv, TypeOK
<1>5. Asked(t)' = Asked(t) /\ \A s \in Asked(t) : Published(s) = Published(s)'
  BY <1>2 DEF Asked, Published, Contents
<1>6. TaskInv(t)'
  BY <1>1, <1>2, <1>5 DEF PInv, TaskInv, NamesIn
<1> QED
  BY <1>1, <1>2, <1>3, <1>4, <1>6, MoveKeeps DEF PInv, TypeOK

LEMMA GotListKeeps ==
    ASSUME PInv, NEW t \in Task, Running(t), UNCHANGED <<config, update>>,
           GotList(t)
    PROVE  PInv'
<1> DEFINE q == Head(todo[t])
           found == DOMAIN records[q]
<1>1. /\ UNCHANGED <<todo, records, late>> /\ step[t] = "list"
      /\ \/ Goto(t, "create") /\ UNCHANGED id
         \/ Goto(t, "edit") /\ \E i \in found : id' = [id EXCEPT ![t] = i]
  BY DEF GotList, Listed
<1>2. /\ step' \in [Task -> Ended \cup Writes \cup {"zone", "list"}]
      /\ attempts' \in [Task -> 0..config.retries]
      /\ step'[t] \in {"create", "edit"}
      /\ step'[t] = "create" => UNCHANGED id
      /\ step'[t] = "edit" => \E i \in found : id' = [id EXCEPT ![t] = i]
      /\ \A o \in Task \ {t} : step'[o] = step[o]
  <2>1. {"create", "edit"} \subseteq Writes
    BY DEF Writes
  <2> QED
    BY <1>1, <2>1, GotoIs
<1>3. found \subseteq Nat /\ id \in [Task -> Nat]
  BY HeadIs DEF PInv, TypeOK
<1>4. /\ id' \in [Task -> Nat]
      /\ \A o \in Task \ {t} : id'[o] = id[o]
      /\ step'[t] = "edit" => id'[t] \in found
  BY <1>2, <1>3
<1>5. Grown
  BY <1>1, SameGrows
<1>6. todo[t] # <<>>
  BY DEF PInv, TypeOK
<1>7. Asked(t)' = Asked(t) /\ \A s \in Asked(t) : Published(s) = Published(s)'
  BY <1>1 DEF Asked, Published, Contents
<1>8. TaskInv(t)'
  BY <1>1, <1>2, <1>7 DEF PInv, TaskInv, NamesIn
<1>9. todo' \in [Task -> Seq(Slot)]
  BY <1>1 DEF PInv, TypeOK
<1> QED
  BY <1>1, <1>2, <1>4, <1>5, <1>6, <1>8, <1>9, MoveKeeps

\* What remains to be done when the first of it is.
LEMMA TailNames ==
    ASSUME NEW w \in Seq(Slot), w # <<>>
    PROVE  /\ Len(w) = 1 => NamesIn(w) = {Head(w)}
           /\ Len(w) # 1 => /\ Tail(w) \in Seq(Slot) /\ Tail(w) # <<>>
                            /\ NamesIn(Tail(w)) \subseteq NamesIn(w)
                            /\ NamesIn(w) \subseteq NamesIn(Tail(w)) \cup {Head(w)}
<1>1. Len(w) \in Nat \ {0} /\ DOMAIN w = 1..Len(w) /\ Head(w) = w[1]
  OBVIOUS
<1>2. /\ Tail(w) \in Seq(Slot) /\ Len(Tail(w)) = Len(w) - 1
      /\ \A i \in 1..Len(Tail(w)) : Tail(w)[i] = w[i + 1]
  BY HeadTailProperties
<1>3. DOMAIN Tail(w) = 1..(Len(w) - 1)
  BY <1>2
<1>4. CASE Len(w) = 1
  BY <1>1, <1>4 DEF NamesIn
<1>5. CASE Len(w) # 1
  <2>1. Tail(w) # <<>>
    <3>1. Len(Tail(w)) # 0
      BY <1>1, <1>2, <1>5
    <3> QED
      BY <1>2, <3>1, EmptySeq
  <2>2. ASSUME NEW i \in DOMAIN Tail(w)
        PROVE  Tail(w)[i] \in NamesIn(w)
    BY <1>1, <1>2, <1>3 DEF NamesIn
  <2>3. ASSUME NEW i \in DOMAIN w
        PROVE  w[i] \in NamesIn(Tail(w)) \cup {Head(w)}
    <3>1. CASE i = 1
      BY <1>1, <3>1
    <3>2. CASE i # 1
      <4>1. i - 1 \in DOMAIN Tail(w) /\ Tail(w)[i - 1] = w[i]
        BY <1>1, <1>2, <1>3, <3>2
      <4> QED
        BY <4>1 DEF NamesIn
    <3> QED
      BY <3>1, <3>2
  <2> QED
    BY <1>2, <1>5, <2>1, <2>2, <2>3 DEF NamesIn
<1> QED
  BY <1>4, <1>5

LEMMA WroteOneKeeps ==
    ASSUME PInv, NEW t \in Task, Running(t), UNCHANGED <<config, update>>,
           WroteOne(t)
    PROVE  PInv'
<1>0. PICK q \in Slot : q = Head(todo[t])
  BY HeadIs
<1>1. /\ step[t] \in {"edit", "create"} /\ CarriedOut(Request(t))
      /\ UNCHANGED late /\ Advance(t)
  BY DEF WroteOne
<1>2. Proper(Request(t)) /\ q \in Request(t).slots
  BY <1>0, <1>1, RequestIsProper DEF Writes, Request
<1>3. Grown
  BY <1>1, <1>2, CarriedOutGrows
<1>4. Published(q)'
  BY <1>1, <1>2, CarryOut DEF Published
<1>5. todo[t] \in Seq(Slot) /\ todo[t] # <<>>
  BY HeadIs
<1>6. Asked(t)' = Asked(t) /\ Asked(t) \subseteq Slot
  BY AskedIs DEF Asked, PInv, TypeOK
<1>7. \A s \in Asked(t) : s \in NamesIn(todo[t]) \/ Published(s)'
  BY <1>3, <1>6 DEF PInv, TaskInv, Grown
<1>8. CASE Len(todo[t]) = 1
  <2>1. End(t, "ok")
    BY <1>1, <1>8 DEF Advance
  <2>2. \A s \in Asked(t) : Published(s)'
    BY <1>0, <1>4, <1>5, <1>7, <1>8, TailNames
  <2> QED
    BY <1>1, <1>3, <2>1, <2>2, EndKeeps
<1>9. CASE Len(todo[t]) # 1
  <2>1. /\ Goto(t, "list")
        /\ todo' = [todo EXCEPT ![t] = Tail(@)]
        /\ id' = [id EXCEPT ![t] = 0]
    BY <1>1, <1>9 DEF Advance
  <2>2. /\ step' \in [Task -> Ended \cup Writes \cup {"zone", "list"}]
        /\ attempts' \in [Task -> 0..config.retries]
        /\ step'[t] = "list"
        /\ \A o \in Task \ {t} : step'[o] = step[o]
    BY <2>1, GotoIs
  <2>3. Tail(todo[t]) \in Seq(Slot) /\ Tail(todo[t]) # <<>>
    BY <1>5, <1>9, TailNames
  <2>4. /\ todo' \in [Task -> Seq(Slot)] /\ todo'[t] = Tail(todo[t])
        /\ \A o \in Task \ {t} : todo'[o] = todo[o]
    BY <2>1, <2>3 DEF PInv, TypeOK
  <2>5. id' \in [Task -> Nat] /\ \A o \in Task \ {t} : id'[o] = id[o]
    BY <2>1 DEF PInv, TypeOK
  <2>6. \A s \in Asked(t) : s \in NamesIn(todo'[t]) \/ Published(s)'
    BY <1>0, <1>4, <1>5, <1>7, <1>9, <2>4, TailNames
  <2>7. NamesIn(todo'[t]) \subseteq Asked(t)
    BY <1>5, <1>9, <2>4, TailNames DEF PInv, TaskInv
  <2>8. config.type[t] # "duckdns"
    BY <1>1 DEF PInv, TaskInv
  <2>9. TaskInv(t)'
    BY <1>6, <2>2, <2>6, <2>7, <2>8 DEF TaskInv, NamesIn
  <2> QED
    BY <1>1, <1>3, <2>2, <2>3, <2>4, <2>5, <2>9, MoveKeeps
<1> QED
  BY <1>8, <1>9

LEMMA SentAllKeeps ==
    ASSUME PInv, NEW t \in Task, Running(t), UNCHANGED <<config, update>>,
           SentAll(t)
    PROVE  PInv'
<1>1. /\ step[t] = "send" /\ CarriedOut(Request(t))
      /\ End(t, "ok") /\ UNCHANGED late
  BY DEF SentAll
<1>2. Proper(Request(t)) /\ Request(t).slots = NamesIn(todo[t])
  BY <1>1, RequestIsProper DEF Writes, Request
<1>3. Grown
  BY <1>1, <1>2, CarriedOutGrows
<1>4. \A s \in Asked(t) : Published(s)'
  BY <1>1, <1>2, CarryOut DEF Published, PInv, TaskInv
<1> QED
  BY <1>1, <1>3, <1>4, EndKeeps

LEMMA FailedKeeps ==
    ASSUME PInv, NEW t \in Task, Running(t), UNCHANGED <<config, update>>,
           Failed(t)
    PROVE  PInv'
  BY EffectGrows, EndKeeps DEF Failed, Fail

LEMMA RepeatedKeeps ==
    ASSUME PInv, NEW t \in Task, Running(t), UNCHANGED <<config, update>>,
           Repeated(t)
    PROVE  PInv'
<1>1. /\ Grown
      /\ late' \subseteq late \cup {Request(t)}
      /\ late' = late \/ step[t] \in Writes
  BY EffectGrows DEF Repeated
<1>2. UNCHANGED <<step, todo, id>>
  BY DEF Repeated
<1>3. attempts' \in [Task -> 0..config.retries]
  BY ConfigFacts DEF Repeated, PInv, TypeOK
<1>4. /\ TaskInv(t)'
      /\ Running(t)' => todo'[t] # <<>>
      /\ step'[t] = "edit" => id'[t] \in DOMAIN records'[Head(todo'[t])]
  BY <1>1, <1>2, OthersKeep
<1> QED
  BY <1>1, <1>2, <1>3, <1>4, MoveKeeps DEF PInv, TypeOK, Running, Ended

LEMMA LateKeeps == ASSUME PInv, CarryOutLate  PROVE PInv'
<1>1. PICK r \in late : /\ late' = late \ {r}
                        /\ CarriedOut(r) \/ UNCHANGED records
                        /\ UNCHANGED <<config, update, local>>
  BY DEF CarryOutLate
<1>2. Proper(r) /\ UNCHANGED <<config, update, step, todo, id, attempts>>
  BY <1>1 DEF PInv, local
<1>3. Grown
  BY <1>1, <1>2, CarriedOutGrows, SameGrows
<1>4. \A o \in Task : /\ TaskInv(o)'
                      /\ Running(o)' => todo'[o] # <<>>
                      /\ step'[o] = "edit" =>
                             id'[o] \in DOMAIN records'[Head(todo'[o])]
  BY <1>2, <1>3, OthersKeep
<1>5. \A q \in late' : Proper(q)' /\ step'[q.task] # "idle"
  BY <1>1, <1>2, <1>3, ProperStays DEF PInv
<1>6. TypeOK'
  BY <1>1, <1>2, <1>3, <1>4 DEF PInv, TypeOK, Grown
<1> QED
  BY <1>2, <1>4, <1>5, <1>6 DEF PInv

LEMMA PushStutters == ASSUME PInv, UNCHANGED vars  PROVE PInv'
<1>1. UNCHANGED <<config, update, step, todo, id, attempts, records, late>>
  BY DEF vars, local
<1>2. Grown
  BY <1>1, SameGrows
<1>3. \A o \in Task : TaskInv(o)'
  BY <1>1, <1>2, OthersKeep
<1>4. \A q \in late' : Proper(q)' /\ step'[q.task] # "idle"
  BY <1>1, <1>2, ProperStays DEF PInv
<1>5. TypeOK'
  BY <1>1 DEF PInv, TypeOK, Running
<1> QED
  BY <1>1, <1>3, <1>4, <1>5 DEF PInv

LEMMA MovesKeep ==
    ASSUME PInv, NEW t \in Task, Step(t)
    PROVE  PInv'
<1>1. Running(t) /\ UNCHANGED <<config, update>> /\ Move(t)
  BY StepMoves
<1> QED
  BY <1>1, GoOnKeeps, GotListKeeps, WroteOneKeeps, SentAllKeeps, FailedKeeps,
     RepeatedKeeps DEF Move

LEMMA PushNext == PInv /\ [Next]_vars => PInv'
  BY CallStep, MovesKeep, LateKeeps, PushStutters DEF Next

THEOREM PushInvariant == Spec => []PInv
  BY PushInit, PushNext, PTL DEF Spec

\* Whatever the services answer and whenever, the tasks stay within their
\* types, and a record is only changed where one was found.
THEOREM PushTypeCorrect == Spec => []TypeOK
<1>1. PInv => TypeOK
  BY DEF PInv
<1> QED
  BY <1>1, PushInvariant, PTL

\* An Ok of update() is worth its word: for any number of entries, of any
\* types and over the same names, with any number of repeated requests, lost
\* answers and late writes, the names it covers have the address it sent.
THEOREM OkIsPublished == Spec => []OkMeansPublished
<1>1. PInv => OkMeansPublished
  BY DEF PInv, TaskInv, Published, OkMeansPublished
<1> QED
  BY <1>1, PushInvariant, PTL


-----------------------------------------------------------------------------
(* The push implements UpdateTask.                                         *)

StatusFacts ==
    /\ (Status = "running") <=> \E t \in Task : Running(t)
    /\ (Status = "idle") <=> \A t \in Task : step[t] = "idle"
    /\ Status = "ok" => \A t \in Task : step[t] = "ok"
    /\ Status \in {"running", "err", "ok", "idle"}

LEMMA StatusIs == PInv => StatusFacts
<1> SUFFICES ASSUME PInv
             PROVE  StatusFacts
  OBVIOUS
<1>1. \A t \in Task : ~Running(t) => step[t] \in {"idle", "ok", "err"}
  BY DEF Running, Ended
<1>2. \A t \in Task : Running(t) => step[t] # "idle"
  BY DEF Running, Ended
<1>3. Task # {}
  BY RecordAssumption
<1>4. \A t, o \in Task : step[t] = "idle" => step[o] = "idle"
  BY DEF PInv
<1>5. CASE \E t \in Task : Running(t)
  BY <1>2, <1>5 DEF Status, StatusFacts
<1>6. CASE ~(\E t \in Task : Running(t)) /\ \E t \in Task : step[t] = "err"
  BY <1>6 DEF Status, StatusFacts
<1>7. CASE /\ \A t \in Task : ~Running(t)
           /\ \A t \in Task : step[t] # "err"
  BY <1>1, <1>3, <1>4, <1>7 DEF Status, StatusFacts
<1> QED
  BY <1>5, <1>6, <1>7

\* Read after a step.
LEMMA StatusPrimed == PInv' => StatusFacts'
  BY StatusIs, PTL

LEMMA ContentsType ==
    ASSUME PInv, NEW s \in Slot
    PROVE  Contents(s) \subseteq Addr
<1>1. records[s] \in Seq(Addr)
  BY DEF PInv, TypeOK
<1> QED
  BY <1>1 DEF Contents

LEMMA ContentsStay ==
    ASSUME UNCHANGED records, NEW s \in Slot
    PROVE  Contents(s)' = Contents(s)
  BY DEF Contents

\* Requests change only what UpdateTask lets them change.
LEMMA Publishes ==
    ASSUME PInv, PInv', UNCHANGED <<config, update>>, Status # "idle",
           UNCHANGED records \/ \E r : Proper(r) /\ CarriedOut(r)
    PROVE  Abstract!Publish
<1> DEFINE published == [s \in Slot |-> Contents(s)]
<1>1. \A s \in Slot : Contents(s)' \subseteq Addr
  <2>1. \A s \in Slot : records'[s] \in Seq(Addr)
    BY DEF PInv, TypeOK
  <2> QED
    BY <2>1 DEF Contents
<1>2. published' \in [Slot -> SUBSET Addr]
  BY <1>1 DEF Slot
<1>3. ASSUME NEW s \in Slot, Contents(s)' # Contents(s)
      PROVE  /\ update[s[2]] # None
             /\ update[s[2]] \in Contents(s)'
             /\ Contents(s)' \subseteq Contents(s) \cup {update[s[2]]}
  <2>1. PICK r : Proper(r) /\ CarriedOut(r)
    BY <1>3, ContentsStay
  <2>2. s \in r.slots
    BY <1>3, <2>1, CarryOut DEF Contents
  <2>3. s \in Asked(r.task)
    BY <2>1, <2>2 DEF Proper
  <2> QED
    BY <2>1, <2>2, <2>3, CarryOut DEF Asked
<1>4. \A s \in Slot : Abstract!Given(s) <=>
          /\ s \in Slot /\ update[s[2]] # None
          /\ update[s[2]] \in published'[s]
          /\ published'[s] \subseteq published[s] \cup {update[s[2]]}
  BY DEF Abstract!Given, Abstract!Asked
<1>5. \A s \in Slot : published[s] = Contents(s) /\ published'[s] = Contents(s)'
  BY DEF Slot
<1> QED
  BY <1>2, <1>3, <1>4, <1>5 DEF Abstract!Publish

LEMMA TasksImplement ==
    ASSUME PInv, PInv', NEW t \in Task, Step(t)
    PROVE  Abstract!Next
<1>1. Running(t) /\ UNCHANGED <<config, update>> /\ Move(t)
  BY StepMoves
<1>2. Status = "running"
  BY <1>1, StatusIs DEF StatusFacts
<1>3. UNCHANGED records \/ \E r : Proper(r) /\ CarriedOut(r)
  BY <1>1, RequestIsProper
     DEF Move, GoOn, GotList, WroteOne, SentAll, Failed, Repeated, Effect, Writes
<1>4. Abstract!Publish
  BY <1>1, <1>2, <1>3, Publishes
<1>5. step'[t] # "idle"
  BY <1>1
     DEF Move, GoOn, GotList, WroteOne, SentAll, Failed, Repeated, Listed,
         Advance, End, Fail, Goto, PInv, TypeOK, Running, Ended
<1>6. /\ Status' \in {"running", "err", "ok"}
      /\ Status' = "ok" => \A o \in Task : step'[o] = "ok"
  BY <1>5, StatusPrimed DEF StatusFacts
<1>7. CASE Status' = "running"
  BY <1>2, <1>4, <1>7 DEF Abstract!Next, Abstract!Work
<1>8. CASE Status' = "err"
  BY <1>2, <1>4, <1>8 DEF Abstract!Next, Abstract!Fail
<1>9. CASE Status' = "ok"
  <2>1. ASSUME NEW s \in Slot, update[s[2]] # None
        PROVE  update[s[2]] \in Contents(s)'
    <3>1. PICK o \in Task : s[1] \in NamesIn(config.domains[o])
      BY ConfigFacts DEF PInv, TypeOK, Slot
    <3>2. s \in Asked(o)'
      BY <1>1, <2>1, <3>1 DEF Asked, Slot
    <3>3. Published(s)'
      BY <1>6, <1>9, <3>2 DEF PInv, TaskInv
    <3> QED
      BY <1>1, <3>3 DEF Published
  <2>2. \A s \in Abstract!Asked :
            update[s[2]] \in ([q \in Slot |-> Contents(q)])'[s]
    BY <2>1 DEF Abstract!Asked
  <2> QED
    BY <1>2, <1>4, <1>9, <2>2 DEF Abstract!Next, Abstract!Succeed
<1> QED
  BY <1>6, <1>7, <1>8, <1>9

LEMMA LateImplements ==
    ASSUME PInv, PInv', CarryOutLate
    PROVE  Abstract!Next
<1>1. PICK r \in late : /\ CarriedOut(r) \/ UNCHANGED records
                        /\ UNCHANGED <<config, update, local>>
  BY DEF CarryOutLate
<1>2. Proper(r) /\ step[r.task] # "idle" /\ r.task \in Task
  BY DEF PInv, Proper, Requests
<1>3. Status # "idle"
  BY <1>2, StatusIs DEF StatusFacts
<1>4. Status' = Status
  BY <1>1 DEF Status, Running, local
<1>5. Abstract!Publish
  BY <1>1, <1>2, <1>3, Publishes
<1> QED
  BY <1>4, <1>5 DEF Abstract!Next, Abstract!Work

LEMMA CallImplements ==
    ASSUME PInv, PInv', NEW u \in Updates, Call(u)
    PROVE  Abstract!Next
<1>1. u \in IpUpdates \ {NoAddress} /\ Task # {}
  BY RecordAssumption
<1>2. Status # "running"
  BY StatusIs DEF StatusFacts, Call
<1>3. \A t \in Task : Running(t)'
  <2>1. \A t \in Task : config.type[t] \in Type
    BY ConfigFacts DEF PInv, TypeOK
  <2> QED
    BY <2>1 DEF Call, Running, Ended, FirstStep, Type
<1>4. Status' = "running"
  BY <1>1, <1>3 DEF Status
<1>5. update' = u /\ UNCHANGED records
  BY DEF Call
<1>6. UNCHANGED [s \in Slot |-> Contents(s)]
  BY <1>5 DEF Contents, Slot
<1>7. u \in Abstract!IpUpdates /\ ~Abstract!is_empty(u)
  BY <1>1 DEF Abstract!IpUpdates, IpUpdates, Abstract!is_empty,
         Abstract!NoAddress, NoAddress, Abstract!IpVersion, IpVersion,
         Abstract!OptionAddr, OptionAddr
<1>8. Abstract!Call(u)
  BY <1>2, <1>4, <1>5, <1>6, <1>7 DEF Abstract!Call
<1> QED
  BY <1>7, <1>8 DEF Abstract!Next

LEMMA AbstractNext ==
    PInv /\ PInv' /\ [Next]_vars => [Abstract!Next]_(Abstract!vars)
<1> SUFFICES ASSUME PInv, PInv', [Next]_vars
             PROVE  [Abstract!Next]_(Abstract!vars)
  OBVIOUS
<1>1. CASE Next
  BY <1>1, CallImplements, TasksImplement, LateImplements DEF Next
<1>2. CASE UNCHANGED vars
  BY <1>2 DEF vars, local, Abstract!vars, Status, Running, Contents, Slot
<1> QED
  BY <1>1, <1>2

LEMMA AbstractInit == Init => Abstract!Init
<1> SUFFICES ASSUME Init
             PROVE  Abstract!Init
  OBVIOUS
<1>1. PInv
  BY PushInit
<1>2. Status = "idle"
  BY <1>1, StatusIs DEF StatusFacts, Init
<1>3. [s \in Slot |-> Contents(s)] \in [Slot -> SUBSET Addr]
  BY <1>1, ContentsType
<1>4. update = Abstract!NoAddress
  BY DEF Init, NoAddress, Abstract!NoAddress, IpVersion, Abstract!IpVersion
<1> QED
  BY <1>2, <1>3, <1>4 DEF Abstract!Init

\* The providers, any number of them at work on whatever names together, do
\* exactly what update_providers() relies on: records are only given the
\* address of the call, and Ok comes when all of them have it.
THEOREM PushImplemented == Spec => ImplementsUpdateTask
  BY AbstractInit, AbstractNext, PushInvariant, PTL
     DEF Spec, ImplementsUpdateTask, Abstract!Spec

-----------------------------------------------------------------------------
(* How many records the repeated creates of entries that overlap may leave. *)

\* A name has at most one record per version when ddrs begins to keep it.
StoredOnce == \A c \in Stored : Len(c) <= 1

Creators(s) == {t \in Task : s[1] \in NamesIn(config.domains[t])}

\* Every create there can be: by whom, and which repetition of it.
Tokens(s) == Creators(s) \X (0..config.retries)

AtCreate(t, s) == step[t] = "create" /\ Head(todo[t]) = s

LateCreate(r, s) == r.step = "create" /\ s \in r.slots

\* The creates of s that may still be carried out.
Pending(s) ==
    {p \in Tokens(s) :
        \/ AtCreate(p[1], s) /\ attempts[p[1]] <= p[2]
        \/ \E r \in late : /\ LateCreate(r, s)
                           /\ r.task = p[1] /\ r.attempt = p[2]}

\* Every record of s was made by a create of its own, which is over.
Bounded(s) == \E U \in SUBSET Tokens(s) : /\ Len(records[s]) <= Cardinality(U)
                                          /\ U \cap Pending(s) = {}

\* A task creates a record where it found none, once per push: it goes on only
\* when the record is there.
LateIs(r) == /\ r.id = 0
             /\ r.attempt <= config.retries
             /\ \A s \in r.slots :
                    /\ AtCreate(r.task, s) => r.attempt < attempts[r.task]
                    /\ \/ Len(records[s]) # 0
                       \/ ~Running(r.task)
                       \/ AtCreate(r.task, s)

DInv ==
    /\ \A t \in Task : step[t] \in {"zone", "list", "create"} => id[t] = 0
    /\ \A r \in late : r.step = "create" => LateIs(r)
    /\ \A s \in Slot : Bounded(s)

LEMMA TokensFinite ==
    ASSUME config \in Configs, NEW s \in Slot
    PROVE  /\ IsFiniteSet(Tokens(s))
           /\ Cardinality(Tokens(s)) =
                  Cardinality(Creators(s)) * (config.retries + 1)
           /\ IsFiniteSet(Creators(s))
           /\ \E p \in Tokens(s) : TRUE
<1>1. config.retries \in Nat
  BY ConfigFacts
<1>2. IsFiniteSet(Creators(s))
  BY RecordAssumption, FS_Subset DEF Creators
<1>3. /\ IsFiniteSet(0..config.retries)
      /\ Cardinality(0..config.retries) = config.retries + 1
  BY <1>1, FS_Interval
<1>4. PICK t \in Task : t \in Creators(s)
  BY ConfigFacts DEF Creators, Slot
<1>5. <<t, 0>> \in Tokens(s)
  BY <1>1, <1>4 DEF Tokens
<1> QED
  BY <1>2, <1>3, <1>5, FS_Product DEF Tokens

LEMMA OneIsBounded ==
    ASSUME config \in Configs, NEW s \in Slot, Len(records[s]) <= 1,
           Pending(s) = {}
    PROVE  Bounded(s)
<1>1. PICK p \in Tokens(s) : TRUE
  BY TokensFinite
<1>2. Cardinality({p}) = 1 /\ {p} \in SUBSET Tokens(s)
  BY FS_Singleton
<1> QED
  BY <1>2 DEF Bounded

\* What a step may do to a slot: nothing new, another record for a create that
\* is now over, no record at all, or the one that Duck DNS keeps.
Kept(s) == /\ Len(records'[s]) <= Len(records[s])
           /\ Pending(s)' \subseteq Pending(s)

Added(s) == \E p \in Pending(s) : /\ Len(records'[s]) = Len(records[s]) + 1
                                  /\ Pending(s)' \subseteq Pending(s) \ {p}

NoRecord(s) == Len(records'[s]) = 0

OnlyOne(s) == Len(records'[s]) <= 1 /\ Pending(s)' = {}

Accounted(s) == Kept(s) \/ Added(s) \/ NoRecord(s) \/ OnlyOne(s)

LEMMA BoundedStays ==
    ASSUME PInv, PInv', UNCHANGED config, NEW s \in Slot, Bounded(s),
           Accounted(s)
    PROVE  Bounded(s)'
<1>1. config \in Configs /\ config' \in Configs
  BY DEF PInv, TypeOK
<1>2. Tokens(s)' = Tokens(s) /\ IsFiniteSet(Tokens(s))
  BY <1>1, TokensFinite DEF Tokens, Creators
<1>3. Len(records[s]) \in Nat /\ Len(records'[s]) \in Nat
  BY DEF PInv, TypeOK
<1>4. PICK U \in SUBSET Tokens(s) : /\ Len(records[s]) <= Cardinality(U)
                                    /\ U \cap Pending(s) = {}
  BY DEF Bounded
<1>5. IsFiniteSet(U) /\ Cardinality(U) \in Nat
  BY <1>2, FS_Subset, FS_CardinalityType
<1>6. CASE Kept(s)
  <2>1. U \cap Pending(s)' = {} /\ Len(records'[s]) <= Cardinality(U)
    BY <1>3, <1>4, <1>5, <1>6 DEF Kept
  <2> QED
    BY <1>2, <2>1 DEF Bounded
<1>7. CASE Added(s)
  <2>1. PICK p \in Pending(s) : /\ Len(records'[s]) = Len(records[s]) + 1
                                /\ Pending(s)' \subseteq Pending(s) \ {p}
    BY <1>7 DEF Added
  <2>2. p \in Tokens(s) /\ p \notin U
    BY <1>4, <2>1 DEF Pending
  <2>3. Cardinality(U \cup {p}) = Cardinality(U) + 1
    BY <1>5, <2>2, FS_AddElement
  <2>4. /\ Len(records'[s]) <= Cardinality(U \cup {p})
        /\ (U \cup {p}) \cap Pending(s)' = {}
        /\ U \cup {p} \in SUBSET Tokens(s)'
    BY <1>2, <1>3, <1>4, <1>5, <2>1, <2>2, <2>3
  <2> QED
    BY <2>4 DEF Bounded
<1>8. CASE NoRecord(s)
  <2>1. Cardinality({}) = 0
    BY FS_EmptySet
  <2> QED
    BY <1>8, <2>1 DEF Bounded, NoRecord
<1>9. CASE OnlyOne(s)
  <2>1. PICK p \in Tokens(s)' : TRUE
    BY <1>1, <1>2, TokensFinite
  <2>2. Cardinality({p}) = 1 /\ {p} \in SUBSET Tokens(s)'
    BY FS_Singleton
  <2> QED
    BY <1>9, <2>2 DEF Bounded, OnlyOne
<1> QED
  BY <1>6, <1>7, <1>8, <1>9 DEF Accounted


\* No two entries of different types write one name, and only Duck DNS sends.
LEMMA SentNeverCreated ==
    PInv => \A x \in Task : config.type[x] = "duckdns" =>
                \A s \in Asked(x) : Pending(s) = {}
<1> SUFFICES ASSUME PInv, NEW x \in Task, config.type[x] = "duckdns",
                    NEW s \in Asked(x), NEW p \in Pending(s)
             PROVE  FALSE
  OBVIOUS
<1>1. config \in Configs /\ update \in IpUpdates
  BY DEF PInv, TypeOK
<1>2. s \in Slot /\ s[1] \in NamesIn(config.domains[x])
  BY <1>1, AskedIs
<1>3. p[1] \in Task /\ s[1] \in NamesIn(config.domains[p[1]]) /\ s[1] \in Name
  BY <1>2 DEF Pending, Tokens, Creators, Slot
<1>4. config.type[p[1]] = "duckdns"
  BY <1>1, <1>2, <1>3, ConfigFacts
<1>5. CASE AtCreate(p[1], s)
  <2>1. step[p[1]] = "create" /\ Running(p[1])
    BY <1>5 DEF AtCreate, Running, Ended
  <2> QED
    BY <1>3, <1>4, <2>1 DEF PInv, TaskInv
<1>6. CASE \E r \in late : LateCreate(r, s) /\ r.task = p[1]
  BY <1>4, <1>6 DEF PInv, Proper, LateCreate
<1> QED
  BY <1>5, <1>6 DEF Pending

LEMMA SentNeverCreatedPrimed ==
    PInv' => (\A x \in Task : config.type[x] = "duckdns" =>
                 \A s \in Asked(x) : Pending(s) = {})'
  BY SentNeverCreated, PTL

\* The lengths that CarryOut leaves.
LEMMA CarryOutLengths ==
    ASSUME PInv, NEW r, Proper(r), UNCHANGED <<config, update>>, NEW s \in Slot,
           CarriedOut(r) \/ UNCHANGED records
    PROVE  /\ records'[s] \in Seq(Addr) /\ records[s] \in Seq(Addr)
           /\ Len(records[s]) # 0 => Len(records'[s]) # 0
           /\ s \in r.slots /\ CarriedOut(r) => Len(records'[s]) # 0
<1>1. records[s] \in Seq(Addr)
  BY DEF PInv, TypeOK
<1>2. CASE UNCHANGED records /\ ~CarriedOut(r)
  BY <1>1, <1>2
<1>3. CASE CarriedOut(r)
  <2>1. records'[s] \in Seq(Addr) /\ (s \notin r.slots => records'[s] = records[s])
    BY <1>3, CarryOut
  <2>2. s \in r.slots => \E i \in DOMAIN records'[s] : TRUE
    BY <1>3, CarryOut DEF Contents
  <2> QED
    BY <1>1, <2>1, <2>2
<1> QED
  BY <1>2, <1>3

\* Task t repeats its request, or has done with it.
Stays(t) == /\ UNCHANGED <<step, todo, id>>
            /\ attempts'[t] = attempts[t] + 1

Leaves(t) == /\ step'[t] # "create"
             /\ step[t] = "create" => ~Running(t)' \/ CarriedOut(Request(t))

AloneMoves(t) ==
    /\ UNCHANGED <<config, update>>
    /\ \A o \in Task \ {t} : /\ step'[o] = step[o] /\ todo'[o] = todo[o]
                             /\ id'[o] = id[o] /\ attempts'[o] = attempts[o]

LEMMA PendingShrinks ==
    ASSUME PInv, NEW t \in Task, AloneMoves(t), Stays(t) \/ Leaves(t),
           late' \subseteq late \cup {Request(t)}, NEW s \in Slot
    PROVE  Pending(s)' \subseteq Pending(s)
<1> SUFFICES ASSUME NEW p \in Pending(s)'
             PROVE  p \in Pending(s)
  OBVIOUS
<1>1. /\ p \in Tokens(s) /\ p[1] \in Task /\ attempts[t] \in Nat /\ p[2] \in Int
      /\ \/ AtCreate(p[1], s)' /\ attempts'[p[1]] <= p[2]
         \/ \E r \in late' : /\ LateCreate(r, s)
                             /\ r.task = p[1] /\ r.attempt = p[2]
  BY ConfigFacts
     DEF Pending, Tokens, Creators, AloneMoves, PInv, TypeOK, LateCreate
<1>2. CASE AtCreate(p[1], s)' /\ attempts'[p[1]] <= p[2]
  <2>1. CASE p[1] # t
    BY <1>1, <1>2, <2>1 DEF AloneMoves, AtCreate, Pending
  <2>2. CASE p[1] = t
    <3>1. Stays(t)
      BY <1>2, <2>2 DEF Leaves, AtCreate
    <3> QED
      BY <1>1, <1>2, <2>2, <3>1 DEF Stays, AtCreate, Pending
  <2> QED
    BY <2>1, <2>2
<1>3. CASE \E r \in late' : LateCreate(r, s) /\ r.task = p[1] /\ r.attempt = p[2]
  <2>1. PICK r \in late' : LateCreate(r, s) /\ r.task = p[1] /\ r.attempt = p[2]
    BY <1>3
  <2>2. CASE r \in late
    BY <1>1, <2>1, <2>2 DEF Pending
  <2>3. CASE r = Request(t)
    <3>1. p[1] = t /\ p[2] = attempts[t] /\ AtCreate(t, s)
      BY <2>1, <2>3 DEF LateCreate, Request, AtCreate
    <3> QED
      BY <1>1, <3>1 DEF Pending
  <2> QED
    BY <2>2, <2>3
<1> QED
  BY <1>1, <1>2, <1>3

LEMMA EffectAccounted ==
    ASSUME PInv, PInv', DInv, NEW t \in Task, AloneMoves(t),
           Stays(t) \/ Leaves(t), Effect(t), NEW s \in Slot
    PROVE  Accounted(s)
<1>1. Pending(s)' \subseteq Pending(s)
  BY EffectGrows, PendingShrinks DEF AloneMoves
<1>2. records[s] \in Seq(Addr)
  BY DEF PInv, TypeOK
<1>3. CASE UNCHANGED records
  BY <1>1, <1>2, <1>3 DEF Accounted, Kept
<1>4. CASE step[t] \in Writes /\ CarriedOut(Request(t)) /\ UNCHANGED late
  <2>1. PICK r : r = Request(t)
    OBVIOUS
  <2>2. Proper(r) /\ CarriedOut(r) /\ r.step = step[t]
    BY <1>4, <2>1, RequestIsProper DEF Request
  <2>3. UNCHANGED <<config, update>>
    BY DEF AloneMoves
  <2>4. CASE s \notin r.slots
    BY <1>1, <1>2, <2>2, <2>3, <2>4, CarryOut DEF Accounted, Kept
  <2>5. CASE s \in r.slots /\ step[t] = "edit"
    BY <1>1, <1>2, <2>2, <2>3, <2>5, CarryOut DEF Accounted, Kept
  <2>6. CASE s \in r.slots /\ step[t] = "send"
    <3>1. s \in Asked(t) /\ config.type[t] = "duckdns"
      BY <2>1, <2>2, <2>6 DEF Proper, Request
    <3>2. s \in Asked(t)' /\ config'.type[t] = "duckdns"
      BY <2>3, <3>1 DEF Asked
    <3>3. Pending(s)' = {}
      BY <3>2, SentNeverCreatedPrimed
    <3>4. Len(records'[s]) = 1
      BY <2>2, <2>3, <2>6, CarryOut
    <3> QED
      BY <3>3, <3>4 DEF Accounted, OnlyOne
  <2>7. CASE s \in r.slots /\ step[t] = "create"
    <3>1. AtCreate(t, s) /\ s \in Asked(t)
      BY <2>1, <2>2, <2>7 DEF Request, AtCreate, Proper
    <3>2. attempts[t] \in 0..config.retries /\ t \in Creators(s)
      BY <3>1, AskedIs DEF PInv, TypeOK, Creators
    <3>3. PICK p : p = <<t, attempts[t]>>
      OBVIOUS
    <3>4. p \in Pending(s)
      BY <3>1, <3>2, <3>3, ConfigFacts DEF Pending, Tokens, PInv, TypeOK
    <3>5. ~(AtCreate(t, s)' /\ attempts'[t] <= attempts[t])
      BY <3>2 DEF Stays, Leaves, AtCreate
    <3>6. ~(\E q \in late : /\ LateCreate(q, s)
                            /\ q.task = t /\ q.attempt = attempts[t])
      BY <3>1, <3>2 DEF DInv, LateIs, LateCreate
    <3>7. p \notin Pending(s)'
      BY <1>4, <3>3, <3>5, <3>6 DEF Pending, LateCreate
    <3>8. Len(records'[s]) = Len(records[s]) + 1
      BY <2>2, <2>3, <2>7, CarryOut
    <3> QED
      BY <1>1, <3>4, <3>7, <3>8 DEF Accounted, Added
  <2> QED
    BY <1>4, <2>4, <2>5, <2>6, <2>7 DEF Writes
<1> QED
  BY <1>3, <1>4 DEF Effect


LEMMA EffectKeeps ==
    ASSUME PInv, PInv', DInv, NEW t \in Task, Running(t), AloneMoves(t),
           Stays(t) \/ Leaves(t), Effect(t),
           step'[t] \in {"zone", "list", "create"} => id'[t] = 0
    PROVE  DInv'
<1>1. \A o \in Task : step'[o] \in {"zone", "list", "create"} => id'[o] = 0
  BY DEF DInv, AloneMoves
<1>2. \A s \in Slot : Bounded(s)'
  BY EffectAccounted, BoundedStays DEF DInv, AloneMoves
<1>3. /\ \A s \in Slot : Len(records[s]) # 0 => Len(records'[s]) # 0
      /\ CarriedOut(Request(t)) /\ step[t] \in Writes =>
             \A s \in Request(t).slots : Len(records'[s]) # 0
  <2>1. UNCHANGED <<config, update>>
    BY DEF AloneMoves
  <2>2. CASE step[t] \in Writes
    <3>1. PICK r : r = Request(t)
      OBVIOUS
    <3>2. Proper(r) /\ r.slots \subseteq Slot
      BY <2>2, <3>1, RequestIsProper DEF Proper, Requests
    <3>3. CarriedOut(r) \/ UNCHANGED records
      BY <3>1 DEF Effect
    <3> QED
      BY <2>1, <3>1, <3>2, <3>3, CarryOutLengths
  <2>3. CASE step[t] \notin Writes
    BY <2>3 DEF Effect
  <2> QED
    BY <2>2, <2>3
<1>4. ASSUME NEW r \in late', r.step = "create"
      PROVE  LateIs(r)'
  <2>1. r \in Requests /\ r.slots \subseteq Slot /\ r.task \in Task
    BY DEF PInv, Proper, Requests
  <2>2. config' = config /\ attempts[t] \in 0..config.retries
    BY DEF AloneMoves, PInv, TypeOK
  <2>3. CASE r \in late
    <3>1. LateIs(r)
      BY <1>4, <2>3 DEF DInv, LateIs
    <3>2. ASSUME NEW s \in r.slots
          PROVE  /\ AtCreate(r.task, s)' => r.attempt < attempts'[r.task]
                 /\ \/ Len(records'[s]) # 0
                    \/ ~Running(r.task)'
                    \/ AtCreate(r.task, s)'
      <4>1. /\ AtCreate(r.task, s) => r.attempt < attempts[r.task]
            /\ \/ Len(records[s]) # 0
               \/ ~Running(r.task)
               \/ AtCreate(r.task, s)
        BY <3>1 DEF LateIs
      <4>2. CASE r.task # t
        BY <1>3, <2>1, <4>1, <4>2 DEF AloneMoves, AtCreate, Running
      <4>3. CASE r.task = t /\ Stays(t)
        <5>1. r.attempt \in Nat
          BY <2>1 DEF Requests
        <5> QED
          BY <1>3, <2>1, <2>2, <4>1, <4>3, <5>1 DEF AtCreate, Stays, Running
      <4>4. CASE r.task = t /\ Leaves(t)
        <5>1. AtCreate(t, s) => step[t] \in Writes /\ s \in Request(t).slots
          BY DEF AtCreate, Request, Writes
        <5> QED
          BY <1>3, <2>1, <4>1, <4>4, <5>1 DEF AtCreate, Leaves
      <4> QED
        BY <4>2, <4>3, <4>4
    <3> QED
      BY <2>2, <3>1, <3>2 DEF LateIs
  <2>4. CASE r = Request(t) /\ step[t] \in Writes
    <3>1. /\ step[t] = "create" /\ r.id = id[t] /\ r.attempt = attempts[t]
          /\ r.task = t /\ r.slots = {Head(todo[t])}
      BY <1>4, <2>4 DEF Request
    <3>2. r.id = 0
      BY <3>1 DEF DInv
    <3>3. ASSUME NEW s \in r.slots
          PROVE  /\ AtCreate(t, s)' => r.attempt < attempts'[t]
                 /\ \/ Len(records'[s]) # 0
                    \/ ~Running(t)'
                    \/ AtCreate(t, s)'
      <4>1. s \in Request(t).slots /\ AtCreate(t, s)
        BY <2>4, <3>1 DEF AtCreate
      <4>2. CASE Stays(t)
        BY <2>2, <3>1, <4>1, <4>2 DEF AtCreate, Stays
      <4>3. CASE Leaves(t)
        BY <1>3, <2>4, <3>1, <4>1, <4>3 DEF AtCreate, Leaves
      <4> QED
        BY <4>2, <4>3
    <3> QED
      BY <2>2, <3>1, <3>2, <3>3, ConfigFacts DEF LateIs, PInv, TypeOK
  <2> QED
    BY <2>3, <2>4 DEF Effect
<1> QED
  BY <1>1, <1>2, <1>4 DEF DInv, LateIs

LEMMA AloneWhenGoto ==
    ASSUME PInv, NEW t \in Task, NEW s, Goto(t, s), UNCHANGED <<config, update>>,
           \/ UNCHANGED todo
           \/ \E w : todo' = [todo EXCEPT ![t] = w],
           \/ UNCHANGED id
           \/ \E i : id' = [id EXCEPT ![t] = i]
    PROVE  AloneMoves(t) /\ step'[t] = s
  BY DEF Goto, AloneMoves, PInv, TypeOK

LEMMA EndLeaves ==
    ASSUME PInv, NEW t \in Task, NEW s \in {"ok", "err"}, End(t, s),
           UNCHANGED <<config, update>>
    PROVE  AloneMoves(t) /\ step'[t] = s /\ Leaves(t)
<1>1. AloneMoves(t) /\ step'[t] = s
  BY AloneWhenGoto DEF End
<1> QED
  BY <1>1 DEF Leaves, Running, Ended

\* The one step that begins to create: the task has just found no record.
LEMMA ListKeeps ==
    ASSUME PInv, PInv', DInv, NEW t \in Task, Running(t), GotList(t),
           UNCHANGED <<config, update>>
    PROVE  DInv'
<1>1. PICK q \in Slot : q = Head(todo[t])
  BY HeadIs
<1>2. /\ UNCHANGED <<todo, records, late>> /\ step[t] = "list"
      /\ \/ /\ DOMAIN records[q] = {} /\ Goto(t, "create") /\ UNCHANGED id
         \/ /\ Goto(t, "edit")
            /\ \E i \in DOMAIN records[q] : id' = [id EXCEPT ![t] = i]
  BY <1>1 DEF GotList, Listed
<1>3. CASE Goto(t, "edit") /\ \E i : id' = [id EXCEPT ![t] = i]
  <2>1. AloneMoves(t) /\ step'[t] = "edit"
    BY <1>2, <1>3, AloneWhenGoto
  <2> QED
    BY <1>2, <2>1, EffectKeeps DEF Leaves, Effect
<1>4. CASE DOMAIN records[q] = {} /\ Goto(t, "create") /\ UNCHANGED id
  <2>1. AloneMoves(t) /\ step'[t] = "create"
    BY <1>2, <1>4, AloneWhenGoto
  <2>2. records[q] \in Seq(Addr) /\ Len(records[q]) = 0
    <3>1. records[q] \in Seq(Addr)
      BY DEF PInv, TypeOK
    <3>2. Len(records[q]) # 0 => 1 \in DOMAIN records[q]
      BY <3>1
    <3> QED
      BY <1>4, <3>1, <3>2
  <2>3. \A o \in Task : step'[o] \in {"zone", "list", "create"} => id'[o] = 0
    BY <1>2, <1>4, <2>1 DEF DInv, AloneMoves
  <2>4. ASSUME NEW s \in Slot
        PROVE  Accounted(s)
    <3>1. CASE s = q
      BY <1>2, <2>2, <3>1 DEF Accounted, NoRecord
    <3>2. CASE s # q
      <4>1. \A o \in Task : AtCreate(o, s)' => AtCreate(o, s) /\ o # t
        BY <1>1, <1>2, <2>1, <3>2 DEF AtCreate, AloneMoves
      <4>2. Pending(s)' \subseteq Pending(s)
        BY <1>2, <2>1, <4>1
           DEF Pending, AloneMoves, Tokens, Creators, LateCreate
      <4>3. records[s] \in Seq(Addr)
        BY DEF PInv, TypeOK
      <4> QED
        BY <1>2, <4>2, <4>3 DEF Accounted, Kept
    <3> QED
      BY <3>1, <3>2
  <2>5. \A s \in Slot : Bounded(s)'
    BY <2>4, BoundedStays DEF DInv
  <2>6. ASSUME NEW r \in late', r.step = "create"
        PROVE  LateIs(r)'
    <3>1. r.task \in Task /\ r.slots \subseteq Slot /\ LateIs(r)
      BY <1>2, <2>6 DEF PInv, Proper, Requests, DInv, LateIs
    <3>2. ASSUME NEW s \in r.slots
          PROVE  /\ AtCreate(r.task, s)' => r.attempt < attempts'[r.task]
                 /\ \/ Len(records'[s]) # 0
                    \/ ~Running(r.task)'
                    \/ AtCreate(r.task, s)'
      <4>1. CASE r.task # t
        BY <1>2, <2>1, <3>1, <4>1 DEF LateIs, AtCreate, AloneMoves, Running
      <4>2. CASE r.task = t
        <5>1. Len(records[s]) # 0
          BY <1>2, <3>1, <4>2 DEF LateIs, AtCreate
        <5>2. s # q
          BY <2>2, <5>1
        <5> QED
          BY <1>1, <1>2, <4>2, <5>1, <5>2 DEF AtCreate
      <4> QED
        BY <4>1, <4>2
    <3> QED
      BY <3>1, <3>2 DEF LateIs
  <2> QED
    BY <2>3, <2>5, <2>6 DEF DInv, LateIs
<1> QED
  BY <1>2, <1>3, <1>4


LEMMA TasksKeepDInv ==
    ASSUME PInv, PInv', DInv, NEW t \in Task, Step(t)
    PROVE  DInv'
<1>1. Running(t) /\ UNCHANGED <<config, update>> /\ Move(t)
  BY StepMoves
<1>2. CASE GoOn(t)
  <2>1. AloneMoves(t) /\ step'[t] = "list" /\ step[t] = "zone"
    BY <1>1, <1>2, AloneWhenGoto DEF GoOn
  <2>2. id'[t] = 0 /\ Effect(t) /\ Leaves(t)
    BY <1>2, <2>1 DEF GoOn, DInv, Effect, Leaves
  <2> QED
    BY <1>1, <2>1, <2>2, EffectKeeps
<1>3. CASE GotList(t)
  BY <1>1, <1>3, ListKeeps
<1>4. CASE WroteOne(t)
  <2>1. /\ step[t] \in {"edit", "create"} /\ Advance(t)
        /\ CarriedOut(Request(t)) /\ UNCHANGED late
    BY <1>4 DEF WroteOne
  <2>2. Effect(t)
    BY <2>1 DEF Effect, Writes
  <2>3. CASE End(t, "ok")
    BY <1>1, <2>2, <2>3, EndLeaves, EffectKeeps
  <2>4. CASE /\ Goto(t, "list") /\ todo' = [todo EXCEPT ![t] = Tail(@)]
             /\ id' = [id EXCEPT ![t] = 0]
    <3>1. AloneMoves(t) /\ step'[t] = "list"
      BY <1>1, <2>4, AloneWhenGoto
    <3>2. id'[t] = 0
      BY <2>4 DEF PInv, TypeOK
    <3> QED
      BY <1>1, <2>1, <2>2, <3>1, <3>2, EffectKeeps DEF Leaves
  <2> QED
    BY <2>1, <2>3, <2>4 DEF Advance
<1>5. CASE SentAll(t)
  <2>1. Effect(t) /\ End(t, "ok")
    BY <1>5 DEF SentAll, Effect, Writes
  <2> QED
    BY <1>1, <2>1, EndLeaves, EffectKeeps
<1>6. CASE Failed(t)
  BY <1>1, <1>6, EndLeaves, EffectKeeps DEF Failed, Fail
<1>7. CASE Repeated(t)
  <2>1. AloneMoves(t) /\ Stays(t)
    BY <1>1, <1>7 DEF Repeated, AloneMoves, Stays, PInv, TypeOK
  <2>2. step'[t] \in {"zone", "list", "create"} => id'[t] = 0
    BY <1>7 DEF Repeated, DInv
  <2> QED
    BY <1>1, <1>7, <2>1, <2>2, EffectKeeps DEF Repeated
<1> QED
  BY <1>1, <1>2, <1>3, <1>4, <1>5, <1>6, <1>7 DEF Move

LEMMA CallKeepsDInv ==
    ASSUME PInv, PInv', DInv, NEW u \in Updates, Call(u)
    PROVE  DInv'
<1>1. /\ late' = {} /\ UNCHANGED <<config, records>>
      /\ \A t \in Task : id'[t] = 0 /\ step'[t] = FirstStep(config.type[t])
  BY DEF Call
<1>2. \A t \in Task : step'[t] # "create"
  BY <1>1, ConfigFacts DEF PInv, TypeOK, FirstStep, Type
<1>3. ASSUME NEW s \in Slot
      PROVE  Accounted(s)
  <2>1. Pending(s)' = {}
    BY <1>1, <1>2 DEF Pending, AtCreate, Tokens, Creators
  <2>2. records[s] \in Seq(Addr)
    BY DEF PInv, TypeOK
  <2> QED
    BY <1>1, <2>1, <2>2 DEF Accounted, Kept
<1>4. \A s \in Slot : Bounded(s)'
  BY <1>1, <1>3, BoundedStays DEF DInv
<1> QED
  BY <1>1, <1>4 DEF DInv

LEMMA LateKeepsDInv ==
    ASSUME PInv, PInv', DInv, CarryOutLate
    PROVE  DInv'
<1>1. PICK r \in late : /\ late' = late \ {r}
                        /\ CarriedOut(r) \/ UNCHANGED records
                        /\ UNCHANGED <<config, update, local>>
  BY DEF CarryOutLate
<1>2. Proper(r) /\ UNCHANGED <<config, update, step, todo, id, attempts>>
  BY <1>1 DEF PInv, local
<1>3. ASSUME NEW q \in late', q.step = "create"
      PROVE  LateIs(q)'
  <2>1. LateIs(q) /\ q.slots \subseteq Slot /\ q.task \in Task
    BY <1>1, <1>3 DEF DInv, PInv, Proper, Requests
  <2>2. \A s \in Slot : Len(records[s]) # 0 => Len(records'[s]) # 0
    BY <1>1, <1>2, CarryOutLengths
  <2> QED
    BY <1>2, <2>1, <2>2 DEF LateIs, AtCreate, Running
<1>4. ASSUME NEW s \in Slot
      PROVE  Accounted(s)
  <2>1. Pending(s)' \subseteq Pending(s)
    BY <1>1, <1>2 DEF Pending, AtCreate, LateCreate, Tokens, Creators
  <2>2. records[s] \in Seq(Addr)
    BY DEF PInv, TypeOK
  <2>3. CASE UNCHANGED records \/ s \notin r.slots
    BY <1>1, <1>2, <2>1, <2>2, <2>3, CarryOut DEF Accounted, Kept
  <2>4. CASE CarriedOut(r) /\ s \in r.slots /\ r.step = "edit"
    BY <1>2, <2>1, <2>2, <2>4, CarryOut DEF Accounted, Kept
  <2>5. CASE CarriedOut(r) /\ s \in r.slots /\ r.step = "send"
    <3>1. /\ r.task \in Task /\ s \in Asked(r.task)'
          /\ config'.type[r.task] = "duckdns"
      BY <1>2, <2>5 DEF Proper, Requests, Asked
    <3>2. Pending(s)' = {}
      BY <3>1, SentNeverCreatedPrimed
    <3>3. Len(records'[s]) = 1
      BY <1>2, <2>5, CarryOut
    <3> QED
      BY <3>2, <3>3 DEF Accounted, OnlyOne
  <2>6. CASE CarriedOut(r) /\ s \in r.slots /\ r.step = "create"
    <3>1. /\ r \in Requests /\ r.task \in Task /\ s \in Asked(r.task)
          /\ r.id = 0 /\ r.attempt \in Nat /\ r.attempt <= config.retries
          /\ AtCreate(r.task, s) => r.attempt < attempts[r.task]
      BY <2>6 DEF DInv, LateIs, PInv, Proper, Requests
    <3>2. PICK p : p = <<r.task, r.attempt>>
      OBVIOUS
    <3>3. config.retries \in Nat /\ r.task \in Creators(s)
      BY <3>1, AskedIs, ConfigFacts DEF PInv, TypeOK, Creators
    <3>4. p \in Tokens(s)
      BY <3>1, <3>2, <3>3 DEF Tokens
    <3>5. p \in Pending(s)
      BY <2>6, <3>2, <3>4 DEF Pending, LateCreate
    <3>6. ASSUME NEW q \in late, LateCreate(q, s), q.task = r.task,
                 q.attempt = r.attempt
          PROVE  q = r
      <4>1. q \in Requests /\ q.step = "create" /\ q.id = 0
        BY <3>6 DEF PInv, Proper, DInv, LateIs, LateCreate
      <4>2. q.slots = {s} /\ r.slots = {s}
        BY <1>2, <2>6, <3>6, <4>1 DEF PInv, Proper, LateCreate
      <4> QED
        BY <2>6, <3>1, <3>6, <4>1, <4>2 DEF Requests
    <3>7. p \notin Pending(s)'
      <4>1. ~(AtCreate(r.task, s)' /\ attempts'[r.task] <= r.attempt)
        BY <1>2, <3>1, ConfigFacts DEF AtCreate, PInv, TypeOK
      <4> QED
        BY <1>1, <3>2, <3>6, <4>1 DEF Pending, LateCreate
    <3>8. Len(records'[s]) = Len(records[s]) + 1
      BY <1>2, <2>6, CarryOut
    <3> QED
      BY <2>1, <3>5, <3>7, <3>8 DEF Accounted, Added
  <2>7. r.step \in Writes
    BY <1>2 DEF Proper, Requests
  <2> QED
    BY <1>1, <2>3, <2>4, <2>5, <2>6, <2>7 DEF Writes
<1>5. \A s \in Slot : Bounded(s)'
  BY <1>2, <1>4, BoundedStays DEF DInv
<1> QED
  BY <1>2, <1>3, <1>5 DEF DInv

LEMMA DInvStutters ==
    ASSUME PInv, PInv', DInv, UNCHANGED vars
    PROVE  DInv'
<1>1. UNCHANGED <<config, update, step, todo, id, attempts, records, late>>
  BY DEF vars, local
<1>2. \A s \in Slot : Bounded(s)'
  BY <1>1
     DEF DInv, Bounded, Tokens, Creators, Pending, AtCreate, LateCreate
<1> QED
  BY <1>1, <1>2 DEF DInv, LateIs, AtCreate, Running

LEMMA DInvNext == PInv /\ PInv' /\ DInv /\ [Next]_vars => DInv'
  BY CallKeepsDInv, TasksKeepDInv, LateKeepsDInv, DInvStutters DEF Next

LEMMA DInvInit == StoredOnce /\ Init => DInv
<1> SUFFICES ASSUME StoredOnce, Init
             PROVE  DInv
  OBVIOUS
<1>1. late = {} /\ (\A t \in Task : step[t] = "idle") /\ config \in Configs
  BY DEF Init
<1>2. \A s \in Slot : Len(records[s]) <= 1
  BY DEF Init, StoredOnce
<1>3. \A s \in Slot : Pending(s) = {}
  BY <1>1 DEF Pending, AtCreate, Tokens, Creators
<1> QED
  BY <1>1, <1>2, <1>3, OneIsBounded DEF DInv

LEMMA DInvAlways == StoredOnce => (Spec => [](PInv /\ DInv))
<1> SUFFICES ASSUME StoredOnce
             PROVE  Spec => [](PInv /\ DInv)
  OBVIOUS
<1>1. Init => DInv
  BY DInvInit
<1> QED
  BY <1>1, DInvNext, PushInvariant, PTL DEF Spec

LEMMA Bounds == PInv /\ DInv => DuplicatesBounded
<1> SUFFICES ASSUME PInv, DInv, NEW s \in Slot
             PROVE  Len(records[s]) <= Cardinality(Creators(s))
                                           * (config.retries + 1)
  BY DEF DuplicatesBounded, Creators
<1>1. config \in Configs /\ records[s] \in Seq(Addr)
  BY DEF PInv, TypeOK
<1>2. PICK U \in SUBSET Tokens(s) : Len(records[s]) <= Cardinality(U)
  BY DEF DInv, Bounded
<1>3. /\ Cardinality(U) <= Cardinality(Tokens(s))
      /\ Cardinality(U) \in Nat /\ Cardinality(Tokens(s)) \in Nat
  BY <1>1, TokensFinite, FS_Subset, FS_CardinalityType
<1>4. Len(records[s]) <= Cardinality(Tokens(s))
  BY <1>1, <1>2, <1>3
<1> QED
  BY <1>1, <1>4, TokensFinite

\* Where names start with at most one record, they have at most one per entry
\* that covers them and repetition that it may make, after any number of pushes
\* and however late the services carry out what was given up.
THEOREM FewDuplicates == StoredOnce => (Spec => []DuplicatesBounded)
<1> SUFFICES ASSUME StoredOnce
             PROVE  Spec => []DuplicatesBounded
  OBVIOUS
<1> QED
  BY DInvAlways, Bounds, PTL

LEMMA OnlyOneLeft == PInv /\ DInv => OkMeansOnly
<1> SUFFICES ASSUME PInv, DInv, NEW t \in Task, NEW s \in Asked(t),
                    step[t] = "ok", config.retries = 0,
                    \A o \in Task \ {t} : s[1] \notin NamesIn(config.domains[o])
             PROVE  Contents(s) = {update[s[2]]}
  BY DEF OkMeansOnly
<1>1. s \in Slot /\ s[1] \in NamesIn(config.domains[t])
  BY AskedIs DEF PInv, TypeOK
<1>2. Creators(s) = {t} /\ Cardinality({t}) = 1
  BY <1>1, FS_Singleton DEF Creators
<1>3. Len(records[s]) <= Cardinality(Creators(s)) * (config.retries + 1)
  BY <1>1, Bounds DEF DuplicatesBounded, Creators
<1>4. records[s] \in Seq(Addr) /\ Len(records[s]) <= 1
  BY <1>1, <1>2, <1>3 DEF PInv, TypeOK
<1>5. update[s[2]] \in Contents(s)
  BY DEF PInv, TaskInv, Published
<1> QED
  BY <1>4, <1>5 DEF Contents

\* And where requests are not repeated and no other entry covers a name, an Ok
\* leaves it with the address that was sent, and no other.
THEOREM OkIsAllThereIs == StoredOnce => (Spec => []OkMeansOnly)
<1> SUFFICES ASSUME StoredOnce
             PROVE  Spec => []OkMeansOnly
  OBVIOUS
<1> QED
  BY DInvAlways, OnlyOneLeft, PTL


-----------------------------------------------------------------------------
(* How long a push can take: what of UpdateEnds needs no fairness.          *)

LEMMA LeftIs ==
    ASSUME PInv, NEW t \in Task
    PROVE  /\ Left(t) \in Nat
           /\ Running(t) => Left(t) # 0
           /\ step[t] = "zone" => Left(t) = 2 * Len(todo[t]) + 1
           /\ step[t] = "list" => Left(t) = 2 * Len(todo[t])
           /\ step[t] \in Writes => Left(t) = 2 * Len(todo[t]) - 1
<1>1. step[t] \in Ended \cup Writes \cup {"zone", "list"}
  BY DEF PInv, TypeOK
<1>2. Len(todo[t]) \in Nat
  BY DEF PInv, TypeOK
<1>3. Running(t) => Len(todo[t]) # 0
  BY EmptySeq DEF PInv, TypeOK
<1>4. CASE step[t] \in Ended
  BY <1>4 DEF Left, Running, Ended, Writes
<1>5. CASE step[t] = "zone"
  BY <1>2, <1>3, <1>5 DEF Left, Running, Ended, Writes
<1>6. CASE step[t] = "list"
  BY <1>2, <1>3, <1>6 DEF Left, Running, Ended, Writes
<1>7. CASE step[t] \in Writes
  <2>1. step[t] \notin Ended /\ step[t] # "zone" /\ step[t] # "list" /\ Running(t)
    BY <1>7 DEF Ended, Writes, Running
  <2>2. Left(t) = 2 * Len(todo[t]) - 1
    BY <1>2, <2>1 DEF Left, Running
  <2> QED
    BY <1>2, <1>3, <2>1, <2>2
<1> QED
  BY <1>1, <1>4, <1>5, <1>6, <1>7

LEMMA FewerRequests ==
    ASSUME NEW r \in Nat, NEW a \in 0..r, NEW m \in Nat, NEW n \in Nat, m < n
    PROVE  m * (r + 1) < n * (r + 1) - a
<1>1. PICK d \in Nat : n = m + 1 + d
  <2>1. n - m - 1 \in Nat /\ n = m + 1 + (n - m - 1)
    OBVIOUS
  <2> QED
    BY <2>1
<1>2. n * (r + 1) = m * (r + 1) + (r + 1) + d * (r + 1)
  BY <1>1
<1>3. d * (r + 1) >= 0 /\ m * (r + 1) \in Nat /\ d * (r + 1) \in Nat
  OBVIOUS
<1> QED
  BY <1>2, <1>3

LEMMA OthersRemain ==
    ASSUME NEW t \in Task, AloneMoves(t), NEW o \in Task \ {t}
    PROVE  Remaining(o)' = Remaining(o)
  BY DEF AloneMoves, Remaining, Left, Running

LEMMA RemainingShrinks ==
    ASSUME PInv, PInv', NEW t \in Task, Step(t)
    PROVE  /\ Remaining(t) \in Nat
           /\ Remaining(t)' < Remaining(t)
           /\ \A o \in Task \ {t} : Remaining(o)' = Remaining(o)
<1>1. Running(t) /\ UNCHANGED <<config, update>> /\ Move(t)
  BY StepMoves
<1>2. /\ Left(t) \in Nat \ {0} /\ config.retries \in Nat
      /\ attempts[t] \in 0..config.retries
  BY <1>1, LeftIs, ConfigFacts DEF PInv, TypeOK
<1>3. todo[t] \in Seq(Slot) /\ todo[t] # <<>>
  BY <1>1, HeadIs
<1>4. Remaining(t) \in Nat
  <2>1. 0 * (config.retries + 1) < Left(t) * (config.retries + 1) - attempts[t]
    BY <1>2, FewerRequests
  <2> QED
    BY <1>2, <2>1 DEF Remaining
<1>5. CASE Repeated(t)
  <2>1. /\ Left(t)' = Left(t) /\ attempts'[t] = attempts[t] + 1
        /\ AloneMoves(t)
    BY <1>1, <1>5 DEF Repeated, Left, PInv, TypeOK, AloneMoves, Running
  <2>2. Left(t) * (config.retries + 1) \in Nat
    BY <1>2
  <2>3. Remaining(t)' = Remaining(t) - 1
    BY <1>1, <1>2, <2>1, <2>2 DEF Remaining
  <2> QED
    BY <1>2, <1>4, <2>1, <2>3, OthersRemain
<1>6. CASE ~Repeated(t)
  <2>1. /\ AloneMoves(t) /\ attempts'[t] = 0
        /\ Left(t)' \in Nat /\ Left(t)' < Left(t)
    <3>1. ASSUME NEW s \in {"ok", "err"}, End(t, s)
          PROVE  AloneMoves(t) /\ attempts'[t] = 0 /\ Left(t)' = 0
      <4>1. AloneMoves(t) /\ step'[t] = s /\ attempts'[t] = 0
        BY <1>1, <3>1, EndLeaves DEF End, Goto, PInv, TypeOK
      <4> QED
        BY <4>1 DEF Left, Running, Ended
    <3>2. CASE Failed(t) \/ SentAll(t)
      BY <1>2, <3>1, <3>2 DEF Failed, SentAll, Fail
    <3>3. CASE GoOn(t)
      <4>1. /\ AloneMoves(t) /\ step'[t] = "list" /\ attempts'[t] = 0
            /\ UNCHANGED todo /\ step[t] = "zone"
        BY <1>1, <3>3, AloneWhenGoto DEF GoOn, Goto, PInv, TypeOK
      <4>2. Left(t)' = 2 * Len(todo[t]) /\ Left(t) = 2 * Len(todo[t]) + 1
        BY <4>1, LeftIs DEF Left, Running, Ended, Writes
      <4> QED
        BY <1>3, <4>1, <4>2
    <3>4. CASE GotList(t)
      <4>1. /\ AloneMoves(t) /\ step'[t] \in {"edit", "create"}
            /\ attempts'[t] = 0 /\ UNCHANGED todo /\ step[t] = "list"
        BY <1>1, <3>4, AloneWhenGoto DEF GotList, Listed, Goto, PInv, TypeOK
      <4>2. Left(t)' = 2 * Len(todo[t]) - 1 /\ Left(t) = 2 * Len(todo[t])
        BY <4>1, LeftIs DEF Left, Running, Ended, Writes
      <4>3. Len(todo[t]) \in Nat /\ Len(todo[t]) # 0
        BY <1>3, EmptySeq
      <4> QED
        BY <4>1, <4>2, <4>3
    <3>5. CASE WroteOne(t)
      <4>1. step[t] \in Writes /\ Left(t) = 2 * Len(todo[t]) - 1
        BY <3>5, LeftIs DEF WroteOne, Writes
      <4>2. CASE End(t, "ok")
        BY <1>2, <3>1, <4>2
      <4>3. CASE /\ Len(todo[t]) # 1 /\ Goto(t, "list")
                 /\ todo' = [todo EXCEPT ![t] = Tail(@)]
                 /\ id' = [id EXCEPT ![t] = 0]
        <5>1. AloneMoves(t) /\ step'[t] = "list" /\ attempts'[t] = 0
          BY <1>1, <4>3, AloneWhenGoto DEF Goto, PInv, TypeOK
        <5>2. todo'[t] = Tail(todo[t])
          BY <4>3 DEF PInv, TypeOK
        <5>3. Left(t)' = 2 * Len(Tail(todo[t]))
          BY <5>1, <5>2 DEF Left, Running, Ended, Writes
        <5>4. /\ Len(todo[t]) \in Nat /\ Len(todo[t]) # 0
              /\ Len(Tail(todo[t])) = Len(todo[t]) - 1
          BY <1>3, EmptySeq, HeadTailProperties
        <5> QED
          BY <4>1, <5>1, <5>3, <5>4
      <4> QED
        BY <3>5, <4>2, <4>3 DEF WroteOne, Advance
    <3> QED
      BY <1>1, <1>6, <3>2, <3>3, <3>4, <3>5 DEF Move
  <2>2. Remaining(t)' = Left(t)' * (config.retries + 1)
    BY <1>1, <1>2, <2>1 DEF Remaining
  <2>3. Left(t)' * (config.retries + 1)
            < Left(t) * (config.retries + 1) - attempts[t]
    BY <1>2, <2>1, FewerRequests
  <2> QED
    BY <1>4, <2>1, <2>2, <2>3, OthersRemain DEF Remaining
<1> QED
  BY <1>5, <1>6

\* A push ends after a bounded number of requests, whatever the services
\* answer: an entry makes a list and a write per name and version, one request
\* more for the zones, and repeats each of them as often as is configured.
THEOREM PushRunsOut == Spec => RequestsRunOut
<1>1. PInv /\ PInv' /\ [Next]_vars =>
          [\A t \in Task : Step(t) =>
               /\ Remaining(t) \in Nat
               /\ Remaining(t)' < Remaining(t)
               /\ \A o \in Task \ {t} : Remaining(o)' = Remaining(o)]_vars
  BY RemainingShrinks
<1> QED
  BY <1>1, PushInvariant, PTL DEF Spec, RequestsRunOut
=============================================================================
