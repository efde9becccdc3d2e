------------------------------ MODULE DuckDns -------------------------------
(***************************************************************************)
(* src/providers/duckdns.rs: one request sets the addresses of all the     *)
(* domains of the entry, and its answer is lines of text.                  *)
(***************************************************************************)
EXTENDS RecordSync

CONSTANTS MaxLines      \* the length of the longest body considered

Line == {"OK", "KO", "UPDATED", "NOCHANGE", "blank", "other"}
Bodies(n) == UNION {[1..m -> Line] : m \in 0..n}

\* Duck DNS begins with its status, whatever white space comes before it.
Answer == UNION {[http : BOOLEAN, blanks : {k},
                  lines : {lines \in Bodies(MaxLines - k) :
                               lines # <<>> => Head(lines) # "blank"}] :
                     k \in 0..MaxLines}

ClaimsSuccess(answer) ==
    answer.http /\ answer.lines # <<>> /\ Head(answer.lines) = "OK"

text(answer) == [i \in 1..answer.blanks |-> "blank"] \o answer.lines

\* The next() of lines(), trim() and filter().
FirstLine(body) ==
    LET first == {i \in DOMAIN body : /\ body[i] # "blank"
                                      /\ \A j \in 1..(i - 1) : body[j] = "blank"} IN
    IF first = {} THEN "none" ELSE body[CHOOSE i \in first : TRUE]

\* Mutant: only "KO" counts as an error.
parse_unless_rejected(body) == FirstLine(body) # "KO"

\* Ok, with a verdict the caller does not look at.
parse_update_response_body(body) == FirstLine(body) = "OK"

parse_update_response(answer) ==
    answer.http /\ parse_update_response_body(text(answer))

\* All a task and a service have to do with an answer.
Verdicts == {[claimed |-> ClaimsSuccess(answer),
              ok |-> parse_update_response(answer)] : answer \in Answer}

\* Mutant: the ipv6 parameter is left out.
update_domains_v4(t) ==
    /\ step[t] = "send"
    /\ \E v \in Verdicts :
           /\ \/ records' = [s \in Slot |->
                                IF s \in NamesIn(todo[t]) /\ s[2] = "v4"
                                THEN <<update["v4"]>> ELSE records[s]]
              \/ ~v.claimed /\ UNCHANGED records
           /\ IF v.ok THEN End(t, "ok") ELSE Fail(t)
    /\ UNCHANGED <<config, update, late>>

\* The parameters name every domain, and ip and ipv6 if they are in the update.
update_domains(t) ==
    /\ step[t] = "send"
    /\ \E v \in Verdicts :
           /\ AnswersWrite(t, v.claimed)
           /\ IF v.ok THEN End(t, "ok") ELSE Fail(t)
    /\ UNCHANGED <<config, update, late>>

Step(t) == update_domains(t) \/ NoAnswer(t)
=============================================================================
