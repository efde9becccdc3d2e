------------------------------ MODULE Porkbun -------------------------------
(***************************************************************************)
(* src/providers/porkbun.rs: the requests of update(), one step each.      *)
(* There is no zone to look up, and every request is a POST.               *)
(***************************************************************************)
EXTENDS RecordSync

\* A 2xx status, a body of the expected JSON type, whether its status field
\* is SUCCESS, and whether it has records.
Answer == [http: BOOLEAN, json: BOOLEAN, success: BOOLEAN, records: BOOLEAN]

\* Mutant: the status field is not looked at.
parse_http_only(answer) == answer.http /\ answer.json

\* Ok(parsed), in the order of the checks.
parse_porkbun_response(answer) ==
    answer.http /\ answer.json /\ answer.success

ClaimsSuccess(answer) == answer.http /\ answer.json /\ answer.success

\* All a task and the service have to do with an answer.
Verdicts == {[claimed |-> ClaimsSuccess(answer),
              ok |-> parse_porkbun_response(answer),
              data |-> answer.records] : answer \in Answer}

\* An answer without records is an error, an empty list of them is not.
fetch_dns_records(t) ==
    /\ step[t] = "list"
    /\ \E v \in Verdicts :
           IF v.ok /\ v.data
           THEN Listed(t) ELSE Fail(t)
    /\ UNCHANGED <<config, update, records, late>>

\* The requests that change something return no data.
Written(t) == /\ \E v \in Verdicts :
                     /\ AnswersWrite(t, v.claimed)
                     /\ IF v.ok THEN Advance(t) ELSE Fail(t)
              /\ UNCHANGED <<config, update, late>>

update_dns_record(t) == step[t] = "edit" /\ Written(t)

create_dns_record(t) == step[t] = "create" /\ Written(t)

Step(t) == \/ fetch_dns_records(t)
           \/ update_dns_record(t) \/ create_dns_record(t)
           \/ NoAnswer(t)
=============================================================================
