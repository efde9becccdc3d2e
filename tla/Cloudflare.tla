----------------------------- MODULE Cloudflare -----------------------------
(***************************************************************************)
(* src/providers/cloudflare.rs: the requests of update(), one step each,   *)
(* of the task t of an entry of this type.                                 *)
(***************************************************************************)
EXTENDS RecordSync

\* A 2xx status, a body of the expected JSON type, its success field, and
\* whether it has a result (of a list of zones: a matching one).
Answer == [http: BOOLEAN, json: BOOLEAN, success: BOOLEAN, result: BOOLEAN]

\* Mutant: the success field is not looked at.
parse_http_only(answer) == answer.http /\ answer.json

\* Ok(parsed), in the order of the checks.
parse_cloudflare_response(answer) ==
    answer.http /\ answer.json /\ answer.success

ClaimsSuccess(answer) == answer.http /\ answer.json /\ answer.success

\* All a task and the service have to do with an answer.
Verdicts == {[claimed |-> ClaimsSuccess(answer),
              ok |-> parse_cloudflare_response(answer),
              data |-> answer.result] : answer \in Answer}

\* The zone of the entry may not be one of the account.
fetch_zone_id(t) ==
    /\ step[t] = "zone"
    /\ \E v \in Verdicts :
           IF v.ok /\ v.data
           THEN Goto(t, "list") /\ UNCHANGED <<todo, id>>
           ELSE Fail(t)
    /\ UNCHANGED <<config, update, records, late>>

fetch_dns_records(t) ==
    /\ step[t] = "list"
    /\ \E v \in Verdicts :
           IF v.ok /\ v.data
           THEN Listed(t) ELSE Fail(t)
    /\ UNCHANGED <<config, update, records, late>>

\* The requests that change something return no data.
Written(t) == /\ \E v \in Verdicts :
                     /\ AnswersWrite(t, v.claimed)
                     /\ IF v.ok THEN Advance(t) ELSE Fail(t)
              /\ UNCHANGED <<config, update, late>>

update_dns_record(t) == step[t] = "edit" /\ Written(t)

create_dns_record(t) == step[t] = "create" /\ Written(t)

Step(t) == \/ fetch_zone_id(t) \/ fetch_dns_records(t)
           \/ update_dns_record(t) \/ create_dns_record(t)
           \/ NoAnswer(t)
=============================================================================
