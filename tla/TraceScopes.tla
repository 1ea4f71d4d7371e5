----------------------------- MODULE TraceScopes -----------------------------
(***************************************************************************)
(* TraceScope (src/trace.rs): a guard that starts a span at the host when  *)
(* it is made and ends it once, when end is called or when it is dropped.  *)
(*                                                                         *)
(* A trace state holds the guards that are alive, innermost last (each is  *)
(* a local variable, so the last one made is dropped first), and what the  *)
(* host knows: the spans it has open, in the order they were started.  A   *)
(* host may refuse a span: then its id is not positive.                    *)
(***************************************************************************)
EXTENDS Integers, SequencesExt

CONSTANT Names      \* the names of spans

NoStatus == "none"
Statuses == {"ok", "retry", "error", NoStatus}

(***************************************************************************)
(* reported[n] is a history: the status with which the host saw the last   *)
(* span of that name end, "open" while it has not, "refused" if it did not *)
(* take it.  misused is one too: the host was told to end a span that was  *)
(* not the innermost one it had open.                                      *)
(***************************************************************************)
Untraced ==
  [scopes |-> << >>, spans |-> << >>,
   reported |-> [n \in Names |-> "refused"], misused |-> FALSE]

Scopes == [name : Names, span_id : Int, finished : BOOLEAN, status : Statuses]
Spans == [id : Nat \ {0}, name : Names]

IsTrace(t) ==
  t \in [scopes : Seq(Scopes), spans : Seq(Spans),
         reported : [Names -> Statuses \cup {"open", "refused"}],
         misused : BOOLEAN]
-----------------------------------------------------------------------------
(***************************************************************************)
(* Faulty variants, each a slip the code could contain.                    *)
(***************************************************************************)
AlreadyFinished_Never(scope) == FALSE
DropLast_Forgotten(t) == [t EXCEPT !.scopes = Front(@)]
EndPayload_Empty(scope) == NoStatus
-----------------------------------------------------------------------------
(***************************************************************************)
(* The host.                                                               *)
(***************************************************************************)
HasInnermost(t, id) == t.spans # << >> /\ Last(t.spans).id = id

host_trace_span_end(t, id, status) ==
  IF HasInnermost(t, id)
  THEN [t EXCEPT !.spans = Front(@), !.reported[Last(t.spans).name] = status]
  ELSE [t EXCEPT !.misused = TRUE]

\* The ids a host may give: one it has not in use, or none.
SpanIds(t) == {Len(t.spans) + 1, 0}
-----------------------------------------------------------------------------
\* trace_scope and trace_scope_with_attrs, to which the host answers span_id.
trace_scope(t, name, span_id) ==
  [t EXCEPT
     !.scopes = Append(@, [name |-> name, span_id |-> span_id,
                           finished |-> FALSE, status |-> NoStatus]),
     !.spans = IF span_id > 0 THEN Append(@, [id |-> span_id, name |-> name]) ELSE @,
     !.reported[name] = IF span_id > 0 THEN "open" ELSE "refused"]

\* set_status of the innermost guard.
set_status(t, status) == [t EXCEPT !.scopes[Len(t.scopes)].status = status]

\* if self.finished
AlreadyFinished(scope) == scope.finished

\* What the host is told at the end of a span; the attributes are left out.
EndPayload(scope) == scope.status

\* finish of the innermost guard.
finish(t) ==
  LET scope == Last(t.scopes)
      marked == [t EXCEPT !.scopes[Len(t.scopes)].finished = TRUE]
  IN  IF AlreadyFinished(scope) THEN t
      ELSE IF scope.span_id <= 0 THEN marked
      ELSE host_trace_span_end(marked, scope.span_id, EndPayload(scope))

\* Drop: finish, and the guard is gone.
DropLast(t) == [finish(t) EXCEPT !.scopes = Front(@)]

\* end takes the guard by value: it is dropped on return.
end(t) == DropLast(finish(t))
-----------------------------------------------------------------------------
\* The spans that the live guards stand for, outermost first.
Alive(scope) == scope.span_id > 0 /\ ~scope.finished

SpanOf(scope) == [id |-> scope.span_id, name |-> scope.name]

SpansOfScopes(scopes) ==
  LET spans[i \in 0 .. Len(scopes)] ==
        IF i = 0 THEN << >>
        ELSE IF Alive(scopes[i]) THEN Append(spans[i - 1], SpanOf(scopes[i]))
        ELSE spans[i - 1]
  IN  spans[Len(scopes)]

(***************************************************************************)
(* The host's open spans are those of the live guards, in their order, and *)
(* none was ended twice or out of order.                                   *)
(***************************************************************************)
WellNested(t) == ~t.misused /\ t.spans = SpansOfScopes(t.scopes)
=============================================================================
