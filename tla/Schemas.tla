------------------------------ MODULE Schemas ------------------------------
(***************************************************************************)
(* What the catalog promises: tables by name, each with the columns it was *)
(* created with.  create_table adds a table with all of its columns or     *)
(* none that can be used, drop_table takes the table away, and no call     *)
(* touches a table it does not name, wherever it is cut short.             *)
(***************************************************************************)
EXTENDS Sequences

CONSTANTS
    TableNames,
    NoTable,    \* the name is free
    Unusable,   \* the name is taken by a table whose creation was cut short
    Valid(_)    \* the columns a sequence or a unique index can be on

VARIABLES
    schemas,    \* for each name its columns, or one of the above
    call,       \* the last call
    reply       \* what it returned, "running" until it does

Init == schemas = [name \in TableNames |-> NoTable] /\ call = [op |-> "new"] /\ reply = "ok"

Becomes(value) == schemas' = [schemas EXCEPT ![call.name] = value]

Begin ==
    /\ reply # "running"
    /\ schemas' = schemas
    /\ CASE call'.op = "create" ->
               reply' = IF schemas[call'.name] = NoTable THEN "running" ELSE "exists"
         [] call'.op = "drop" ->
               IF schemas[call'.name] = NoTable THEN reply' = "missing"
               ELSE \/ reply' = "running"
                    \/ schemas[call'.name] = Unusable /\ reply' = "panic"
         [] OTHER -> TRUE

During == reply = "running" /\ call' = call

FinishCreate ==
    /\ During /\ call.op = "create"
    /\ \/ /\ reply' = "ok"
          /\ call.columns # << >>
          /\ \A i \in DOMAIN call.columns : Valid(call.columns[i])
          /\ Becomes(call.columns)
       \/ /\ reply' = "invalid"
          /\ \E i \in DOMAIN call.columns : ~Valid(call.columns[i])
          /\ Becomes(Unusable)
       \/ /\ reply' = "panic"
          /\ call.columns = << >>
          /\ Becomes(Unusable)

CutCreate ==
    /\ During /\ call.op = "create"
    /\ reply' = "error"
    /\ Becomes(NoTable) \/ Becomes(Unusable)

Vanish ==
    /\ During /\ call.op = "drop"
    /\ reply' = "running"
    /\ Becomes(NoTable)

FinishDrop ==
    /\ During /\ call.op = "drop"
    /\ \/ reply' = "error"
       \/ reply' = "ok" /\ schemas[call.name] = NoTable
    /\ schemas' = schemas

FinishOther == During /\ call.op \notin {"create", "drop"} /\ schemas' = schemas

Next == Begin \/ FinishCreate \/ CutCreate \/ Vanish \/ FinishDrop \/ FinishOther

Spec == Init /\ [][Next]_<<schemas, call, reply>>

=============================================================================
