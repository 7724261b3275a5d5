--------------------------- MODULE KvStateMachine ---------------------------
(***************************************************************************)
(* The replicated key-value state machine of crates/kvsm/src/lib.rs: a map *)
(* and a session table.  A state is a record [map, sessions] of two partial*)
(* functions; a key outside the map's domain is absent.  A command is      *)
(* [session, seq, op], session 0 being no session.                         *)
(***************************************************************************)
EXTENDS Naturals

CONSTANT Absent  \* Option::None as a value

EmptyKv == [map |-> [k \in {} |-> Absent], sessions |-> [s \in {} |-> 0]]

\* Backend::get and Backend::set; setting a key to Absent deletes it.
KvGet(map, key) == IF key \in DOMAIN map THEN map[key] ELSE Absent

KvSet(map, key, value) ==
  [k \in (DOMAIN map \ {key}) \cup (IF value = Absent THEN {} ELSE {key}) |->
     IF k = key THEN value ELSE map[k]]

\* The map after an operation, and what the operation returns.
Execute(map, op) ==
  LET actual == KvGet(map, op.key)
  IN  CASE op.type = "Put"    -> [map |-> KvSet(map, op.key, op.value),
                                  result |-> [type |-> "Ok"]]
        [] op.type = "Delete" -> [map |-> KvSet(map, op.key, Absent),
                                  result |-> [type |-> "Ok"]]
        [] op.type = "Cas"    -> [map |-> IF actual = op.expect
                                            THEN KvSet(map, op.key, op.new) ELSE map,
                                  result |-> [type |-> "Cas", actual |-> actual,
                                              success |-> actual = op.expect]]
        [] op.type = "Get"    -> [map |-> map,
                                  result |-> [type |-> "Value", actual |-> actual]]

\* sessions.insert: the command is the session's last, with its result.
Remember(sessions, cmd, result) ==
  IF cmd.session = 0 THEN sessions
  ELSE [x \in DOMAIN sessions \cup {cmd.session} |->
          IF x = cmd.session THEN [lastSeq |-> cmd.seq, lastResult |-> result]
                             ELSE sessions[x]]

\* Mutant of Apply: a repeated command is executed again.
ApplyAgain(kv, cmd) ==
  LET done == Execute(kv.map, cmd.op)
  IN  [kv |-> [map |-> done.map, sessions |-> Remember(kv.sessions, cmd, done.result)],
       result |-> done.result]

\* StateMachine::apply: a repeated command is answered from the session table,
\* an older one is stale, and neither is executed.
Apply(kv, cmd) ==
  LET s    == cmd.session
      done == Execute(kv.map, cmd.op)
  IN  IF s \in DOMAIN kv.sessions /\ cmd.seq = kv.sessions[s].lastSeq
        THEN [kv |-> kv, result |-> kv.sessions[s].lastResult]
      ELSE IF s \in DOMAIN kv.sessions /\ cmd.seq < kv.sessions[s].lastSeq
        THEN [kv |-> kv, result |-> [type |-> "Stale"]]
      ELSE [kv |-> [map |-> done.map,
                    sessions |-> Remember(kv.sessions, cmd, done.result)],
            result |-> done.result]

\* The image a snapshot carries, and the state it is restored to.
Image(kv) == [kvs |-> kv.map, sessions |-> kv.sessions]

\* Mutant of Restore: the session table is not taken from the snapshot.
RestoreWithoutSessions(data) == [map |-> data.kvs, sessions |-> EmptyKv.sessions]

Restore(data) == [map |-> data.kvs, sessions |-> data.sessions]
=============================================================================
