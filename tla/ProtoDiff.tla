----------------------------- MODULE ProtoDiff ------------------------------
(***************************************************************************)
(* diff_proto (guardian_diff/proto.py): the changes between two protobuf   *)
(* contracts. A contract maps the full names of its messages, nested ones  *)
(* included, to messages and those of its services to services; a message  *)
(* maps the field numbers it uses to fields, a service the names of its    *)
(* methods to their types. protoc refuses two fields of one name.          *)
(* What diff_proto never looks at, as the values of enums, the members of a *)
(* oneof and the streaming of methods, is no part of a contract here.      *)
(***************************************************************************)
EXTENDS RawChanges

IsMessage(m) ==
  /\ m = [n \in DOMAIN m |-> m[n]]
  /\ \A n \in DOMAIN m :
       m[n] = [name |-> m[n].name, type |-> m[n].type, label |-> m[n].label]
  /\ \A n, k \in DOMAIN m : m[n].name = m[k].name => n = k

IsService(s) ==
  /\ s = [m \in DOMAIN s |-> s[m]]
  /\ \A m \in DOMAIN s :
       s[m] = [input_type |-> s[m].input_type, output_type |-> s[m].output_type]

IsProtoContract(c) ==
  /\ c = [messages |-> c.messages, services |-> c.services]
  /\ c.messages = [n \in DOMAIN c.messages |-> c.messages[n]]
  /\ c.services = [n \in DOMAIN c.services |-> c.services[n]]
  /\ \A n \in DOMAIN c.messages : IsMessage(c.messages[n])
  /\ \A n \in DOMAIN c.services : IsService(c.services[n])

FieldChange(event, name, field) ==
  Change("proto.field", event, <<name, field.name>>, NoValue, {})

\* _diff_message compares by number. The second map, by name, only serves to
\* report a field at a new number as moved, and not as added and removed.
Named(message, name) == \E m \in DOMAIN message : message[m].name = name

\* A plausible slip: fields are matched by name.
DiffMessageByName(name, before, after) ==
  {FieldChange("added", name, after[n]) :
     n \in {m \in DOMAIN after : ~Named(before, after[m].name)}}
  \cup {FieldChange("removed", name, before[n]) :
     n \in {m \in DOMAIN before : ~Named(after, before[m].name)}}

DiffMessage(name, before, after) ==
  LET new  == DOMAIN after \ DOMAIN before
      gone == DOMAIN before \ DOMAIN after
      kept == DOMAIN before \cap DOMAIN after
      moved == {n \in new : Named(before, after[n].name)}
  IN {FieldChange("number_changed", name, after[n]) : n \in moved}
     \cup {FieldChange("added", name, after[n]) : n \in new \ moved}
     \cup {FieldChange("removed", name, before[n]) :
             n \in {g \in gone : ~Named(after, before[g].name)}}
     \cup {FieldChange("type_changed", name, before[n]) :
             n \in {k \in kept : before[k].type # after[k].type}}
     \cup {FieldChange("label_changed", name, before[n]) :
             n \in {k \in kept : before[k].label # after[k].label}}
     \cup {FieldChange("renamed", name, before[n]) :
             n \in {k \in kept : before[k].name # after[k].name}}

\* An RPC names its call in the change, as a POST. The miner stores a call of a
\* stub under the method "RPC" (module CallSites), so no client is found.
RpcChange(event, name, rpc) ==
  Change("proto.rpc", event, <<name, rpc>>, NoValue, {Call("POST", <<name, rpc>>)})

\* A plausible slip: the type of the response is not compared.
DiffServiceRequests(name, before, after) ==
  LET kept == DOMAIN before \cap DOMAIN after
  IN {RpcChange("added", name, m) : m \in DOMAIN after \ DOMAIN before}
     \cup {RpcChange("removed", name, m) : m \in DOMAIN before \ DOMAIN after}
     \cup {RpcChange("request_type_changed", name, m) :
             m \in {k \in kept : before[k].input_type # after[k].input_type}}

DiffService(name, before, after) ==
  LET kept == DOMAIN before \cap DOMAIN after
  IN {RpcChange("added", name, m) : m \in DOMAIN after \ DOMAIN before}
     \cup {RpcChange("removed", name, m) : m \in DOMAIN before \ DOMAIN after}
     \cup {RpcChange("request_type_changed", name, m) :
             m \in {k \in kept : before[k].input_type # after[k].input_type}}
     \cup {RpcChange("response_type_changed", name, m) :
             m \in {k \in kept : before[k].output_type # after[k].output_type}}

\* The names that came and went; the changes of the ones that stayed.
Surface(part, root, before, after) ==
  {Change(part, "added", <<root, n>>, NoValue, {}) :
     n \in DOMAIN after \ DOMAIN before}
  \cup {Change(part, "removed", <<root, n>>, NoValue, {}) :
     n \in DOMAIN before \ DOMAIN after}

DiffProto(before, after) ==
  Surface("proto.message", "messages", before.messages, after.messages)
  \cup (UNION {DiffMessage(n, before.messages[n], after.messages[n]) :
                n \in DOMAIN before.messages \cap DOMAIN after.messages})
  \cup Surface("proto.service", "services", before.services, after.services)
  \cup (UNION {DiffService(n, before.services[n], after.services[n]) :
                n \in DOMAIN before.services \cap DOMAIN after.services})

-----------------------------------------------------------------------------
(* What the wire format makes of two versions. It knows no field names.    *)

\* Every payload of the old message decodes to the same values under the new.
DecodesAlike(before, after) ==
  \A n \in DOMAIN before :
    /\ n \in DOMAIN after
    /\ after[n].type = before[n].type
    /\ after[n].label = before[n].label

\* The blind spot of DiffMessage: a field leaves its number for one that
\* another field used. It is skipped as "handled as number_changed", which the
\* loop over the new numbers does not do.
MovesOntoUsedNumber(before, after) ==
  \E n \in DOMAIN before \ DOMAIN after, m \in DOMAIN before \cap DOMAIN after :
    after[m].name = before[n].name
=============================================================================
