----------------------------- MODULE MCSshConfig -----------------------------
(***************************************************************************)
(* Lines for SshConfig: three hosts, conditions on the name and on values  *)
(* set before, and jumps that form chains, cycles and diamonds.            *)
(***************************************************************************)
EXTENDS SshConfig

criterion(kind, patterns, negated) ==
  [kind |-> kind, patterns |-> patterns, except |-> {}, negated |-> negated]
host(names) == [op |-> "select", selector |-> <<criterion("originalhost", names, FALSE)>>]
match(kind, names, negated) ==
  [op |-> "select", selector |-> <<criterion(kind, names, negated)>>]
include(fs) == [op |-> "include", files |-> fs]
put(key, value) == [op |-> "set", key |-> key, value |-> value]

MCAliases == {"a", "b", "c"}
MCFiles == {"main", "extra", "other"}
MCDirectives ==
  {host(<<"a">>), host(<<"b">>),
   [op |-> "select",
    selector |-> <<[criterion("originalhost", <<"*">>, FALSE) EXCEPT !.except = {"c"}]>>],
   match("host", <<"b">>, TRUE), match("user", <<"default">>, FALSE),
   match("never", <<>>, FALSE),
   include(<<"extra", "other">>),
   put("hostname", "b"), put("user", "u"), put("identityfile", "k"),
   put("proxyjump", <<"b", "c", "c">>), put("proxyjump", <<"c">>), put("proxyjump", <<>>)}
MCRoutes == {<<"a">>, <<"b">>, <<"a", "b">>, <<"a", "b", "c", "a", "b">>}
=============================================================================
