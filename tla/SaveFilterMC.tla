---------------------------- MODULE SaveFilterMC ----------------------------
(* Instances of SaveFilter for TLC: one domain of ours with a subdomain    *)
(* that is not, one foreign one, the null sender.                          *)
EXTENDS SaveFilter

Ours == <<"our", ".", "org">>
Sub == <<"sub", ".", "our", ".", "org">>
At(user, domain) == <<user, "@">> \o domain

SomeMessages ==
  {[from |-> f, rcpts |-> r] :
     f \in {<<>>, <<"u">>, At("v", Ours), At("u", <<"far">>)},
     r \in {<<At("u", Ours)>>, <<At("u", Ours), At("v", Ours)>>,
            <<At("v", Ours), At("w", Sub), <<"w">> >>}}

Settings(policies, entries) ==
  [savepolicy : policies, mydomain : {{Ours}, {Ours, Sub}},
   savemailaddress : entries, defaultdomain : {Ours}, ldapcheck : BOOLEAN]

EveryEntry ==
  Settings(Policies,
           {{<<>>}, {At("u", Ours)}, {<<"@">> \o Ours}, {Ours},
            {<<>>, At("v", Ours), <<"@">> \o Sub}})

FewEntries == Settings({"both"}, {{At("u", Ours)}})

SomeDirectories == SUBSET {At("u", Ours), At("v", Ours), At("w", Ours)}
=============================================================================
