------------------------------ MODULE MCPolicy ------------------------------
(* An instance of Policy for TLC. *)
EXTENDS Policy

Numbers == [x \in {"-1", "0", "0.0007", "1.5", "2"} |->
    CASE x = "-1" -> -10000 [] x = "0" -> 0 [] x = "0.0007" -> 7
      [] x = "1.5" -> 15000 [] x = "2" -> 20000]

Capitals == [Oat |-> "oat"]

\* Key, quantity, unit and category of a command, well-formed or not.
Arguments ==
    {<<k>> : k \in {<<"Oat">>}}
    \cup {<< <<"oat">>, q>> : q \in {"", "abc", "-1", "0", "0.0007", "1.5"}}
    \cup {<< << >>, "1.5">>}
    \cup {<< <<"oat">>, "1.5", "lb", c>> : c \in {"PrimaryFlora", "SpaceMatter"}}

CommandLines ==
    [cmd : {"add", "sub", "set", "rm"}, args : Arguments]

\* Sound answers, and every way in which one may be wrong.
ModelAnswers ==
    [is_approved : {TRUE}, category : {"PrimaryFlora"},
     key : {<<"oat">>, <<"oat", "_", "bunch">>},
     unit : {"g", "lb", "gal", "packs", "bunch", "handful"},
     custom_multiplier : {"", "2"}]
    \cup [is_approved : {TRUE}, category : {"PrimaryFlora"},
          key : {<<"oat">>, <<"Oat", " ", "bunch">>, << >>},
          unit : {"packs"}, custom_multiplier : {"abc", "-1", "0"}]
    \cup {[is_approved |-> p, category |-> c, key |-> <<"oat">>, unit |-> u,
           custom_multiplier |-> ""] :
            <<p, c, u>> \in {<<FALSE, "PrimaryFlora", "packs">>, <<TRUE, "SpaceMatter", "packs">>,
                            <<TRUE, "PrimaryFlora", "blorgs">>}}
=============================================================================
