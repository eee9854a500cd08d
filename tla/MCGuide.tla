------------------------------- MODULE MCGuide -------------------------------
(***************************************************************************)
(* The guide for TLC: the things of the opening and a tree in the other    *)
(* room, one direction, and a few utterances of every form.                *)
(***************************************************************************)
EXTENDS InitialGuide

U(form, act, arg, verbs, objs) ==
    [form |-> form, act |-> act, arg |-> arg, verbs |-> verbs, objs |-> objs \cap Objects]

\* A verb and its argument in the given form.
Request(form, verb, arg) == U(form, verb, arg, {verb}, {arg})

SomeUtterances ==
    {Request("do", c[1], c[2]) :
        c \in {<<"look", "none">>, <<"north", "none">>, <<"open", "mailbox">>, <<"open", "none">>,
               <<"read", "mailbox">>, <<"read", "it">>, <<"take", "leaflet">>, <<"take", "it">>,
               <<"examine", "tree">>, <<"examine", "it">>, <<"take", "tree">>}}
    \cup {Request("polite", "take", "leaflet"), Request("untaken", "examine", "leaflet"),
          Request("quote", "take", "leaflet"), Request("cond", "open", "mailbox"),
          Request("negated", "take", "leaflet"), Request("sentence", "take", "leaflet"),
          U("do", "examine", "house", {"look", "examine"}, {"house"}),
          U("multi", "open", "none", {"open", "take"}, {"mailbox", "leaflet"}),
          U("muse", "none", "none", {"open"}, {"mailbox"}),
          U("ask", "none", "none", {"read"}, {"leaflet"}),
          U("compare", "none", "it", {"examine", "open"}, {}),
          U("compare", "none", "none", {"examine", "read"}, {}),
          U("compareBad", "none", "none", {"open"}, {}),
          U("content", "none", "none", {}, {"leaflet"}),
          U("content", "none", "none", {}, {}),
          U("contentOr", "none", "none", {}, {"mailbox"}),
          U("contentDo", "read", "none", {"read"}, {"leaflet"}),
          U("observe", "none", "none", {}, {"leaflet"}),
          U("observe", "take", "none", {"take", "look"}, {"mailbox"}),
          U("help", "none", "none", {}, {"tree"}),
          U("other", "none", "none", {}, {}),
          U("other", "none", "none", {}, {"mailbox"})}
    \cup {U(form, "none", "none", {}, {}) : form \in {"options", "optionsHere", "back"}}
    \cup {U("bare", "none", o, {}, {o}) : o \in {"mailbox", "leaflet", "tree"}}
    \cup {U("where", "none", o, {}, {o}) : o \in {"house", "leaflet"}}
    \cup {U("navigate", "none", o, {}, {o}) : o \in {"mailbox", "leaflet", "house"}}

=============================================================================
