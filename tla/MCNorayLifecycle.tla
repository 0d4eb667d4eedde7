-------------------------- MODULE MCNorayLifecycle --------------------------
(* Instances of NorayLifecycle for TLC: the relay ports are what ports()    *)
(* makes of the text in the environment.                                    *)
EXTENDS NorayLifecycle, ConfigParsers

MCCapital == {"Book"}
MCWords == {<< "Book" >>}

\* No port, one, the default range, several ranges, and ports of the system's choice.
MCTexts ==
    {<< << >> >>, << << 2 >> >>, << << 1, Dash, 3 >> >>,
     << << 3 >>, << 1, Plus, 1 >> >>, << << 0, Dash, 1 >> >>,
     << << 0, Dash, 0 >>, << 2, Dash, 3 >> >>}

MCPortLists == {Default(Ports(text), << >>) : text \in MCTexts}
=============================================================================
