-------------------------- MODULE MCJunctionResolve --------------------------
(***************************************************************************)
(* JunctionResolve for TLC: two restored volumes.                          *)
(***************************************************************************)
EXTENDS JunctionResolve

Mount == <<"mnt", "export">>

FileNames ==
    { "mnt", "export", "tmp", "Users", "Data", "Docs", "AllUsers", "MyDocs",
      "Gone", "Old", "Lost", "Deep", "Down", "There", "Foreign", "Public", "Follow" }

Link(at, name, target) == [at |-> at, name |-> name, target |-> target, abs |-> TRUE]
RelLink(at, name, target) == [at |-> at, name |-> name, target |-> target, abs |-> FALSE]

\* A volume on which no suffix of a target but the right one is a directory.
PlainDirs == {<<>>, <<"Users">>, <<"Users", "Data">>, <<"Data">>}

PlainLinks ==
    { Link(<<"Users">>, "AllUsers", Mount \o <<"Data">>),
      Link(<<"Users">>, "Gone", Mount \o <<"Old", "Lost", "Deep", "Down", "There">>),
      Link(<<>>, "Foreign", <<"tmp">>),
      RelLink(<<"Data">>, "Public", <<"Users">>),
      RelLink(<<>>, "Follow", <<"Data">>) }

PlainFollowed == {l \in PlainLinks : l.name = "Follow"}

\* It is as the properties need it.
ASSUME PlainVolume == Links = PlainLinks => NoMisleadingNames /\ ChrootIsFound

\* A volume with directories of the same name at two levels, one of which a
\* dangling junction points to.
TwinDirs == {<<>>, <<"Users">>, <<"Users", "Docs">>, <<"Docs">>}

TwinLinks ==
    { Link(<<>>, "Old", Mount \o <<"Gone", "Docs">>),
      Link(<<>>, "MyDocs", Mount \o <<"Users", "Docs">>) }

==============================================================================
