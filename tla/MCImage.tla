------------------------------- MODULE MCImage --------------------------------
EXTENDS Image, TLC

CONSTANTS app, team, hub, library_app, team_app, built_app, v1, v2

\* Two repositories with one last part: built, they have one directory, and so has
\* docker.io/app when it is pulled, under a name that Docker Hub does not serve.
MCPullDir == app :> library_app @@ team :> team_app @@ hub :> built_app
MCBuildDir == app :> built_app @@ team :> built_app

MCPaths == {<<"a">>, <<"dev">>, <<"dev", "x">>, <<"dev", "y">>}

Entry(kind, path, data) == [kind |-> kind, path |-> path, data |-> data]

\* v1 has a symbolic link, a directory in the place of a file of v2, and a file that
\* its second layer removes; v2 has a file and a link to it.
MCLayersOf ==
    v1 :> <<<<Entry("file", <<"dev", "x">>, "link"), Entry("file", <<"dev", "y">>, "1"), Entry("dir", <<"a">>, Nothing)>>,
            <<Entry("device", <<"dev", "x">>, Nothing), Entry("whiteout", <<"dev", "y">>, Nothing)>>>>
    @@ v2 :> <<<<Entry("file", <<"a">>, "2"), Entry("hardlink", <<"dev", "y">>, <<"a">>)>>>>

\* A command that deletes a file and replaces another one, and one that replaces a
\* directory by a file where the upper directory has no marker.
MCRunUppers == {<<Entry("device", <<"dev", "x">>, Nothing), Entry("whiteout", <<"a">>, Nothing),
                  Entry("file", <<"a">>, "run")>>,
                <<Entry("file", <<"dev">>, "run")>>}

\* A pulled image, and one in the directory of the built ones.
MCEarlier == {[image |-> app, dir |-> library_app, version |-> v] : v \in Versions}
                 \cup {[image |-> i, dir |-> built_app, version |-> v2] : i \in {app, team}}

MCWorkdir == <<"dev">>

Symmetry == Permutations(Procs)

=============================================================================
