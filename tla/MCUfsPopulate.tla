--------------------------- MODULE MCUfsPopulate ---------------------------
(***************************************************************************)
(* Host trees of a sysroot with up to three entries and a directory with   *)
(* up to two, drawn from objects of every kind, and node tables that meet  *)
(* every outcome of a line.  Names have two record sizes, so that          *)
(* directories grow.  No table names a path that the tree already has,     *)
(* except as a directory.                                                  *)
(***************************************************************************)
EXTENDS UfsPopulate

MCNames == {"a", "b", "boot", "dev"}

MCNameLen == [n \in MCNames |-> Len(n)]

Obj(kind, links, data, readable) ==
  [kind |-> kind, links |-> links, data |-> data, readable |-> readable]

\* The sysroot, a directory, a file with three links, one with two (of which
\* the tree may hold fewer), large and small files, a link, a device, a
\* socket, a file and a directory that cannot be read.
Objects == <<
  Obj("dir", 2, << >>, TRUE), Obj("dir", 2, << >>, TRUE),
  Obj("file", 3, <<31>>, TRUE), Obj("file", 2, <<41>>, TRUE),
  Obj("file", 1, <<51, 52, 53>>, TRUE), Obj("file", 1, << >>, TRUE),
  Obj("symlink", 1, <<71>>, TRUE), Obj("device", 1, <<8>>, TRUE),
  Obj("other", 1, << >>, TRUE), Obj("file", 1, <<101>>, FALSE),
  Obj("dir", 2, << >>, FALSE)>>

\* Which object each name leads to; 0 is none.  "?" is not UTF-8.
TopChoice == [{"a", "b", "boot"} -> {0, 2, 3, 5, 7}]

LowChoice == {<<0, 0>>, <<3, 3>>, <<3, 4>>, <<4, 3>>, <<6, 8>>, <<9, 3>>,
              <<10, 3>>, <<7, 11>>, <<4, 5>>}

Listing(pairs) == SelectSeq(pairs, LAMBDA e : e[2] # 0)

Tree(top, low, hidden) ==
  [node  |-> Objects,
   names |-> [d \in DOMAIN Objects |->
     CASE d = HostRoot -> Listing(<<<<"a", top["a"]>>, <<"b", top["b"]>>,
                                    <<"boot", top["boot"]>>, <<"?", hidden>>>>)
       [] d = 2 -> Listing(<<<<"a", low[1]>>, <<"boot", low[2]>>>>)
       [] OTHER -> << >>]]

\* Directories, and files and links of one name, are named once.
MCHostTrees ==
  LET alone(top) == \A n \in DOMAIN top, m \in DOMAIN top :
                      n # m /\ top[n] \in {2, 5, 7} => top[n] # top[m]
      once(top, low) == Range(top) \cap Range(low) \cap {5, 7} = {}
  IN  {Tree(t[1], t[2], t[3]) :
         t \in {u \in TopChoice \X LowChoice \X {0, 6} :
                  /\ alone(u[1]) /\ once(u[1], u[2])
                  /\ 2 \notin Range(u[1]) => u[2] = <<0, 0>>
                  /\ u[3] = 6 => u[2] \in {<<0, 0>>, <<3, 3>>}}}

Node(path, rdev) == [op |-> "node", path |-> path, rdev |-> rdev]
Dir(path) == [op |-> "dir", path |-> path]
Link(path, target) == [op |-> "link", path |-> path, target |-> target]

MCTables == {
  << >>,
  <<Node(<<"dev", "a">>, 9), Node(<<"dev", "boot">>, 10),
    Link(<<"dev", "b">>, <<"dev", "a">>)>>,
  <<Dir(<<"dev">>), Dir(<<"a">>), Node(<<"a", "dev">>, 9)>>,
  <<Link(<<"dev", "a">>, <<"boot">>)>>,
  <<[op |-> "bad"]>>, <<Dir(<< >>)>>}

============================================================================
