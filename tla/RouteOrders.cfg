\* Every path of the tables, the paths of wapihelp.txt, none of which a table
\* contains, and others; "/user" is the beginning of paths that are in a table.
CONSTANT
  StrayPaths = {"/score", "/scenestatus", "/scenes", "/useract", "/analyscene",
                "/help", "/", "/user", "/card/add"}
SPECIFICATION RouteSpec
INVARIANTS
  OrderPathsCalled
