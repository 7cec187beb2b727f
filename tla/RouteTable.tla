----------------------------- MODULE RouteTable -----------------------------
(***************************************************************************)
(* The route table that redstore_setup_http_server of src/redstore.c       *)
(* builds, row by row, for Routing.                                        *)
(***************************************************************************)
EXTENDS Sequences

CONSTANT NULL

Row(method, path, func) == [method |-> method, path |-> path, glob |-> FALSE, func |-> func]
Glob(method, path, func) == [method |-> method, path |-> path, glob |-> TRUE, func |-> func]

Data(method) == Glob(method, <<"/data">>, "answers")

Books == <<Row(NULL, NULL, "passes"),   \* request_counter
           Row(NULL, NULL, "passes"),   \* request_log
           Row(NULL, NULL, "passes")>>  \* reset_error_buffer

Handlers ==
  << Row("GET", <<"/query">>, "answers"),
     Row("GET", <<"/sparql">>, "answers"),
     Row("GET", <<"/sparql", "/">>, "answers"),
     Row("POST", <<"/query">>, "answers"),
     Row("POST", <<"/sparql">>, "answers"),
     Row("POST", <<"/sparql", "/">>, "answers"),
     Data("HEAD"), Data("GET"), Data("PUT"), Data("POST"), Data("DELETE"),
     Row("GET", <<"/insert">>, "answers"),
     Row("POST", <<"/insert">>, "answers"),
     Row("GET", <<"/delete">>, "answers"),
     Row("POST", <<"/delete">>, "answers"),
     Row("GET", <<"/graphs">>, "answers"),
     Row("GET", <<"/load">>, "answers"),
     Row("POST", <<"/load">>, "answers"),
     Row("GET", <<"/">>, "answers"),
     Row("GET", <<"/description">>, "answers"),
     Row("GET", <<"/favicon.ico">>, "answers"),
     Row("GET", <<"/robots.txt">>, "answers") >>

\* remove_trailing_slash and the last row, handle_not_found.
Slash == <<Row("GET", NULL, "remove_trailing_slash")>>
NotFound == <<Row(NULL, NULL, "answers")>>

\* reset_error_buffer registered after the others.
ResetLast == SubSeq(Books, 1, 2) \o Handlers \o Slash \o SubSeq(Books, 3, 3) \o NotFound

RedStoreTable == Books \o Handlers \o Slash \o NotFound
=============================================================================
