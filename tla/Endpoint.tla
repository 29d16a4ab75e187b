------------------------------ MODULE Endpoint ------------------------------
(***************************************************************************)
(* How a command finds the emulator it talks to (internal/endpoint): an    *)
(* endpoint URL given by flag or environment is probed and classified, and *)
(* nothing else is tried; without one the command looks in Docker.         *)
(***************************************************************************)

\* Where an endpoint URL may come from, in the order the code looks.
Sources == {"--endpoint-url", "LSTK_ENDPOINT_URL", "AWS_ENDPOINT_URL"}
Higher(s) == CASE s = "--endpoint-url" -> {}
               [] s = "LSTK_ENDPOINT_URL" -> {"--endpoint-url"}
               [] s = "AWS_ENDPOINT_URL" -> {"--endpoint-url", "LSTK_ENDPOINT_URL"}

\* A URL is a scheme and a host; an unset source is NoUrl.
NoUrl == [scheme |-> "", host |-> ""]
ValidUrl(u) == u.host # "" /\ u.scheme \in {"http", "https"}

\* given: what each source holds. The first that is set decides, valid or not.
IsSet(given) == {s \in Sources : given[s] # NoUrl}
ResolvedSource(given) == CHOOSE s \in IsSet(given) : Higher(s) \cap IsSet(given) = {}

\* world: what answers at a URL. A health answer has a version or not, and
\* names services; info is asked only when health has no version.
EndpointAnswers ==
  [health : BOOLEAN, version : BOOLEAN, services : SUBSET STRING, info : {"none", "noVersion", "version"}]
Silent == [health |-> FALSE, version |-> FALSE, services |-> {}, info |-> "none"]
AwsServices == {"s3", "sqs", "sts", "iam", "lambda", "dynamodb", "cloudformation",
                "ec2", "kinesis"}
ClassifyByServices(services) ==
  IF "snowflake" \in services THEN "snowflake"
  ELSE IF services \cap AwsServices # {} THEN "aws" ELSE "indeterminate"

SwapScheme(u) == [u EXCEPT !.scheme = IF @ = "http" THEN "https" ELSE "http"]

\* The other scheme is only named to the user, never used.
Unreachable(u, world) ==
  IF world[SwapScheme(u)].health THEN "schemeMismatch" ELSE "unreachable"

ProbeType(u, world) ==
  LET a == world[u]
  IN  CASE ~a.health -> Unreachable(u, world)
        [] a.health /\ a.version -> ClassifyByServices(a.services)
        [] a.health /\ ~a.version /\ a.info = "none" -> "unreachable"
        [] a.health /\ ~a.version /\ a.info = "noVersion" -> "indeterminate"
        [] a.health /\ ~a.version /\ a.info = "version" -> "azure"

TargetTypes == {"aws", "snowflake", "azure"}

\* "docker": no URL given; a type: an emulator answered; otherwise the error.
ResolveEndpoint(given, world) ==
  IF IsSet(given) = {} THEN "docker"
  ELSE LET u == given[ResolvedSource(given)]
       IN  IF ValidUrl(u) THEN ProbeType(u, world) ELSE "invalidUrl"
=============================================================================
