---------------------------- MODULE MCOutputWrite ----------------------------
EXTENDS OutputWrite

(* execute_example's prefix: "file:///" followed by the absolute temp      *)
(* directory /tmp/ex, which exists.                                        *)
ExampleUri == <<"file:", "/", "/", "/", "/", "tmp", "/", "ex">>

(* The same with a directory that does not exist yet.                      *)
NewDirUri == <<"file:", "/", "/", "/", "/", "tmp", "/", "new", "/", "d">>

(* file:///tmp/ex: what follows file:/// is the relative path tmp/ex.     *)
SpecUri == <<"file:", "/", "/", "/", "tmp", "/", "ex">>

(* A relative path with no scheme, and two S3 prefixes.                   *)
RelativeUri == <<"out">>
S3Uri == <<"s3:", "/", "/", "bucket">>
S3BadUri == <<"s3:", "/">>

MCInitialDirs == {<<"tmp">>, <<"tmp", "ex">>, <<"data">>}

MCExamplePrefixes == {ExampleUri}
MCPrefixes == {ExampleUri, NewDirUri, SpecUri, RelativeUri, S3Uri, S3BadUri}
MCExampleFormats == {"Csv"}
MCUnspecifiedFormats == {"Unspecified"}
MCFormats == {"Csv", "Unspecified"}

=============================================================================
