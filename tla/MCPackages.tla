----------------------------- MODULE MCPackages -----------------------------
(* Small instances of Packages: an npm and a git source of one package name, *)
(* and a local one; a handler of the web server and a CLI process.           *)
EXTENDS Packages

CONSTANTS npm, git, local, web, cli

MCPkgs    == {npm, git, local}
MCTwins   == {<<npm, git>>, <<git, npm>>}
MCCallers == {web, cli}
=============================================================================
