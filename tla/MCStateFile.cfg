SPECIFICATION Spec
CONSTANTS
  Datasets = {d1, d2}
  Kept = {d1}
  None = None
  Handlers = {h1}
  Main = Main
  Tools = Tools
INVARIANT RestartResumes
